-------------------------- MODULE LogAndGateProofs --------------------------
(***************************************************************************)
(* Two components that share no state, proved in one module: the log of a  *)
(* conversation and the gate before a tool.                                *)
(*                                                                         *)
(* First why the session log reads whole: for any number of writers,       *)
(* files, calls, faults and crashes, nobody waits for a writer that is     *)
(* gone, the records are numbered without a gap, every file a record names *)
(* is there, a snapshot that was answered is kept, and a row of the index  *)
(* names its own record.                                                   *)
(*                                                                         *)
(* Then why a card ends with its wait and nothing that needs a yes runs    *)
(* without one, for any number of concurrent calls, any policy and any     *)
(* threshold.                                                              *)
(***************************************************************************)
EXTENDS SessionLogInvariant, ToolGate, FiniteSetTheorems, SequenceTheorems,
        WellFoundedInduction, TLAPS

----------------------------------------------------------------------------
(* The session log: its types. *)

\* The names of the callers, the markers of the log and the numbers are apart.
LEMMA NamesApart ==
  /\ {"start", "close", "trim", "cut", "bad"} \cap Clients = {}
  /\ Recs \cap Snaps = {} /\ Recs \cap Flushes = {} /\ Snaps \cap Flushes = {}
  /\ Capacity \in Nat /\ Capacity > 0 /\ MaxBatch \in Nat /\ MaxBatch > 0
  /\ MaxWriters \in Nat /\ MaxFiles \in Nat /\ MaxMishaps \in Nat
  /\ Tasks \subseteq Nat \ {0} /\ Files \subseteq Nat \ {0}
BY SessionLogAssumption DEF Clients, Callers, Tasks, Files

----------------------------------------------------------------------------
(* Sequences and what is in them. *)

\* What two sequences make joined: the places of both, one after the other.
LEMMA RangeCat ==
  ASSUME NEW T, NEW s \in Seq(T), NEW t \in Seq(T)
  PROVE  /\ s \o t \in Seq(T) /\ Len(s \o t) = Len(s) + Len(t)
         /\ Range(s \o t) = Range(s) \cup Range(t)
         /\ \A i \in 1..Len(s) : (s \o t)[i] = s[i]
         /\ \A i \in 1..Len(t) : (s \o t)[Len(s) + i] = t[i]
<1>1. /\ s \o t \in Seq(T) /\ Len(s \o t) = Len(s) + Len(t)
      /\ \A i \in 1..Len(s) : (s \o t)[i] = s[i]
      /\ \A i \in 1..Len(t) : (s \o t)[Len(s) + i] = t[i]
  OBVIOUS
<1>2. Len(s) \in Nat /\ Len(t) \in Nat
  OBVIOUS
<1>3. ASSUME NEW x \in Range(s \o t) PROVE x \in Range(s) \cup Range(t)
  <2>1. PICK i \in 1..(Len(s) + Len(t)) : x = (s \o t)[i]
    BY <1>1, <1>2 DEF Range
  <2>2. CASE i \in 1..Len(s)
    BY <1>1, <2>1, <2>2 DEF Range
  <2>3. CASE i \notin 1..Len(s)
    <3>1. i - Len(s) \in 1..Len(t) /\ i = Len(s) + (i - Len(s))
      BY <1>2, <2>1, <2>3
    <3>2. x = t[i - Len(s)]
      BY <1>1, <2>1, <3>1
    <3> QED BY <3>1, <3>2 DEF Range
  <2> QED BY <2>2, <2>3
<1>4. ASSUME NEW x \in Range(s) PROVE x \in Range(s \o t)
  <2>1. PICK i \in 1..Len(s) : x = s[i]
    BY DEF Range
  <2>2. i \in 1..Len(s \o t) /\ x = (s \o t)[i]
    BY <1>1, <1>2, <2>1
  <2> QED BY <1>1, <2>2 DEF Range
<1>5. ASSUME NEW x \in Range(t) PROVE x \in Range(s \o t)
  <2>1. PICK i \in 1..Len(t) : x = t[i]
    BY DEF Range
  <2>2. Len(s) + i \in 1..Len(s \o t) /\ x = (s \o t)[Len(s) + i]
    BY <1>1, <1>2, <2>1
  <2> QED BY <1>1, <2>2 DEF Range
<1> QED BY <1>1, <1>3, <1>4, <1>5

\* What a sequence is with one more at its end.
LEMMA AppendIs ==
  ASSUME NEW T, NEW s \in Seq(T), NEW e \in T
  PROVE  /\ Append(s, e) \in Seq(T) /\ Len(Append(s, e)) = Len(s) + 1
         /\ \A i \in 1..Len(s) : Append(s, e)[i] = s[i]
         /\ Append(s, e)[Len(s) + 1] = e
         /\ Append(s, e) # <<>>
         /\ Range(Append(s, e)) = Range(s) \cup {e}
<1>1. /\ Append(s, e) \in Seq(T) /\ Len(Append(s, e)) = Len(s) + 1
      /\ \A i \in 1..Len(s) : Append(s, e)[i] = s[i]
      /\ Append(s, e)[Len(s) + 1] = e
  OBVIOUS
<1>2. Len(s) \in Nat /\ DOMAIN s = 1..Len(s) /\ DOMAIN Append(s, e) = 1..(Len(s) + 1)
  OBVIOUS
<1>3. Range(Append(s, e)) = Range(s) \cup {e}
  <2>1. ASSUME NEW x \in Range(Append(s, e)) PROVE x \in Range(s) \cup {e}
    <3>1. PICK i \in 1..(Len(s) + 1) : x = Append(s, e)[i]
      BY <1>2 DEF Range
    <3>2. i \in 1..Len(s) \/ i = Len(s) + 1
      BY <1>2, <3>1
    <3> QED BY <1>1, <1>2, <3>1, <3>2 DEF Range
  <2>2. ASSUME NEW x \in Range(s) PROVE x \in Range(Append(s, e))
    <3>1. PICK i \in 1..Len(s) : x = s[i]
      BY <1>2 DEF Range
    <3>2. i \in 1..(Len(s) + 1) /\ x = Append(s, e)[i]
      BY <1>1, <1>2, <3>1
    <3> QED BY <1>2, <3>2 DEF Range
  <2>3. e \in Range(Append(s, e))
    <3>1. Len(s) + 1 \in 1..(Len(s) + 1) /\ e = Append(s, e)[Len(s) + 1]
      BY <1>1, <1>2
    <3> QED BY <1>2, <3>1 DEF Range
  <2> QED BY <2>1, <2>2, <2>3
<1>4. Append(s, e) # <<>>
  BY AppendProperties
<1> QED BY <1>1, <1>3, <1>4

\* What a sequence that is not empty is without its first.
LEMMA TailIs ==
  ASSUME NEW T, NEW s \in Seq(T), s # <<>>
  PROVE  /\ Head(s) \in T /\ Head(s) = s[1] /\ Tail(s) \in Seq(T)
         /\ Len(s) > 0 /\ Len(Tail(s)) = Len(s) - 1
         /\ \A i \in 1..(Len(s) - 1) : Tail(s)[i] = s[i + 1]
         /\ Range(s) = {Head(s)} \cup Range(Tail(s))
<1>1. /\ Head(s) \in T /\ Head(s) = s[1] /\ Tail(s) \in Seq(T)
      /\ Len(s) > 0 /\ Len(Tail(s)) = Len(s) - 1 /\ Len(s) \in Nat
      /\ \A i \in 1..(Len(s) - 1) : Tail(s)[i] = s[i + 1]
  OBVIOUS
<1>2. DOMAIN s = 1..Len(s) /\ DOMAIN Tail(s) = 1..(Len(s) - 1)
  BY <1>1
<1>3. ASSUME NEW x \in Range(s) PROVE x \in {Head(s)} \cup Range(Tail(s))
  <2>1. PICK i \in 1..Len(s) : x = s[i]
    BY <1>2 DEF Range
  <2>2. CASE i = 1
    BY <1>1, <2>1, <2>2
  <2>3. CASE i # 1
    <3>1. i - 1 \in 1..(Len(s) - 1) /\ (i - 1) + 1 = i
      BY <1>1, <2>1, <2>3
    <3>2. x = Tail(s)[i - 1]
      BY <1>1, <2>1, <3>1
    <3> QED BY <1>2, <3>1, <3>2 DEF Range
  <2> QED BY <2>2, <2>3
<1>4. ASSUME NEW x \in Range(Tail(s)) PROVE x \in Range(s)
  <2>1. PICK i \in 1..(Len(s) - 1) : x = Tail(s)[i]
    BY <1>2 DEF Range
  <2>2. i + 1 \in 1..Len(s) /\ x = s[i + 1]
    BY <1>1, <2>1
  <2> QED BY <1>2, <2>2 DEF Range
<1>5. Head(s) \in Range(s)
  <2>1. 1 \in 1..Len(s)
    BY <1>1
  <2> QED BY <1>1, <1>2, <2>1 DEF Range
<1> QED BY <1>1, <1>3, <1>4, <1>5

\* A sequence cut after its first n is those and the rest.
LEMMA SplitIs ==
  ASSUME NEW T, NEW s \in Seq(T), NEW n \in 0..Len(s)
  PROVE  /\ SubSeq(s, 1, n) \in Seq(T) /\ Len(SubSeq(s, 1, n)) = n
         /\ SubSeq(s, n + 1, Len(s)) \in Seq(T)
         /\ Len(SubSeq(s, n + 1, Len(s))) = Len(s) - n
         /\ \A i \in 1..n : SubSeq(s, 1, n)[i] = s[i]
         /\ \A i \in 1..(Len(s) - n) : SubSeq(s, n + 1, Len(s))[i] = s[n + i]
         /\ s = SubSeq(s, 1, n) \o SubSeq(s, n + 1, Len(s))
<1>1. /\ SubSeq(s, 1, n) \in Seq(T) /\ Len(SubSeq(s, 1, n)) = n
      /\ \A i \in 1..n : SubSeq(s, 1, n)[i] = s[i]
  OBVIOUS
<1>2. /\ SubSeq(s, n + 1, Len(s)) \in Seq(T)
      /\ Len(SubSeq(s, n + 1, Len(s))) = Len(s) - n
      /\ \A i \in 1..(Len(s) - n) : SubSeq(s, n + 1, Len(s))[i] = s[n + i]
  OBVIOUS
<1>3. s = SubSeq(s, 1, n) \o SubSeq(s, n + 1, Len(s))
  <2>1. 1 \in 1..Len(s) + 1 /\ n \in (1 - 1)..Len(s) /\ Len(s) \in n..Len(s)
    OBVIOUS
  <2> QED BY <2>1, ConcatAdjacentSubSeq, SubSeqFull
<1> QED BY <1>1, <1>2, <1>3

----------------------------------------------------------------------------
(* Least and greatest numbers, and what enforce_session_cap takes. *)

\* A non-empty set of numbers has a least one.
LEMMA LeastOf ==
  ASSUME NEW T, T \subseteq Nat, T # {}
  PROVE  \E n \in T : \A m \in T : n <= m
<1>1. PICK n \in T : \A m \in T : ~(<<m, n>> \in OpToRel(<, Nat))
  BY WFMin, NatLessThanWellFounded
<1>2. ASSUME NEW m \in T, ~(n <= m) PROVE FALSE
  <2>1. m \in Nat /\ n \in Nat /\ m < n
    BY <1>2
  <2>2. <<m, n>> \in {ss \in Nat \X Nat : ss[1] < ss[2]}
    BY <2>1
  <2> QED BY <1>1, <2>2 DEF OpToRel
<1> QED BY <1>2

\* Some numbers have a least.
LEMMA LeastIs ==
  ASSUME NEW T, T \subseteq Nat, T # {}
  PROVE  Min(T) \in T /\ Min(T) \in Nat /\ \A m \in T : Min(T) <= m
<1>1. Min(T) \in T /\ \A m \in T : Min(T) <= m
  BY LeastOf DEF Min
<1> QED BY <1>1

\* A bounded one has a greatest: the least of its upper bounds.
LEMMA GreatestIs ==
  ASSUME NEW T, T \subseteq Nat, T # {}, NEW b \in Nat, \A m \in T : m <= b
  PROVE  Max(T) \in T /\ Max(T) \in Nat /\ \A m \in T : m <= Max(T)
<1> DEFINE U == {n \in Nat : \A m \in T : m <= n}
<1>1. U \subseteq Nat /\ U # {}
  OBVIOUS
<1>2. PICK u \in U : \A n \in U : u <= n
  BY <1>1, LeastOf
<1>3. u \in T
  <2>1. SUFFICES ASSUME u \notin T PROVE FALSE
    OBVIOUS
  <2>2. \A m \in T : m < u
    BY <1>2, <2>1
  <2>3. u > 0
    <3>1. PICK m \in T : TRUE
      OBVIOUS
    <3> QED BY <2>2, <3>1
  <2>4. u - 1 \in U
    BY <2>2, <2>3
  <2> QED BY <1>2, <2>4
<1>4. Max(T) \in T /\ \A m \in T : Max(T) >= m
  BY <1>2, <1>3 DEF Max
<1> QED BY <1>4

\* A finite set of numbers is bounded, by a smallest subset that is not.
LEMMA FiniteBounded ==
  ASSUME NEW T, T \subseteq Nat, IsFiniteSet(T)
  PROVE  \E b \in Nat : \A m \in T : m <= b
<1> DEFINE Loose == {X \in SUBSET T : \A b \in Nat : \E m \in X : ~(m <= b)}
           Sizes == {Cardinality(X) : X \in Loose}
<1>1. SUFFICES ASSUME T \in Loose PROVE FALSE
  OBVIOUS
<1>2. \A X \in Loose : IsFiniteSet(X) /\ Cardinality(X) \in Nat
  BY FS_Subset, FS_CardinalityType
<1>3. PICK X \in Loose : \A Y \in Loose : Cardinality(X) <= Cardinality(Y)
  <2>1. Sizes \subseteq Nat /\ Sizes # {}
    BY <1>1, <1>2
  <2>2. PICK n \in Sizes : \A m \in Sizes : n <= m
    BY <2>1, LeastOf
  <2> QED BY <2>2
<1>4. PICK x \in X : TRUE
  <2>1. X # {}
    OBVIOUS
  <2> QED BY <2>1
<1>5. Cardinality(X \ {x}) = Cardinality(X) - 1
  BY <1>2, <1>4, FS_RemoveElement
<1>6. X \ {x} \notin Loose
  <2>1. SUFFICES ASSUME X \ {x} \in Loose PROVE FALSE
    OBVIOUS
  <2>2. Cardinality(X) \in Nat
    BY <1>2
  <2>3. Cardinality(X) <= Cardinality(X \ {x})
    BY <1>3, <2>1
  <2> QED BY <1>5, <2>2, <2>3
<1>7. PICK b \in Nat : \A m \in X \ {x} : m <= b
  BY <1>6
<1>8. x \in Nat /\ X \subseteq Nat
  OBVIOUS
<1>9. \E d \in Nat : \A m \in X : m <= d
  <2>1. CASE x <= b
    BY <1>7, <2>1
  <2>2. CASE ~(x <= b)
    <3>1. \A m \in X : m <= x
      BY <1>7, <1>8, <2>2
    <3> QED BY <1>8, <3>1
  <2> QED BY <2>1, <2>2
<1> QED BY <1>9

\* What the cap takes, and the files that names: some of the oldest segments, or what is left
\* of them when one of stuck cannot be removed.
LEMMA CappedIs ==
  ASSUME NEW d \in DirType, IsFiniteSet(d.arch), NEW b, NEW stuck
  PROVE  \E G, F : /\ F \in BOOLEAN /\ (stuck = {} => ~F)
                   /\ G \subseteq d.arch /\ (~F => OldestOf(d, G))
                   /\ enforce_session_cap(d, b, lines, stuck) =
                        [disk |-> Less(d, G), beside |-> Spared(b, G), trimmed |-> G # {},
                         failed |-> F]
<1> DEFINE Oldest == {D \in SUBSET d.arch : \A x \in D : \A y \in d.arch \ D : x.first <= y.first}
           FilesOf(D) == UNION {referenced_files_in(lines[a.file]) : a \in D}
           Bytes(D) == (IF d.live = 0 THEN 0 ELSE Len(lines[d.live]))
                       + MapThenSumSet(LAMBDA a : Len(lines[a.file]), d.arch \ D)
                       + BesideBytes * Cardinality(b \ FilesOf(D))
           Enough == {D \in Oldest : Bytes(D \ stuck) <= MaxBytes \/ D = d.arch}
           Sizes == {Cardinality(D) : D \in Enough}
           tried == CHOOSE D \in Enough : \A E \in Enough : Cardinality(D) <= Cardinality(E)
           gone == tried \ stuck
           F == tried \cap stuck # {}
<1>1. Enough \subseteq Oldest /\ d.arch \in Enough
  OBVIOUS
<1> HIDE DEF Enough
<1>2. Sizes \subseteq Nat /\ Sizes # {}
  BY <1>1, FS_Subset, FS_CardinalityType
<1>3. \E D \in Enough : \A E \in Enough : Cardinality(D) <= Cardinality(E)
  <2>1. PICK n \in Sizes : \A m \in Sizes : n <= m
    BY <1>2, LeastOf
  <2> QED BY <2>1
<1>4. tried \in Enough
  BY <1>3
<1>5. OldestOf(d, tried)
  BY <1>1, <1>4 DEF OldestOf
<1>6. enforce_session_cap(d, b, lines, stuck) =
        [disk |-> Less(d, gone), beside |-> Spared(b, gone), trimmed |-> gone # {}, failed |-> F]
  BY DEF enforce_session_cap, Enough, Less, Spared
<1> HIDE DEF tried
<1>7. gone \subseteq d.arch /\ F \in BOOLEAN /\ (stuck = {} => ~F)
  BY <1>5 DEF OldestOf
<1>8. ~F => OldestOf(d, gone)
  <2> SUFFICES ASSUME ~F PROVE OldestOf(d, gone)
    OBVIOUS
  <2>1. gone = tried
    OBVIOUS
  <2> QED BY <1>5, <2>1
<1> HIDE DEF gone, F
<1> QED BY <1>6, <1>7, <1>8

----------------------------------------------------------------------------
(* The operations on a log, and their types. *)

\* A record, a line cut short and one that cannot be read are lines, and only the first parses.
LEMMA LineIs ==
  /\ \A n \in Nat, r \in Words, f \in SUBSET Images :
       /\ Line(n, r, f) \in LineType
       /\ Line(n, r, f).seq = n /\ Line(n, r, f).rec = r /\ Line(n, r, f).ref = f
  /\ Cut \in LineType /\ ~Parses(Cut) /\ Cut.ref = {} /\ Cut.rec = "cut"
  /\ Bad \in LineType /\ ~Parses(Bad) /\ Bad.ref = {} /\ Bad.rec = "bad"
<1>1. \A n \in Nat, r \in Words, f \in SUBSET Images :
        /\ Line(n, r, f) \in LineType
        /\ Line(n, r, f).seq = n /\ Line(n, r, f).rec = r /\ Line(n, r, f).ref = f
  BY DEF Line, LineType
<1>2. "cut" \in Words /\ "bad" \in Words /\ {} \in SUBSET Images /\ 0 \in Nat
  BY DEF Words
<1>3. /\ Cut \in LineType /\ Cut.seq = 0 /\ Cut.ref = {} /\ Cut.rec = "cut"
      /\ Bad \in LineType /\ Bad.seq = 0 /\ Bad.ref = {} /\ Bad.rec = "bad"
  BY <1>1, <1>2 DEF Cut, Bad
<1>4. ~Parses(Cut) /\ ~Parses(Bad)
  BY <1>3 DEF Parses
<1> QED BY <1>1, <1>3, <1>4

\* A record goes to the end, or is swallowed by a line cut short.
LEMMA AppendedIs ==
  ASSUME NEW s \in Seq(LineType), NEW l \in LineType
  PROVE  /\ Appended(s, l) \in Seq(LineType)
         /\ (s = <<>> \/ s[Len(s)] # Cut) => Appended(s, l) = Append(s, l)
         /\ (s # <<>> /\ s[Len(s)] = Cut) =>
              /\ Len(Appended(s, l)) = Len(s) /\ Appended(s, l)[Len(s)] = Bad
              /\ \A i \in 1..(Len(s) - 1) : Appended(s, l)[i] = s[i]
         /\ Len(Appended(s, l)) >= Len(s)
<1>1. CASE s # <<>> /\ s[Len(s)] = Cut
  <2>1. Len(s) \in 1..Len(s)
    BY <1>1, TailIs
  <2>2. Appended(s, l) = [s EXCEPT ![Len(s)] = Bad]
    BY <1>1 DEF Appended
  <2>3. /\ [s EXCEPT ![Len(s)] = Bad] \in Seq(LineType)
        /\ Len([s EXCEPT ![Len(s)] = Bad]) = Len(s)
        /\ \A j \in 1..Len(s) : [s EXCEPT ![Len(s)] = Bad][j] = IF j = Len(s) THEN Bad ELSE s[j]
    BY <2>1, ExceptSeq, LineIs
  <2>4. Len(s) \in Nat /\ \A i \in 1..(Len(s) - 1) : i \in 1..Len(s) /\ i # Len(s)
    BY <2>1
  <2>5. Len(Appended(s, l)) = Len(s) /\ Appended(s, l) \in Seq(LineType)
    BY <2>2, <2>3
  <2>6. /\ Appended(s, l)[Len(s)] = Bad
        /\ \A i \in 1..(Len(s) - 1) : Appended(s, l)[i] = s[i]
    BY <2>1, <2>2, <2>3, <2>4
  <2> QED BY <1>1, <2>4, <2>5, <2>6
<1>2. CASE ~(s # <<>> /\ s[Len(s)] = Cut)
  <2>1. Appended(s, l) = Append(s, l)
    BY <1>2 DEF Appended
  <2> QED BY <1>2, <2>1, AppendIs
<1> QED BY <1>1, <1>2

\* A segment with half a line at its end is as it was, but for that line.
LEMMA TornIs ==
  ASSUME NEW s \in Seq(LineType)
  PROVE  /\ Torn(s) \in Seq(LineType) /\ Len(Torn(s)) >= Len(s)
         /\ \A i \in 1..Len(Torn(s)) : Torn(s)[i] = Cut \/ (i <= Len(s) /\ Torn(s)[i] = s[i])
<1>1. CASE s # <<>> /\ s[Len(s)] = Cut
  BY <1>1 DEF Torn
<1>2. CASE ~(s # <<>> /\ s[Len(s)] = Cut)
  <2>1. Torn(s) = Append(s, Cut) /\ Cut \in LineType
    BY <1>2, LineIs DEF Torn
  <2> QED BY <2>1, AppendIs
<1> QED BY <1>1, <1>2

\* Cutting back to all that is there leaves the file as it is.
LEMMA CutBackIs ==
  ASSUME NEW s \in Seq(LineType), NEW n \in Nat, NEW t \in CutBack(s, n), ProcOK
  PROVE  /\ t \in Seq(LineType)
         /\ (~hurt /\ n = Len(s)) => t = s
         /\ \A i \in 1..Len(t) : t[i] = Cut \/ (i <= Len(s) /\ t[i] = s[i])
<1> DEFINE u == IF n <= Len(s) THEN SubSeq(s, 1, n) ELSE Torn(s)
<1>1. /\ u \in Seq(LineType)
      /\ \A i \in 1..Len(u) : u[i] = Cut \/ (i <= Len(s) /\ u[i] = s[i])
  <2>1. CASE n <= Len(s)
    <3>1. n \in 0..Len(s)
      BY <2>1
    <3>2. /\ SubSeq(s, 1, n) \in Seq(LineType) /\ Len(SubSeq(s, 1, n)) = n
          /\ \A i \in 1..n : SubSeq(s, 1, n)[i] = s[i]
      BY <3>1, SplitIs
    <3> QED BY <2>1, <3>1, <3>2
  <2>2. CASE ~(n <= Len(s))
    BY <2>2, TornIs
  <2> QED BY <2>1, <2>2
<1>2. \/ t = u
      \/ hurt /\ u # <<>> /\ t = [u EXCEPT ![Len(u)] = Cut]
  BY DEF CutBack
<1>3. (~hurt /\ n = Len(s)) => u = s
  BY SubSeqFull
<1> HIDE DEF u
<1>4. CASE t = u
  BY <1>1, <1>3, <1>4
<1>5. CASE hurt /\ u # <<>> /\ t = [u EXCEPT ![Len(u)] = Cut]
  <2>1. Len(u) \in 1..Len(u)
    BY <1>1, <1>5, TailIs
  <2>2. /\ t \in Seq(LineType) /\ Len(t) = Len(u)
        /\ \A i \in 1..Len(u) : t[i] = IF i = Len(u) THEN Cut ELSE u[i]
    BY <1>1, <1>5, <2>1, ExceptSeq, LineIs
  <2> QED BY <1>1, <1>5, <2>2
<1> QED BY <1>2, <1>4, <1>5

\* The repair keeps what ends in the last line that parses.
LEMMA RepairIs ==
  ASSUME NEW s \in Seq(LineType)
  PROVE  /\ LastParsed(s) \in 0..Len(s)
         /\ LastParsed(s) # 0 => Parses(s[LastParsed(s)])
         /\ \A i \in 1..Len(s) : Parses(s[i]) => i <= LastParsed(s)
         /\ repair_tail(s) \in Seq(LineType) /\ Len(repair_tail(s)) = LastParsed(s)
         /\ \A i \in 1..LastParsed(s) : repair_tail(s)[i] = s[i]
<1> DEFINE T == {0} \cup {i \in DOMAIN s : Parses(s[i])}
<1>1. T \subseteq Nat /\ T # {} /\ Len(s) \in Nat /\ \A m \in T : m <= Len(s)
  OBVIOUS
<1>2. Max(T) \in T /\ \A m \in T : m <= Max(T)
  BY <1>1, GreatestIs
<1>3. LastParsed(s) = Max(T)
  BY DEF LastParsed
<1> HIDE DEF T
<1>4. /\ LastParsed(s) \in 0..Len(s)
      /\ LastParsed(s) # 0 => Parses(s[LastParsed(s)])
      /\ \A i \in 1..Len(s) : Parses(s[i]) => i <= LastParsed(s)
  BY <1>2, <1>3 DEF T
<1> QED BY <1>4, SplitIs DEF repair_tail

\* The last archived number is the highest there is, and 0 without an archived segment.
LEMMA LastSeqIs ==
  ASSUME DiskOK
  PROVE  /\ archived_last_seq \in Nat
         /\ \A a \in disk.arch : a.last <= archived_last_seq
         /\ disk.arch = {} => archived_last_seq = 0
         /\ disk.arch # {} => \E a \in disk.arch : a.last = archived_last_seq
<1> DEFINE T == {a.last : a \in disk.arch}
<1>1. disk.arch \subseteq SegType /\ T \subseteq Nat
  BY DEF DiskOK, DirType, SegType
<1>2. IsFiniteSet(T)
  <2>1. [a \in disk.arch |-> a.last] \in Surjection(disk.arch, T)
    BY DEF Surjection
  <2> QED BY <2>1, FS_Surjection DEF DiskOK
<1>3. PICK b \in Nat : \A m \in T : m <= b
  BY <1>1, <1>2, FiniteBounded
<1>4. {0} \cup T \subseteq Nat /\ \A m \in {0} \cup T : m <= b
  BY <1>1, <1>3
<1>5. /\ Max({0} \cup T) \in {0} \cup T /\ Max({0} \cup T) \in Nat
      /\ \A m \in {0} \cup T : m <= Max({0} \cup T)
  BY <1>4, GreatestIs
<1>6. archived_last_seq = Max({0} \cup T)
  BY DEF archived_last_seq
<1>7. disk.arch # {} => \E a \in disk.arch : a.last = archived_last_seq
  <2>1. SUFFICES ASSUME disk.arch # {} PROVE \E a \in disk.arch : a.last = archived_last_seq
    OBVIOUS
  <2>2. CASE archived_last_seq \in T
    BY <2>2
  <2>3. CASE archived_last_seq = 0
    <3>1. PICK a \in disk.arch : TRUE
      BY <2>1
    <3>2. a.last \in Nat /\ a.last <= 0
      BY <1>1, <1>5, <1>6, <2>3, <3>1
    <3> QED BY <2>3, <3>1, <3>2
  <2> QED BY <1>5, <1>6, <2>2, <2>3
<1> QED BY <1>1, <1>5, <1>6, <1>7

\* A file keeps its contents while the directory or a writer has it.
LEMMA KeptIs ==
  ASSUME NEW ls \in [Files -> Seq(LineType)], NEW d, NEW lg
  PROVE  /\ Kept(ls, d, lg) \in [Files -> Seq(LineType)]
         /\ \A f \in Files :
              /\ f \in {d.live} \cup {a.file : a \in d.arch} \cup {lg[w].file : w \in Tasks}
                 => Kept(ls, d, lg)[f] = ls[f]
              /\ f \notin {d.live} \cup {a.file : a \in d.arch} \cup {lg[w].file : w \in Tasks}
                 => Kept(ls, d, lg)[f] = <<>>
<1>1. <<>> \in Seq(LineType)
  OBVIOUS
<1> QED BY <1>1 DEF Kept

----------------------------------------------------------------------------
(* Every step keeps the types. *)

\* The log starts well formed.
LEMMA InitTyped == LogInit => LogTyped
<1> SUFFICES ASSUME LogInit PROVE LogTyped
  OBVIOUS
<1>1. Closed \in FileType /\ Closed.file = 0 /\ ~Closed.gaveUp
  BY DEF Closed, FileType
<1>2. ProcOK /\ ServiceOK /\ DeleteOK /\ RowsOK
  <2> USE DEF LogInit
  <2>0. /\ up \in BOOLEAN /\ hurt \in BOOLEAN /\ started \in BOOLEAN /\ swept \in BOOLEAN
        /\ lost \in BOOLEAN
    BY Zenon
  <2>1. ProcOK
    <3>1. crashes \in Nat /\ faults \in Nat /\ crashes + faults <= MaxMishaps
      BY NamesApart
    <3> QED BY <2>0, <3>1 DEF ProcOK
  <2>2. ServiceOK /\ DeleteOK /\ RowsOK
    <3>1. slot \in Tasks \cup {0} /\ dpc = "idle" /\ dying \in Tasks \cup {0} /\ deletes \in 0..1
      OBVIOUS
    <3>2. rows \in [Recs -> Nat] /\ spilled \subseteq Recs
      OBVIOUS
    <3> QED BY <2>0, <3>1, <3>2 DEF ServiceOK, DeleteOK, RowsOK
  <2> QED BY <2>1, <2>2
<1>3. ClientOK
  BY DEF LogInit, ClientOK, Stops, Over
<1>4. ChanOK
  <2>1. <<>> \in Seq(Messages) /\ Len(<<>>) = 0
    OBVIOUS
  <2> QED BY <2>1, NamesApart DEF LogInit, ChanOK
<1>5. WritersOK
  <2>1. <<>> \in Seq(Messages) /\ Len(<<>>) = 0
    OBVIOUS
  <2> QED BY <1>1, <2>1, NamesApart DEF LogInit, WritersOK, WriterModes
<1>6. DiskOK
  <2>1. <<>> \in Seq(LineType)
    OBVIOUS
  <2>2. NoDir \in DirType /\ NoDir.arch = {}
    BY DEF NoDir, DirType
  <2> QED BY <2>1, <2>2, FS_EmptySet DEF LogInit, DiskOK
<1>7. ModesAgree
  BY <1>1 DEF LogInit, ModesAgree, Agrees, Handling
<1> QED BY <1>2, <1>3, <1>4, <1>5, <1>6, <1>7 DEF LogTyped

\* A step of one writer leaves the others as they were.
LEMMA OneAgrees ==
  ASSUME ModesAgree, NEW w \in Tasks,
         \A v \in Tasks \ {w} : /\ chan'[v] = chan[v] /\ queue'[v] = queue[v]
                                /\ mode'[v] = mode[v] /\ batch'[v] = batch[v]
                                /\ log'[v] = log[v],
         Agrees(chan'[w], queue'[w], mode'[w], batch'[w], log'[w])
  PROVE  ModesAgree'
BY DEF ModesAgree

\* A new writer task has its channel, and nothing in hand.
LEMMA SpawnedTyped ==
  ASSUME LogTyped, NEW w \in Tasks, NEW msgs \in {<<>>, <<"start">>}, Spawned(w, msgs),
         batch' = batch
  PROVE  slot' = w /\ ChanOK' /\ WritersOK' /\ ModesAgree'
<1>1. Closed \in FileType /\ Closed.file = 0 /\ ~Closed.gaveUp
  BY DEF Closed, FileType
<1>2. msgs \in Seq(Messages) /\ Len(msgs) <= 1
  <2>1. "start" \in Messages
    BY DEF Messages
  <2>2. CASE msgs = <<>>
    BY <2>2
  <2>3. CASE msgs = <<"start">>
    <3>1. <<"start">> \in Seq(Messages) /\ Len(<<"start">>) = 1
      BY <2>1
    <3> QED BY <2>3, <3>1
  <2> QED BY <2>2, <2>3
<1>3. Len(msgs) <= Capacity
  <2>1. Len(msgs) \in Nat
    BY <1>2
  <2> QED BY <1>2, <2>1, NamesApart
<1>4. ChanOK'
  BY <1>2, <1>3 DEF Spawned, ChanOK, LogTyped
<1>5. WritersOK'
  BY <1>1 DEF Spawned, WritersOK, LogTyped, WriterModes
<1>6. mode[w] \in {"none", "exit"}
  BY DEF Spawned, Unspawned
<1>7. batch[w] = <<>>
  BY <1>6 DEF LogTyped, ModesAgree, Agrees, Handling
<1>8. /\ chan'[w] = "open" /\ queue'[w] = msgs /\ mode'[w] = "wait" /\ batch'[w] = <<>>
      /\ log'[w] = Closed
  BY <1>7 DEF Spawned, LogTyped, ChanOK, WritersOK
<1>9. Agrees(chan'[w], queue'[w], mode'[w], batch'[w], log'[w])
  BY <1>1, <1>8 DEF Agrees, Handling
<1>10. ModesAgree'
  <2>1. \A v \in Tasks \ {w} : /\ chan'[v] = chan[v] /\ queue'[v] = queue[v]
                               /\ mode'[v] = mode[v] /\ batch'[v] = batch[v]
                               /\ log'[v] = log[v]
    BY DEF Spawned, LogTyped, ChanOK, WritersOK
  <2> QED BY <1>9, <2>1, OneAgrees DEF LogTyped
<1> QED BY <1>4, <1>5, <1>10 DEF Spawned

\* A message more in an open channel.
LEMMA QueuedTyped ==
  ASSUME LogTyped, NEW w \in Tasks, chan[w] = "open", Len(queue[w]) < Capacity,
         NEW m \in Messages, queue' = [queue EXCEPT ![w] = Append(@, m)],
         UNCHANGED <<chan, mode, batch, log>>
  PROVE  ChanOK' /\ ModesAgree' /\ queue'[w] = Append(queue[w], m)
<1>1. queue \in [Tasks -> Seq(Messages)] /\ Capacity \in Nat
  BY NamesApart DEF LogTyped, ChanOK
<1>2. Append(queue[w], m) \in Seq(Messages) /\ Len(Append(queue[w], m)) = Len(queue[w]) + 1
  BY <1>1, AppendIs
<1>3. queue'[w] = Append(queue[w], m) /\ \A v \in Tasks \ {w} : queue'[v] = queue[v]
  BY <1>1
<1>4. Len(queue[w]) + 1 <= Capacity
  <2>1. Len(queue[w]) \in Nat
    BY <1>1
  <2> QED BY <1>1, <2>1
<1>5. ChanOK'
  <2>1. queue' \in [Tasks -> Seq(Messages)]
    BY <1>1, <1>2
  <2>2. \A v \in Tasks : Len(queue'[v]) <= Capacity
    BY <1>2, <1>3, <1>4 DEF LogTyped, ChanOK
  <2> QED BY <2>1, <2>2 DEF LogTyped, ChanOK
<1>6. Agrees(chan'[w], queue'[w], mode'[w], batch'[w], log'[w])
  <2>1. Agrees(chan[w], queue[w], mode[w], batch[w], log[w])
    BY DEF LogTyped, ModesAgree
  <2> QED BY <2>1 DEF Agrees
<1>7. ModesAgree'
  BY <1>3, <1>6, OneAgrees DEF LogTyped
<1> QED BY <1>3, <1>5, <1>7

\* Opening a handle keeps the types (SessionLogService::open).
LEMMA OpenTyped == ASSUME LogTyped, NEW c \in Clients, Open(c) PROVE LogTyped'
<1>1. ProcOK' /\ DeleteOK' /\ DiskOK' /\ RowsOK'
  BY DEF Open, LogTyped, ProcOK, DeleteOK, DiskOK, RowsOK, procVars, deleteVars, diskVars, rowVars
<1>2. CASE Live(slot)
  <2>1. slot \in Tasks /\ chan[slot] = "open"
    BY <1>2 DEF Live, LogTyped, ServiceOK
  <2>2. ServiceOK' /\ ClientOK'
    BY <1>2, <2>1 DEF Open, LogTyped, ServiceOK, ClientOK, Stops
  <2>3. WritersOK'
    BY <1>2 DEF Open, LogTyped, WritersOK
  <2>4. CASE started \/ Len(queue[slot]) = Capacity
    <3>1. UNCHANGED <<chan, queue, mode, batch, log>>
      BY <1>2, <2>4 DEF Open
    <3>2. ChanOK' /\ ModesAgree'
      BY <3>1 DEF LogTyped, ChanOK, ModesAgree
    <3> QED BY <1>1, <2>2, <2>3, <3>2 DEF LogTyped
  <2>5. CASE ~(started \/ Len(queue[slot]) = Capacity)
    <3>1. Len(queue[slot]) < Capacity
      <4>1. Len(queue[slot]) \in Nat /\ Len(queue[slot]) <= Capacity
        BY <2>1 DEF LogTyped, ChanOK
      <4> QED BY <2>5, <4>1, NamesApart
    <3>2. "start" \in Messages
      BY DEF Messages
    <3>3. /\ queue' = [queue EXCEPT ![slot] = Append(@, "start")]
          /\ UNCHANGED <<chan, mode, batch, log>>
      BY <1>2, <2>5 DEF Open
    <3>4. ChanOK' /\ ModesAgree'
      BY <2>1, <3>1, <3>2, <3>3, QueuedTyped
    <3> QED BY <1>1, <2>2, <2>3, <3>4 DEF LogTyped
  <2> QED BY <2>4, <2>5
<1>3. CASE ~Live(slot)
  <2>1. PICK w \in Tasks : /\ Spawned(w, IF started THEN <<>> ELSE <<"start">>)
                           /\ hold' = [hold EXCEPT ![c] = w]
    BY <1>3 DEF Open
  <2>2. slot' = w /\ ChanOK' /\ WritersOK' /\ ModesAgree'
    BY <2>1, SpawnedTyped DEF Open
  <2>3. ServiceOK' /\ ClientOK'
    BY <2>1, <2>2 DEF Open, LogTyped, ServiceOK, ClientOK, Stops
  <2> QED BY <1>1, <2>2, <2>3 DEF LogTyped
<1> QED BY <1>2, <1>3

\* So does the retry on a reopened handle.
LEMMA ReopenTyped == ASSUME LogTyped, NEW c \in Clients, Reopen(c) PROVE LogTyped'
<1>1. ProcOK' /\ DeleteOK' /\ DiskOK' /\ RowsOK'
  BY DEF Reopen, LogTyped, ProcOK, DeleteOK, DiskOK, RowsOK, procVars, deleteVars, diskVars, rowVars
<1>2. CASE Live(slot)
  <2>1. slot \in Tasks
    BY <1>2 DEF Live, LogTyped, ServiceOK
  <2>2. ServiceOK' /\ ClientOK'
    BY <1>2, <2>1 DEF Reopen, LogTyped, ServiceOK, ClientOK, Stops
  <2>3. UNCHANGED <<chan, queue, mode, batch, log, closing>>
    BY <1>2 DEF Reopen, chanVars
  <2>4. ChanOK' /\ WritersOK' /\ ModesAgree'
    BY <2>3 DEF LogTyped, ChanOK, WritersOK, ModesAgree
  <2> QED BY <1>1, <2>2, <2>4 DEF LogTyped
<1>3. CASE ~Live(slot)
  <2>1. PICK w \in Tasks : Spawned(w, <<>>) /\ hold' = [hold EXCEPT ![c] = w]
    BY <1>3 DEF Reopen
  <2>2. slot' = w /\ ChanOK' /\ WritersOK' /\ ModesAgree'
    BY <2>1, SpawnedTyped DEF Reopen
  <2>3. ServiceOK' /\ ClientOK'
    BY <2>1, <2>2 DEF Reopen, LogTyped, ServiceOK, ClientOK, Stops
  <2> QED BY <1>1, <2>2, <2>3 DEF LogTyped
<1> QED BY <1>2, <1>3

\* So do a client's other steps.
LEMMA CallTypedLog ==
  ASSUME LogTyped, NEW c \in Clients, Collect(c) \/ Send(c) \/ Tracked(c)
  PROVE  LogTyped'
<1> USE DEF LogTyped, ProcOK, ServiceOK, DeleteOK, DiskOK, RowsOK, WritersOK,
            procVars, serviceVars, deleteVars, diskVars, rowVars, writerVars
<1>1. CASE Collect(c)
  <2>1. ProcOK' /\ ServiceOK' /\ DeleteOK' /\ DiskOK' /\ RowsOK' /\ WritersOK'
    BY <1>1 DEF Collect
  <2>2. ChanOK' /\ ModesAgree'
    BY <1>1 DEF Collect, ChanOK, ModesAgree, chanVars
  <2>3. ClientOK'
    BY <1>1 DEF Collect, ClientOK, Stops
  <2> QED BY <2>1, <2>2, <2>3
<1>2. CASE Tracked(c)
  <2>1. ProcOK' /\ ServiceOK' /\ DeleteOK' /\ DiskOK' /\ RowsOK' /\ WritersOK'
    BY <1>2 DEF Tracked
  <2>2. ChanOK' /\ ModesAgree'
    BY <1>2 DEF Tracked, ChanOK, ModesAgree, chanVars
  <2>3. ClientOK'
    BY <1>2 DEF Tracked, Undelivered, ClientOK, Stops, Over
  <2> QED BY <2>1, <2>2, <2>3
<1>3. CASE Send(c)
  <2>1. ProcOK' /\ ServiceOK' /\ DeleteOK' /\ DiskOK' /\ RowsOK' /\ WritersOK'
    BY <1>3 DEF Send
  <2>2. ClientOK'
    BY <1>3 DEF Send, Undelivered, ClientOK, Stops, Over
  <2>3. CASE UNCHANGED queue
    <3>1. ChanOK' /\ ModesAgree'
      BY <1>3, <2>3 DEF Send, ChanOK, ModesAgree
    <3> QED BY <2>1, <2>2, <3>1
  <2>4. CASE /\ chan[hold[c]] = "open" /\ Len(queue[hold[c]]) < Capacity
             /\ queue' = [queue EXCEPT ![hold[c]] = Append(@, c)]
    <3>1. hold[c] \in Tasks \cup {0} /\ c \in Messages
      BY DEF ClientOK, Messages
    <3>2. CASE hold[c] \in Tasks
      <4>1. ChanOK' /\ ModesAgree'
        BY <1>3, <2>4, <3>1, <3>2, QueuedTyped DEF Send
      <4> QED BY <2>1, <2>2, <4>1
    <3>3. CASE hold[c] \notin Tasks
      <4>1. queue' = queue
        BY <2>4, <3>3 DEF ChanOK
      <4>2. ChanOK' /\ ModesAgree'
        BY <1>3, <4>1 DEF Send, ChanOK, ModesAgree
      <4> QED BY <2>1, <2>2, <4>2
    <3> QED BY <3>2, <3>3
  <2> QED BY <1>3, <2>3, <2>4 DEF Send
<1> QED BY <1>1, <1>2, <1>3

\* A mishap is counted, and nothing forgets that the log was hurt.
LEMMA FaultTyped ==
  ASSUME ProcOK, NEW op, NoFault \/ Fault(op), UNCHANGED <<up, crashes>>
  PROVE  ProcOK' /\ (~hurt' => ~hurt)
<1>1. CASE NoFault
  BY <1>1 DEF NoFault, ProcOK
<1>2. CASE Fault(op)
  <2>1. crashes + faults < MaxMishaps /\ faults' = faults + 1
    BY <1>2 DEF Fault, Quiet
  <2>2. hurt' \in BOOLEAN /\ (~hurt' => ~hurt)
    BY <1>2 DEF Fault
  <2>3. crashes' \in Nat /\ faults' \in Nat /\ crashes' + faults' <= MaxMishaps
    BY <2>1, NamesApart DEF ProcOK
  <2> QED BY <2>2, <2>3 DEF ProcOK
<1> QED BY <1>1, <1>2

\* What is durable of a segment is never more than there is.
LEMMA DurableIs == \A n \in Nat : Durable(n) \in Nat /\ Durable(n) <= n
BY DEF Durable

\* Those a writer leaves behind get no answer but a refusal; a record was answered before.
LEMMA AbandonedIs ==
  ASSUME ClientOK, NEW S
  PROVE  /\ Abandoned(S) \in [Clients -> Stops]
         /\ \A c \in Clients : c \notin S => Abandoned(S)[c] = pc[c]
         /\ \A c \in Callers : c \in S => Abandoned(S)[c] \in {"closed", "refused"}
         /\ \A r \in Recs : Abandoned(S)[r] = pc[r]
<1>1. ASSUME NEW c \in Clients
      PROVE  /\ Abandoned(S)[c] \in Stops
             /\ c \notin S => Abandoned(S)[c] = pc[c]
             /\ (c \in S /\ c \in Callers) => Abandoned(S)[c] \in {"closed", "refused"}
             /\ c \in Recs => Abandoned(S)[c] = pc[c]
  <2>1. pc[c] \in Stops /\ "closed" \in Stops /\ "refused" \in Stops
    BY DEF ClientOK, Stops, Over
  <2>2. CASE c \in S \cap Snaps
    <3>1. Abandoned(S)[c] = "refused" /\ c \notin Recs
      BY <2>2, NamesApart DEF Abandoned
    <3> QED BY <2>1, <2>2, <3>1
  <2>3. CASE c \in S \cap Flushes
    <3>1. c \notin Snaps /\ c \notin Recs
      BY <2>3, NamesApart
    <3>2. Abandoned(S)[c] = IF pc[c] = "waiting" THEN "closed" ELSE "refused"
      BY <2>3, <3>1 DEF Abandoned
    <3> QED BY <2>1, <2>3, <3>1, <3>2
  <2>4. CASE c \notin S \cap Snaps /\ c \notin S \cap Flushes
    <3>1. Abandoned(S)[c] = pc[c]
      BY <2>4 DEF Abandoned
    <3> QED BY <2>1, <2>4, <3>1 DEF Callers
  <2> QED BY <2>2, <2>3, <2>4
<1>2. Abandoned(S) = [c \in Clients |-> Abandoned(S)[c]]
  BY DEF Abandoned
<1>3. Recs \subseteq Clients /\ Callers \subseteq Clients
  BY DEF Clients
<1> QED BY <1>1, <1>2, <1>3

\* A sync changes no more of a writer's file than that it is clean.
LEMMA SyncedTyped ==
  ASSUME LogTyped, NEW w \in Tasks, Synced(w), UNCHANGED <<up, crashes>>
  PROVE  /\ ProcOK' /\ (~hurt' => ~hurt)
         /\ synced' \in [Files -> Nat]
         /\ log' \in [Tasks -> FileType]
         /\ \A v \in Tasks : /\ log'[v].file = log[v].file /\ log'[v].next = log[v].next
                             /\ log'[v].bytes = log[v].bytes /\ log'[v].first = log[v].first
                             /\ log'[v].gaveUp = log[v].gaveUp
         /\ \A v \in Tasks \ {w} : log'[v] = log[v]
<1>1. ProcOK' /\ (~hurt' => ~hurt)
  BY FaultTyped DEF Synced, LogTyped
<1>2. log \in [Tasks -> FileType] /\ synced \in [Files -> Nat]
  BY DEF LogTyped, WritersOK, DiskOK
<1>3. synced' \in [Files -> Nat]
  <2>1. CASE /\ log[w].file # 0
             /\ synced' = [synced EXCEPT ![log[w].file] = Durable(Len(lines[log[w].file]))]
    <3>1. log[w].file \in Files
      BY <1>2, <2>1 DEF FileType
    <3>2. Len(lines[log[w].file]) \in Nat
      BY <3>1 DEF LogTyped, DiskOK
    <3> QED BY <1>2, <2>1, <3>1, <3>2, DurableIs
  <2>2. CASE synced' = synced
    BY <1>2, <2>2
  <2> QED BY <2>1, <2>2 DEF Synced
<1>4. log' = log \/ log' = [log EXCEPT ![w].dirty = FALSE]
  BY DEF Synced
<1>5. CASE log' = log
  BY <1>1, <1>2, <1>3, <1>5
<1>6. CASE log' = [log EXCEPT ![w].dirty = FALSE]
  <2>1. /\ log'[w] \in FileType
        /\ log'[w].file = log[w].file /\ log'[w].next = log[w].next
        /\ log'[w].bytes = log[w].bytes /\ log'[w].first = log[w].first
        /\ log'[w].gaveUp = log[w].gaveUp
    BY <1>2, <1>6 DEF FileType
  <2>2. \A v \in Tasks \ {w} : log'[v] = log[v]
    BY <1>2, <1>6
  <2>3. log' \in [Tasks -> FileType]
    BY <1>2, <1>6, <2>1
  <2> QED BY <1>1, <1>3, <2>1, <2>2, <2>3
<1> QED BY <1>4, <1>5, <1>6

\* The head of a batch is done with.
LEMMA PopTyped ==
  ASSUME LogTyped, NEW w \in Tasks, mode[w] \in Handling \cup {"work"}, batch[w] # <<>>, Pop(w),
         UNCHANGED <<chan, queue>>, log' \in [Tasks -> FileType],
         \A v \in Tasks \ {w} : log'[v] = log[v],
         log'[w].gaveUp => log'[w].file = 0
  PROVE  /\ mode' \in [Tasks -> WriterModes] /\ batch' \in [Tasks -> Seq(Messages)]
         /\ \A v \in Tasks : Len(batch'[v]) <= MaxBatch
         /\ ModesAgree'
         /\ batch'[w] = Tail(batch[w]) /\ \A v \in Tasks \ {w} : batch'[v] = batch[v]
         /\ mode'[w] = "work" /\ \A v \in Tasks \ {w} : mode'[v] = mode[v]
<1>1. mode \in [Tasks -> WriterModes] /\ batch \in [Tasks -> Seq(Messages)]
  BY DEF LogTyped, WritersOK
<1>2. Tail(batch[w]) \in Seq(Messages) /\ Len(Tail(batch[w])) = Len(batch[w]) - 1
  BY <1>1, TailIs
<1>3. /\ batch'[w] = Tail(batch[w]) /\ \A v \in Tasks \ {w} : batch'[v] = batch[v]
      /\ mode'[w] = "work" /\ \A v \in Tasks \ {w} : mode'[v] = mode[v]
  BY <1>1 DEF Pop
<1>4. mode' \in [Tasks -> WriterModes] /\ batch' \in [Tasks -> Seq(Messages)]
  BY <1>1, <1>2 DEF Pop, WriterModes
<1>5. \A v \in Tasks : Len(batch'[v]) <= MaxBatch
  <2>1. Len(batch[w]) \in Nat /\ Len(batch[w]) <= MaxBatch
    BY <1>1 DEF LogTyped, WritersOK
  <2>2. Len(batch'[w]) <= MaxBatch
    BY <1>2, <1>3, <2>1, NamesApart
  <2> QED BY <1>3, <2>2 DEF LogTyped, WritersOK
<1>6. Agrees(chan'[w], queue'[w], mode'[w], batch'[w], log'[w])
  <2>1. Agrees(chan[w], queue[w], mode[w], batch[w], log[w])
    BY DEF LogTyped, ModesAgree
  <2>2. chan[w] = "open"
    BY <2>1 DEF Agrees, Handling
  <2> QED BY <1>3, <2>2 DEF Agrees, Handling
<1>7. ModesAgree'
  BY <1>3, <1>6, OneAgrees DEF LogTyped
<1> QED BY <1>3, <1>4, <1>5, <1>7

\* A batch is the front of the channel, as much as MaxBatch allows, and is not empty.
LEMMA TakeIs ==
  ASSUME LogTyped, NEW w \in Tasks, Take(w)
  PROVE  /\ batch'[w] \in Seq(Messages) /\ queue'[w] \in Seq(Messages)
         /\ queue[w] = batch'[w] \o queue'[w] /\ batch'[w] # <<>>
         /\ Len(batch'[w]) <= MaxBatch /\ Len(queue'[w]) <= Len(queue[w])
         /\ \A v \in Tasks \ {w} : batch'[v] = batch[v] /\ queue'[v] = queue[v]
<1> DEFINE n == Min({MaxBatch, Len(queue[w])})
<1>1. queue[w] \in Seq(Messages) /\ queue[w] # <<>>
  BY DEF LogTyped, ChanOK, Take
<1>2. Len(queue[w]) \in Nat /\ Len(queue[w]) > 0
  BY <1>1, TailIs
<1>3. n \in 1..Len(queue[w]) /\ n <= MaxBatch
  <2>1. {MaxBatch, Len(queue[w])} \subseteq Nat
    BY <1>2, NamesApart
  <2>2. /\ n \in {MaxBatch, Len(queue[w])} /\ n \in Nat
        /\ \A m \in {MaxBatch, Len(queue[w])} : n <= m
    BY <2>1, LeastIs
  <2> QED BY <1>2, <2>2, NamesApart
<1>4. /\ batch' = [batch EXCEPT ![w] = SubSeq(queue[w], 1, n)]
      /\ queue' = [queue EXCEPT ![w] = SubSeq(@, n + 1, Len(@))]
  BY DEF Take
<1> HIDE DEF n
<1>5. /\ batch'[w] = SubSeq(queue[w], 1, n) /\ queue'[w] = SubSeq(queue[w], n + 1, Len(queue[w]))
      /\ \A v \in Tasks \ {w} : batch'[v] = batch[v] /\ queue'[v] = queue[v]
  BY <1>4 DEF LogTyped, ChanOK, WritersOK
<1>6. /\ SubSeq(queue[w], 1, n) \in Seq(Messages) /\ Len(SubSeq(queue[w], 1, n)) = n
      /\ SubSeq(queue[w], n + 1, Len(queue[w])) \in Seq(Messages)
      /\ Len(SubSeq(queue[w], n + 1, Len(queue[w]))) = Len(queue[w]) - n
      /\ queue[w] = SubSeq(queue[w], 1, n) \o SubSeq(queue[w], n + 1, Len(queue[w]))
  BY <1>1, <1>3, SplitIs
<1>7. batch'[w] # <<>>
  <2>1. Len(batch'[w]) = n /\ n # 0 /\ Len(<<>>) = 0
    BY <1>2, <1>3, <1>5, <1>6
  <2> QED BY <2>1
<1>8. /\ batch'[w] \in Seq(Messages) /\ queue'[w] \in Seq(Messages)
      /\ queue[w] = batch'[w] \o queue'[w]
  BY <1>5, <1>6
<1>9. Len(batch'[w]) <= MaxBatch
  BY <1>3, <1>5, <1>6
<1>10. Len(queue'[w]) <= Len(queue[w])
  <2>1. Len(queue'[w]) = Len(queue[w]) - n
    BY <1>5, <1>6
  <2> QED BY <1>2, <1>3, <2>1
<1> QED BY <1>5, <1>7, <1>8, <1>9, <1>10

\* A writer at its select keeps the types.
LEMMA WaitingTyped ==
  ASSUME LogTyped, NEW w \in Tasks, Take(w) \/ TimerSync(w) \/ Idle(w) \/ DropRx(w)
  PROVE  LogTyped'
<1> USE DEF serviceVars, clientVars, deleteVars, chanVars, diskVars, rowVars, procVars
<1>0. Agrees(chan[w], queue[w], mode[w], batch[w], log[w])
  BY DEF LogTyped, ModesAgree
<1>1. CASE Take(w)
  <2>1. ProcOK' /\ ServiceOK' /\ ClientOK' /\ DeleteOK' /\ DiskOK' /\ RowsOK'
    BY <1>1 DEF Take, LogTyped, ProcOK, ServiceOK, ClientOK, DeleteOK, DiskOK, RowsOK
  <2>2. /\ batch'[w] \in Seq(Messages) /\ queue'[w] \in Seq(Messages) /\ batch'[w] # <<>>
        /\ Len(batch'[w]) <= MaxBatch /\ Len(queue'[w]) <= Len(queue[w])
        /\ \A v \in Tasks \ {w} : batch'[v] = batch[v] /\ queue'[v] = queue[v]
    BY <1>1, TakeIs
  <2>3. ChanOK'
    <3>1. Len(queue'[w]) \in Nat /\ Len(queue[w]) \in Nat /\ Len(queue[w]) <= Capacity
      BY <2>2 DEF LogTyped, ChanOK
    <3>2. queue' \in [Tasks -> Seq(Messages)] /\ chan' = chan
      BY <1>1, <2>2 DEF Take, LogTyped, ChanOK
    <3>3. Len(queue'[w]) <= Capacity
      BY <2>2, <3>1, NamesApart
    <3> QED BY <2>2, <3>2, <3>3 DEF LogTyped, ChanOK
  <2>4. WritersOK'
    <3>1. batch' \in [Tasks -> Seq(Messages)] /\ mode' \in [Tasks -> WriterModes]
      BY <1>1, <2>2 DEF Take, LogTyped, WritersOK, WriterModes
    <3> QED BY <1>1, <2>2, <3>1 DEF Take, LogTyped, WritersOK
  <2>5. ModesAgree'
    <3>1. /\ mode[w] = "wait" /\ mode'[w] = "work" /\ \A v \in Tasks \ {w} : mode'[v] = mode[v]
          /\ UNCHANGED <<chan, log>>
      BY <1>1 DEF Take, LogTyped, WritersOK
    <3>2. Agrees(chan'[w], queue'[w], mode'[w], batch'[w], log'[w])
      BY <1>0, <3>1 DEF Agrees, Handling
    <3> QED BY <2>2, <3>1, <3>2, OneAgrees DEF LogTyped
  <2> QED BY <2>1, <2>3, <2>4, <2>5 DEF LogTyped
<1>2. CASE TimerSync(w)
  <2>1. ServiceOK' /\ ClientOK' /\ DeleteOK' /\ RowsOK'
    BY <1>2 DEF TimerSync, LogTyped, ServiceOK, ClientOK, DeleteOK, RowsOK
  <2>2. /\ ProcOK' /\ synced' \in [Files -> Nat] /\ log' \in [Tasks -> FileType]
        /\ \A v \in Tasks : /\ log'[v].file = log[v].file /\ log'[v].next = log[v].next
                            /\ log'[v].gaveUp = log[v].gaveUp
    BY <1>2, SyncedTyped DEF TimerSync
  <2>3. DiskOK'
    BY <1>2, <2>2 DEF TimerSync, LogTyped, DiskOK
  <2>4. ChanOK' /\ WritersOK'
    BY <1>2, <2>2 DEF TimerSync, LogTyped, ChanOK, WritersOK
  <2>5. ModesAgree'
    BY <1>2, <2>2 DEF TimerSync, LogTyped, ModesAgree, Agrees
  <2> QED BY <2>1, <2>2, <2>3, <2>4, <2>5 DEF LogTyped
<1>3. CASE Idle(w)
  <2>1. ProcOK' /\ ServiceOK' /\ ClientOK' /\ DeleteOK' /\ DiskOK' /\ RowsOK'
    BY <1>3 DEF Idle, LogTyped, ProcOK, ServiceOK, ClientOK, DeleteOK, DiskOK, RowsOK
  <2>2. ChanOK' /\ WritersOK'
    BY <1>3 DEF Idle, LogTyped, ChanOK, WritersOK, WriterModes
  <2>3. /\ mode[w] = "wait" /\ mode'[w] = "leave" /\ \A v \in Tasks \ {w} : mode'[v] = mode[v]
        /\ UNCHANGED <<chan, queue, batch, log>>
    BY <1>3 DEF Idle, LogTyped, WritersOK
  <2>4. Agrees(chan'[w], queue'[w], mode'[w], batch'[w], log'[w])
    BY <1>0, <2>3 DEF Agrees, Handling
  <2>5. ModesAgree'
    BY <2>3, <2>4, OneAgrees DEF LogTyped
  <2> QED BY <2>1, <2>2, <2>5 DEF LogTyped
<1>4. CASE DropRx(w)
  <2>1. ProcOK' /\ ServiceOK' /\ DeleteOK' /\ DiskOK' /\ RowsOK'
    BY <1>4 DEF DropRx, LogTyped, ProcOK, ServiceOK, DeleteOK, DiskOK, RowsOK
  <2>2. ClientOK'
    BY <1>4, AbandonedIs DEF DropRx, LogTyped, ClientOK
  <2>3. /\ mode[w] = "leave" /\ mode'[w] = "last" /\ \A v \in Tasks \ {w} : mode'[v] = mode[v]
        /\ queue'[w] = <<>> /\ \A v \in Tasks \ {w} : queue'[v] = queue[v]
        /\ chan'[w] = "gone" /\ \A v \in Tasks \ {w} : chan'[v] = chan[v]
        /\ UNCHANGED <<batch, log>>
    BY <1>4 DEF DropRx, LogTyped, ChanOK, WritersOK
  <2>4. ChanOK'
    <3>1. <<>> \in Seq(Messages) /\ Len(<<>>) <= Capacity
      BY NamesApart
    <3> QED BY <1>4, <3>1 DEF DropRx, LogTyped, ChanOK
  <2>5. WritersOK'
    BY <1>4 DEF DropRx, LogTyped, WritersOK, WriterModes
  <2>6. Agrees(chan'[w], queue'[w], mode'[w], batch'[w], log'[w])
    BY <1>0, <2>3 DEF Agrees, Handling
  <2>7. ModesAgree'
    BY <2>3, <2>6, OneAgrees DEF LogTyped
  <2> QED BY <2>1, <2>2, <2>4, <2>5, <2>7 DEF LogTyped
<1> QED BY <1>1, <1>2, <1>3, <1>4

\* A writer at work has its channel, and once it handles a message its file.
LEMMA WorkerIs ==
  ASSUME LogTyped, NEW w \in Tasks, mode[w] \in Handling \cup {"work"}
  PROVE  /\ chan[w] = "open"
         /\ mode[w] \in Handling => /\ batch[w] # <<>> /\ NeedsLog(Msg(w)) /\ log[w].file \in Files
                                    /\ log[w].next \in Nat \ {0} /\ ~log[w].gaveUp
         /\ mode[w] = "copied" => Msg(w) \in Recs \cup Snaps
         /\ mode[w] = "plain" => Msg(w) \in Recs
<1>1. Agrees(chan[w], queue[w], mode[w], batch[w], log[w])
  BY DEF LogTyped, ModesAgree
<1>2. log[w] \in FileType /\ (log[w].file # 0 => log[w].next > 0)
  BY DEF LogTyped, WritersOK
<1> QED BY <1>1, <1>2 DEF Agrees, Handling, Msg, FileType

\* The last sync and the end of a batch keep the types.
LEMMA EndTyped ==
  ASSUME LogTyped, NEW w \in Tasks, FinalSync(w) \/ EndBatch(w)
  PROVE  LogTyped'
<1> USE DEF serviceVars, clientVars, deleteVars, chanVars, diskVars, rowVars, procVars
<1>0. Agrees(chan[w], queue[w], mode[w], batch[w], log[w])
  BY DEF LogTyped, ModesAgree
<1>1. CASE FinalSync(w)
  <2>1. ServiceOK' /\ ClientOK' /\ ChanOK' /\ RowsOK'
    BY <1>1 DEF FinalSync, LogTyped, ServiceOK, ClientOK, ChanOK, RowsOK
  <2>2. DeleteOK'
    BY <1>1 DEF FinalSync, LogTyped, DeleteOK
  <2>3. ProcOK'
    BY <1>1, FaultTyped DEF FinalSync, LogTyped
  <2>4. /\ lines \in [Files -> Seq(LineType)] /\ synced \in [Files -> Nat]
        /\ log \in [Tasks -> FileType]
    BY DEF LogTyped, DiskOK, WritersOK
  <2>5. synced' \in [Files -> Nat]
    <3>1. CASE /\ log[w].file # 0
               /\ synced' = [synced EXCEPT ![log[w].file] = Durable(Len(lines[log[w].file]))]
      <4>1. log[w].file \in Files
        BY <2>4, <3>1 DEF FileType
      <4>2. Len(lines[log[w].file]) \in Nat
        BY <2>4, <4>1
      <4> QED BY <2>4, <3>1, <4>1, <4>2, DurableIs
    <3>2. CASE synced' = synced
      BY <2>4, <3>2
    <3> QED BY <1>1, <3>1, <3>2 DEF FinalSync
  <2>6. DiskOK'
    <3>1. lines' \in [Files -> Seq(LineType)]
      BY <1>1, <2>4, KeptIs DEF FinalSync
    <3> QED BY <1>1, <2>5, <3>1 DEF FinalSync, LogTyped, DiskOK
  <2>7. Closed \in FileType /\ Closed.file = 0 /\ ~Closed.gaveUp
    BY DEF Closed, FileType
  <2>8. /\ mode[w] = "last" /\ mode'[w] = "exit" /\ \A v \in Tasks \ {w} : mode'[v] = mode[v]
        /\ log'[w] = Closed /\ \A v \in Tasks \ {w} : log'[v] = log[v]
        /\ UNCHANGED <<chan, queue, batch>>
    BY <1>1 DEF FinalSync, LogTyped, WritersOK
  <2>9. WritersOK'
    BY <1>1, <2>4, <2>7, <2>8 DEF FinalSync, LogTyped, WritersOK, WriterModes
  <2>10. Agrees(chan'[w], queue'[w], mode'[w], batch'[w], log'[w])
    BY <1>0, <2>7, <2>8 DEF Agrees, Handling
  <2>11. ModesAgree'
    BY <2>8, <2>10, OneAgrees DEF LogTyped
  <2> QED BY <2>1, <2>2, <2>3, <2>6, <2>9, <2>11 DEF LogTyped
<1>2. CASE EndBatch(w)
  <2>1. ProcOK' /\ ServiceOK' /\ DeleteOK' /\ DiskOK' /\ RowsOK'
    BY <1>2 DEF EndBatch, LogTyped, ProcOK, ServiceOK, DeleteOK, DiskOK, RowsOK
  <2>2. ClientOK'
    BY <1>2, AbandonedIs DEF EndBatch, LogTyped, ClientOK
  <2>3. CASE log[w].gaveUp
    <3>1. /\ mode[w] = "work" /\ batch[w] = <<>>
          /\ mode'[w] = "exit" /\ \A v \in Tasks \ {w} : mode'[v] = mode[v]
          /\ queue'[w] = <<>> /\ \A v \in Tasks \ {w} : queue'[v] = queue[v]
          /\ chan'[w] = "gone" /\ \A v \in Tasks \ {w} : chan'[v] = chan[v]
          /\ UNCHANGED <<batch, log>>
      BY <1>2, <2>3 DEF EndBatch, LogTyped, ChanOK, WritersOK
    <3>2. ChanOK'
      <4>1. <<>> \in Seq(Messages) /\ Len(<<>>) <= Capacity
        BY NamesApart
      <4> QED BY <1>2, <2>3, <4>1 DEF EndBatch, LogTyped, ChanOK
    <3>3. WritersOK'
      BY <1>2, <2>3 DEF EndBatch, LogTyped, WritersOK, WriterModes
    <3>4. Agrees(chan'[w], queue'[w], mode'[w], batch'[w], log'[w])
      BY <1>0, <2>3, <3>1 DEF Agrees, Handling
    <3>5. ModesAgree'
      BY <3>1, <3>4, OneAgrees DEF LogTyped
    <3> QED BY <2>1, <2>2, <3>2, <3>3, <3>5 DEF LogTyped
  <2>4. CASE ~log[w].gaveUp
    <3>1. /\ mode[w] = "work" /\ batch[w] = <<>>
          /\ mode'[w] \in {"leave", "wait"} /\ \A v \in Tasks \ {w} : mode'[v] = mode[v]
          /\ UNCHANGED <<chan, queue, batch, log>>
      BY <1>2, <2>4 DEF EndBatch, LogTyped, WritersOK
    <3>2. ChanOK'
      BY <3>1 DEF LogTyped, ChanOK
    <3>3. WritersOK'
      BY <1>2, <2>4 DEF EndBatch, LogTyped, WritersOK, WriterModes
    <3>4. Agrees(chan'[w], queue'[w], mode'[w], batch'[w], log'[w])
      BY <1>0, <2>4, <3>1 DEF Agrees, Handling
    <3>5. ModesAgree'
      BY <3>1, <3>4, OneAgrees DEF LogTyped
    <3> QED BY <2>1, <2>2, <3>2, <3>3, <3>5 DEF LogTyped
  <2> QED BY <2>3, <2>4
<1> QED BY <1>1, <1>2

\* So do the messages that write nothing.
LEMMA MessageTyped ==
  ASSUME LogTyped, NEW w \in Tasks, SyncMsg(w) \/ CloseMsg(w) \/ SkipMsg(w)
  PROVE  LogTyped'
<1> USE DEF serviceVars, clientVars, deleteVars, chanVars, diskVars, rowVars, procVars
<1>0. Agrees(chan[w], queue[w], mode[w], batch[w], log[w])
  BY DEF LogTyped, ModesAgree
<1>1. CASE SyncMsg(w)
  <2>1. ServiceOK' /\ DeleteOK' /\ ChanOK' /\ RowsOK'
    BY <1>1 DEF SyncMsg, LogTyped, ServiceOK, DeleteOK, ChanOK, RowsOK
  <2>2. /\ ProcOK' /\ synced' \in [Files -> Nat] /\ log' \in [Tasks -> FileType]
        /\ \A v \in Tasks : /\ log'[v].file = log[v].file /\ log'[v].next = log[v].next
                            /\ log'[v].gaveUp = log[v].gaveUp
        /\ \A v \in Tasks \ {w} : log'[v] = log[v]
    BY <1>1, SyncedTyped DEF SyncMsg
  <2>3. ClientOK' /\ DiskOK'
    BY <1>1, <2>2 DEF SyncMsg, LogTyped, ClientOK, DiskOK, Stops, Over
  <2>4. mode[w] = "work" /\ batch[w] # <<>> /\ Pop(w)
    BY <1>1 DEF SyncMsg, Working
  <2>5. log'[w].gaveUp => log'[w].file = 0
    BY <1>0, <2>2 DEF Agrees
  <2>6. /\ mode' \in [Tasks -> WriterModes] /\ batch' \in [Tasks -> Seq(Messages)]
        /\ \A v \in Tasks : Len(batch'[v]) <= MaxBatch
        /\ ModesAgree'
    BY <1>1, <2>2, <2>4, <2>5, PopTyped DEF SyncMsg
  <2>7. WritersOK'
    BY <1>1, <2>2, <2>6 DEF SyncMsg, LogTyped, WritersOK
  <2> QED BY <2>1, <2>2, <2>3, <2>6, <2>7 DEF LogTyped
<1>2. CASE CloseMsg(w)
  <2>1. ProcOK' /\ ServiceOK' /\ DeleteOK' /\ ChanOK' /\ DiskOK' /\ RowsOK'
    BY <1>2 DEF CloseMsg, LogTyped, ProcOK, ServiceOK, DeleteOK, ChanOK, DiskOK, RowsOK
  <2>2. ClientOK'
    BY <1>2, AbandonedIs DEF CloseMsg, LogTyped, ClientOK
  <2>3. WritersOK'
    <3>1. <<>> \in Seq(Messages) /\ Len(<<>>) <= MaxBatch
      BY NamesApart
    <3> QED BY <1>2, <3>1 DEF CloseMsg, LogTyped, WritersOK
  <2>4. /\ mode[w] = "work" /\ batch'[w] = <<>> /\ \A v \in Tasks \ {w} : batch'[v] = batch[v]
        /\ UNCHANGED <<chan, queue, mode, log>>
    BY <1>2 DEF CloseMsg, Working, LogTyped, WritersOK
  <2>5. Agrees(chan'[w], queue'[w], mode'[w], batch'[w], log'[w])
    BY <1>0, <2>4 DEF Agrees, Handling
  <2>6. ModesAgree'
    BY <2>4, <2>5, OneAgrees DEF LogTyped
  <2> QED BY <2>1, <2>2, <2>3, <2>6 DEF LogTyped
<1>3. CASE SkipMsg(w)
  <2>1. ProcOK' /\ ServiceOK' /\ DeleteOK' /\ ChanOK' /\ DiskOK' /\ RowsOK'
    BY <1>3 DEF SkipMsg, LogTyped, ProcOK, ServiceOK, DeleteOK, ChanOK, DiskOK, RowsOK
  <2>2. ClientOK'
    BY <1>3, AbandonedIs DEF SkipMsg, LogTyped, ClientOK
  <2>3. /\ mode[w] = "work" /\ batch[w] # <<>> /\ Pop(w) /\ UNCHANGED <<chan, queue, log>>
    BY <1>3 DEF SkipMsg, Working
  <2>4. log' \in [Tasks -> FileType] /\ (log'[w].gaveUp => log'[w].file = 0)
    BY <1>0, <2>3 DEF Agrees, LogTyped, WritersOK
  <2>5. /\ mode' \in [Tasks -> WriterModes] /\ batch' \in [Tasks -> Seq(Messages)]
        /\ \A v \in Tasks : Len(batch'[v]) <= MaxBatch
        /\ ModesAgree'
    BY <2>3, <2>4, PopTyped
  <2>6. WritersOK'
    BY <1>3, <2>5 DEF SkipMsg, LogTyped, WritersOK
  <2> QED BY <2>1, <2>2, <2>5, <2>6 DEF LogTyped
<1> QED BY <1>1, <1>2, <1>3

\* What opening the log makes of the writer's file and of the live segment.
LEMMA EnsureIs ==
  ASSUME LogTyped, NEW w \in Tasks, ensure_log(w)
  PROVE  \/ /\ Fault("open") /\ log' = [log EXCEPT ![w].gaveUp = TRUE]
            /\ UNCHANGED <<lines, synced, disk>>
         \/ \E f \in Files, s \in Seq(LineType) : Opened(w, f, s)
<1>1. SUFFICES ASSUME ~(/\ Fault("open") /\ log' = [log EXCEPT ![w].gaveUp = TRUE]
                        /\ UNCHANGED <<lines, synced, disk>>)
               PROVE  \E f \in Files, s \in Seq(LineType) : Opened(w, f, s)
  OBVIOUS
<1> DEFINE Tail0(f) == IF disk.live = 0 THEN <<>> ELSE repair_tail(lines[f])
           Next0(s) == (IF s = <<>> THEN archived_last_seq ELSE s[Len(s)].seq) + 1
<1>2. PICK f \in Files :
         /\ IF disk.live = 0 THEN FreeFile(f) ELSE f = disk.live
         /\ lines' = [lines EXCEPT ![f] = Tail0(f)]
         /\ synced' = [synced EXCEPT ![f] = Min({@, Len(Tail0(f))})]
         /\ log' = [log EXCEPT ![w] = [file |-> f, next |-> Next0(Tail0(f)), bytes |-> Len(Tail0(f)),
                       first |-> head_seq(Tail0(f)), dirty |-> FALSE, gaveUp |-> FALSE]]
         /\ disk' = [disk EXCEPT !.dir = TRUE, !.live = f]
         /\ NoFault
  BY <1>1 DEF ensure_log
<1>3. PICK s \in Seq(LineType) : s = Tail0(f)
  <2>1. Tail0(f) \in Seq(LineType)
    BY RepairIs DEF LogTyped, DiskOK
  <2> QED BY <2>1
<1> HIDE DEF Tail0
<1>4. Len(s) \in Nat /\ Next0(s) \in Nat /\ head_seq(s) \in Nat
  <2>1. CASE s = <<>>
    BY <2>1, LastSeqIs DEF LogTyped, head_seq
  <2>2. CASE s # <<>>
    <3>1. Len(s) \in 1..Len(s) /\ 1 \in 1..Len(s)
      BY <2>2, TailIs
    <3>2. s[Len(s)] \in LineType /\ s[1] \in LineType
      BY <3>1
    <3> QED BY <2>2, <3>1, <3>2 DEF LineType, head_seq
  <2> QED BY <2>1, <2>2
<1>5. synced' \in [Files -> Nat] /\ synced'[f] <= Len(s) /\ \A g \in Files \ {f} : synced'[g] = synced[g]
  <2>1. synced \in [Files -> Nat]
    BY DEF LogTyped, DiskOK
  <2>2. {synced[f], Len(s)} \subseteq Nat
    BY <1>4, <2>1
  <2>3. Min({synced[f], Len(s)}) \in Nat /\ Min({synced[f], Len(s)}) <= Len(s)
    BY <2>2, LeastIs
  <2> QED BY <1>2, <1>3, <2>1, <2>3
<1>6. \/ disk.live = 0 /\ FreeFile(f) /\ s = <<>>
      \/ disk.live # 0 /\ f = disk.live /\ s = repair_tail(lines[f])
  BY <1>2, <1>3 DEF Tail0
<1>7. \E next \in Nat, first \in Nat :
         /\ next = (IF s = <<>> THEN archived_last_seq ELSE s[Len(s)].seq) + 1
         /\ first = head_seq(s)
         /\ log' = [log EXCEPT ![w] = [file |-> f, next |-> next, bytes |-> Len(s),
                      first |-> first, dirty |-> FALSE, gaveUp |-> FALSE]]
  BY <1>2, <1>3, <1>4
<1>8. Opened(w, f, s)
  BY <1>2, <1>3, <1>4, <1>5, <1>6, <1>7 DEF Opened
<1> QED BY <1>8

\* Opening the live segment keeps the types, found, repaired, new or failed (ensure_log).
LEMMA EnsureTyped == ASSUME LogTyped, NEW w \in Tasks, ensure_log(w) PROVE LogTyped'
<1> USE DEF serviceVars, clientVars, deleteVars, chanVars, rowVars
<1>0. Agrees(chan[w], queue[w], mode[w], batch[w], log[w])
  BY DEF LogTyped, ModesAgree
<1>1. ServiceOK' /\ ClientOK' /\ DeleteOK' /\ ChanOK' /\ RowsOK'
  BY DEF ensure_log, LogTyped, ServiceOK, ClientOK, DeleteOK, ChanOK, RowsOK
<1>2. ProcOK'
  BY FaultTyped DEF ensure_log, LogTyped
<1>3. /\ UNCHANGED <<mode, batch, chan, queue, closing, beside>>
      /\ mode[w] = "work" /\ log[w].file = 0 /\ log \in [Tasks -> FileType]
  BY DEF ensure_log, Working, LogTyped, WritersOK
<1>4. CASE /\ Fault("open") /\ log' = [log EXCEPT ![w].gaveUp = TRUE]
           /\ UNCHANGED <<lines, synced, disk>>
  <2>1. /\ log'[w].file = 0 /\ log'[w] \in FileType /\ log' \in [Tasks -> FileType]
        /\ \A v \in Tasks \ {w} : log'[v] = log[v]
    BY <1>3, <1>4 DEF FileType
  <2>2. DiskOK' /\ WritersOK'
    BY <1>3, <1>4, <2>1 DEF LogTyped, DiskOK, WritersOK
  <2>3. Agrees(chan'[w], queue'[w], mode'[w], batch'[w], log'[w])
    BY <1>0, <1>3, <2>1 DEF Agrees, Handling
  <2>4. ModesAgree'
    BY <1>3, <2>1, <2>3, OneAgrees DEF LogTyped
  <2> QED BY <1>1, <1>2, <2>2, <2>4 DEF LogTyped
<1>5. ASSUME NEW f \in Files, NEW s \in Seq(LineType), NEW next \in Nat, NEW first \in Nat,
             lines' = [lines EXCEPT ![f] = s], synced' \in [Files -> Nat], Len(s) \in Nat,
             disk' = [disk EXCEPT !.dir = TRUE, !.live = f], next > 0,
             log' = [log EXCEPT ![w] = [file |-> f, next |-> next, bytes |-> Len(s),
                       first |-> first, dirty |-> FALSE, gaveUp |-> FALSE]]
      PROVE  LogTyped'
  <2>1. lines' \in [Files -> Seq(LineType)]
    BY <1>5 DEF LogTyped, DiskOK
  <2>2. disk' \in DirType /\ disk'.arch = disk.arch
    BY <1>5 DEF LogTyped, DiskOK, DirType
  <2>3. DiskOK'
    BY <1>3, <1>5, <2>1, <2>2 DEF LogTyped, DiskOK
  <2>4. /\ log'[w] \in FileType /\ log'[w].next > 0 /\ log'[w].gaveUp = FALSE
        /\ \A v \in Tasks \ {w} : log'[v] = log[v]
    BY <1>3, <1>5 DEF FileType
  <2>5. log' \in [Tasks -> FileType]
    BY <1>3, <1>5, <2>4
  <2>6. WritersOK'
    BY <1>3, <2>4, <2>5 DEF LogTyped, WritersOK
  <2>7. Agrees(chan'[w], queue'[w], mode'[w], batch'[w], log'[w])
    BY <1>0, <1>3, <2>4 DEF Agrees, Handling
  <2>8. ModesAgree'
    BY <1>3, <2>4, <2>7, OneAgrees DEF LogTyped
  <2> QED BY <1>1, <1>2, <2>3, <2>6, <2>8 DEF LogTyped
<1>6. CASE ~(/\ Fault("open") /\ log' = [log EXCEPT ![w].gaveUp = TRUE]
             /\ UNCHANGED <<lines, synced, disk>>)
  <2>1. PICK f \in Files, s \in Seq(LineType) : Opened(w, f, s)
    BY <1>6, EnsureIs
  <2>2. PICK next \in Nat, first \in Nat :
                   /\ next = (IF s = <<>> THEN archived_last_seq ELSE s[Len(s)].seq) + 1
                   /\ first = head_seq(s)
                   /\ log' = [log EXCEPT ![w] = [file |-> f, next |-> next, bytes |-> Len(s),
                                first |-> first, dirty |-> FALSE, gaveUp |-> FALSE]]
    BY <2>1 DEF Opened
  <2>3. next > 0
    <3>1. CASE s = <<>>
      BY <2>2, <3>1, LastSeqIs DEF LogTyped
    <3>2. CASE s # <<>>
      <4>1. Len(s) \in 1..Len(s)
        BY <3>2, TailIs
      <4>2. s[Len(s)] \in LineType
        BY <4>1
      <4>3. s[Len(s)].seq \in Nat
        BY <4>2 DEF LineType
      <4> QED BY <2>2, <3>2, <4>3
    <3> QED BY <3>1, <3>2
  <2> QED BY <1>5, <2>1, <2>2, <2>3 DEF Opened
<1> QED BY <1>4, <1>6

\* A line written is one more at the end of the writer's file, synced or not.
LEMMA WroteIs ==
  ASSUME LogTyped, NEW w \in Tasks, log[w].file \in Files,
         NEW r \in Words, NEW ref \in SUBSET Images,
         Wrote(w, r, ref) \/ WroteUnsynced(w, r, ref)
  PROVE  Grown(w, r, ref)
<1>1. /\ lines \in [Files -> Seq(LineType)] /\ synced \in [Files -> Nat]
      /\ log \in [Tasks -> FileType]
  BY DEF LogTyped, DiskOK, WritersOK
<1>2. log[w] \in FileType
  BY <1>1
<1>3. /\ log[w].next \in Nat /\ log[w].bytes \in Nat /\ log[w].first \in Nat
      /\ log[w].dirty \in BOOLEAN
  BY <1>2 DEF FileType
<1> DEFINE f == log[w].file
           s == Appended(lines[f], Line(log[w].next, r, ref))
<1>4. s \in Seq(LineType) /\ Len(s) \in Nat
  <2>1. lines[f] \in Seq(LineType) /\ Line(log[w].next, r, ref) \in LineType
    BY <1>1, <1>3, LineIs
  <2> QED BY <2>1, AppendedIs
<1> HIDE DEF s
<1>5. /\ lines' = [lines EXCEPT ![f] = s] /\ disk' = disk
      /\ \/ synced' = synced
         \/ synced' = [synced EXCEPT ![f] = Durable(Len(s))]
  BY <1>1 DEF Wrote, WroteUnsynced, s
<1>6. lines' \in [Files -> Seq(LineType)] /\ lines'[f] = s
  BY <1>1, <1>4, <1>5
<1>7. /\ synced' \in [Files -> Nat] /\ synced'[f] \in {synced[f], Durable(Len(lines'[f]))}
      /\ \A g \in Files \ {f} : synced'[g] = synced[g]
  BY <1>1, <1>4, <1>5, <1>6, DurableIs
<1>8. \E d \in BOOLEAN :
        log' = [log EXCEPT ![w].next = @ + 1, ![w].bytes = @ + 1,
                  ![w].first = IF @ = 0 THEN log[w].next ELSE @, ![w].dirty = d]
  <2>1. CASE Wrote(w, r, ref)
    BY <2>1 DEF Wrote
  <2>2. CASE WroteUnsynced(w, r, ref)
    <3>1. log' = [log EXCEPT ![w].next = @ + 1, ![w].bytes = @ + 1,
                    ![w].first = IF @ = 0 THEN log[w].next ELSE @]
      BY <2>2 DEF WroteUnsynced
    <3>2. log' = [log EXCEPT ![w].next = @ + 1, ![w].bytes = @ + 1,
                    ![w].first = IF @ = 0 THEN log[w].next ELSE @, ![w].dirty = log[w].dirty]
      BY <1>1, <1>2, <3>1 DEF FileType
    <3> QED BY <1>3, <3>2
  <2> QED BY <2>1, <2>2
<1>9. PICK d \in BOOLEAN :
        log' = [log EXCEPT ![w].next = @ + 1, ![w].bytes = @ + 1,
                  ![w].first = IF @ = 0 THEN log[w].next ELSE @, ![w].dirty = d]
  BY <1>8
<1>10. /\ log'[w].file = log[w].file /\ log'[w].gaveUp = log[w].gaveUp
       /\ log'[w].next = log[w].next + 1 /\ log'[w].bytes = log[w].bytes + 1
       /\ log'[w].first = IF log[w].first = 0 THEN log[w].next ELSE log[w].first
       /\ \A v \in Tasks \ {w} : log'[v] = log[v]
       /\ log'[w] \in FileType
  BY <1>1, <1>2, <1>3, <1>9 DEF FileType
<1>11. log' \in [Tasks -> FileType]
  BY <1>1, <1>9, <1>10
<1> QED BY <1>5, <1>6, <1>7, <1>10, <1>11 DEF Grown, s

\* A line that failed leaves half of it, or the file is realigned.
LEMMA WriteFailedIs ==
  ASSUME LogTyped, NEW w \in Tasks, WriteFailed(w)
  PROVE  LeftTorn(w) \/ \E f \in Files, t \in Seq(LineType) : Realigned(w, f, t)
<1>1. CASE /\ Fault("realign")
           /\ lines' = [lines EXCEPT ![log[w].file] = Torn(@)]
           /\ UNCHANGED <<disk, synced, log>>
  BY <1>1 DEF LeftTorn
<1>2. CASE \E f \in Files :
        /\ Fault("append") /\ disk.dir
        /\ IF disk.live = 0 THEN FreeFile(f) ELSE f = disk.live
        /\ disk' = [disk EXCEPT !.live = f]
        /\ log' = [log EXCEPT ![w].file = f]
        /\ LET s == IF disk.live = 0 THEN <<>> ELSE lines[f] IN
           \E t \in CutBack(s, log[w].bytes) :
              /\ lines' = Kept([lines EXCEPT ![f] = t], disk', log')
              /\ synced' = [synced EXCEPT ![f] = Min({@, Len(t)})]
  <2> DEFINE S(f) == IF disk.live = 0 THEN <<>> ELSE lines[f]
  <2>1. PICK f \in Files :
        /\ Fault("append") /\ disk.dir
        /\ IF disk.live = 0 THEN FreeFile(f) ELSE f = disk.live
        /\ disk' = [disk EXCEPT !.live = f]
        /\ log' = [log EXCEPT ![w].file = f]
        /\ \E t \in CutBack(S(f), log[w].bytes) :
              /\ lines' = Kept([lines EXCEPT ![f] = t], disk', log')
              /\ synced' = [synced EXCEPT ![f] = Min({@, Len(t)})]
    BY <1>2
  <2>2. PICK t \in CutBack(S(f), log[w].bytes) :
              /\ lines' = Kept([lines EXCEPT ![f] = t], disk', log')
              /\ synced' = [synced EXCEPT ![f] = Min({@, Len(t)})]
    BY <2>1
  <2>3. S(f) \in Seq(LineType)
    BY DEF LogTyped, DiskOK
  <2>4. (disk.live # 0 => S(f) = lines[f]) /\ (disk.live = 0 => Len(S(f)) = 0)
    OBVIOUS
  <2> HIDE DEF S
  <2>5. log[w].bytes \in Nat
    BY DEF LogTyped, WritersOK, FileType
  <2>6. /\ t \in Seq(LineType) /\ (~hurt /\ log[w].bytes = Len(S(f)) => t = S(f))
        /\ \A i \in 1..Len(t) : t[i] = Cut \/ (i <= Len(S(f)) /\ t[i] = S(f)[i])
    BY <2>2, <2>3, <2>5, CutBackIs DEF LogTyped
  <2>7. synced' \in [Files -> Nat] /\ synced'[f] <= Len(t) /\ \A g \in Files \ {f} : synced'[g] = synced[g]
    <3>1. synced \in [Files -> Nat] /\ Len(t) \in Nat
      BY <2>6 DEF LogTyped, DiskOK
    <3>2. {synced[f], Len(t)} \subseteq Nat
      BY <3>1
    <3>3. Min({synced[f], Len(t)}) \in Nat /\ Min({synced[f], Len(t)}) <= Len(t)
      BY <3>2, LeastIs
    <3> QED BY <2>2, <3>1, <3>3
  <2>8. Realigned(w, f, t)
    BY <2>1, <2>2, <2>4, <2>6, <2>7 DEF Realigned
  <2> QED BY <2>6, <2>8
<1> QED BY <1>1, <1>2 DEF WriteFailed

\* Written or not, the writer has a file and the directory its types.
LEMMA WrittenTyped ==
  ASSUME LogTyped, NEW w \in Tasks, log[w].file \in Files, log[w].next \in Nat \ {0}, ~log[w].gaveUp,
         NEW r \in Words, NEW ref \in SUBSET Images,
         Wrote(w, r, ref) \/ WroteUnsynced(w, r, ref) \/ WriteFailed(w), UNCHANGED <<up, crashes>>
  PROVE  /\ ProcOK' /\ disk' \in DirType /\ IsFiniteSet(disk'.arch)
         /\ lines' \in [Files -> Seq(LineType)] /\ synced' \in [Files -> Nat]
         /\ log' \in [Tasks -> FileType] /\ \A v \in Tasks \ {w} : log'[v] = log[v]
         /\ log'[w].file \in Files /\ log'[w].next \in Nat \ {0} /\ ~log'[w].gaveUp
         /\ disk'.arch = disk.arch
<1>1. /\ lines \in [Files -> Seq(LineType)] /\ synced \in [Files -> Nat]
      /\ disk \in DirType /\ IsFiniteSet(disk.arch) /\ log \in [Tasks -> FileType]
  BY DEF LogTyped, DiskOK, WritersOK
<1>2. ProcOK'
  BY FaultTyped DEF Wrote, WroteUnsynced, WriteFailed, LogTyped
<1>3. CASE Wrote(w, r, ref) \/ WroteUnsynced(w, r, ref)
  <2>1. Grown(w, r, ref)
    BY <1>3, WroteIs
  <2> QED BY <1>1, <1>2, <2>1 DEF Grown
<1>4. CASE LeftTorn(w)
  <2>1. Torn(lines[log[w].file]) \in Seq(LineType)
    BY <1>1, TornIs
  <2>2. lines' \in [Files -> Seq(LineType)]
    BY <1>1, <1>4, <2>1 DEF LeftTorn
  <2> QED BY <1>1, <1>2, <1>4, <2>2 DEF LeftTorn
<1>5. CASE \E f \in Files, t \in Seq(LineType) : Realigned(w, f, t)
  <2>1. PICK f \in Files, t \in Seq(LineType) : Realigned(w, f, t)
    BY <1>5
  <2>2. disk' \in DirType /\ disk'.arch = disk.arch
    BY <1>1, <2>1 DEF Realigned, DirType
  <2>3. [lines EXCEPT ![f] = t] \in [Files -> Seq(LineType)]
    BY <1>1
  <2>4. lines' \in [Files -> Seq(LineType)]
    BY <2>1, <2>3, KeptIs DEF Realigned
  <2>5. /\ log'[w] \in FileType /\ log'[w].file = f /\ log'[w].next = log[w].next
        /\ log'[w].gaveUp = log[w].gaveUp /\ \A v \in Tasks \ {w} : log'[v] = log[v]
    BY <1>1, <2>1 DEF Realigned, FileType
  <2>6. log' \in [Tasks -> FileType]
    BY <1>1, <2>1, <2>5 DEF Realigned
  <2>7. synced' \in [Files -> Nat]
    BY <2>1 DEF Realigned
  <2> QED BY <1>1, <1>2, <2>2, <2>4, <2>5, <2>6, <2>7
<1> QED BY <1>3, <1>4, <1>5, WriteFailedIs

\* A writer goes on with the message in hand.
LEMMA MovedTyped ==
  ASSUME LogTyped, NEW w \in Tasks, mode[w] \in Handling \cup {"work"}, batch[w] # <<>>,
         NeedsLog(Msg(w)), NEW m \in Handling, mode' = [mode EXCEPT ![w] = m],
         m = "copied" => Msg(w) \in Recs \cup Snaps, m = "plain" => Msg(w) \in Recs,
         UNCHANGED <<chan, queue, batch>>, log' \in [Tasks -> FileType],
         \A v \in Tasks \ {w} : log'[v] = log[v],
         log'[w].file # 0, ~log'[w].gaveUp
  PROVE  /\ mode' \in [Tasks -> WriterModes] /\ ModesAgree'
         /\ mode'[w] = m /\ \A v \in Tasks \ {w} : mode'[v] = mode[v]
<1>1. mode \in [Tasks -> WriterModes] /\ m \in WriterModes
  BY DEF LogTyped, WritersOK, WriterModes
<1>2. mode' \in [Tasks -> WriterModes] /\ mode'[w] = m /\ \A v \in Tasks \ {w} : mode'[v] = mode[v]
  BY <1>1
<1>3. Agrees(chan'[w], queue'[w], mode'[w], batch'[w], log'[w])
  <2>1. chan[w] = "open"
    BY WorkerIs
  <2> QED BY <1>2, <2>1 DEF Agrees, Handling, Msg, NeedsLog
<1>4. ModesAgree'
  BY <1>2, <1>3, OneAgrees DEF LogTyped
<1> QED BY <1>2, <1>4

\* The message in hand: what is written, copied or only synced.
LEMMA MessageIs ==
  ASSUME LogTyped, NEW w \in Tasks, batch[w] # <<>>
  PROVE  /\ Msg(w) \in Messages
         /\ NeedsLog(Msg(w)) => Msg(w) \in Words
         /\ Msg(w) \in Clients => NeedsLog(Msg(w)) \/ Msg(w) \in Flushes
         /\ (log[w].file # 0 /\ Msg(w) \in Clients) => Name(w, Msg(w)) \in Images
<1>1. Msg(w) \in Messages
  BY TailIs DEF LogTyped, WritersOK, Msg
<1>2. log[w].next \in Nat
  BY DEF LogTyped, WritersOK, FileType
<1> QED BY <1>1, <1>2 DEF Messages, Words, NeedsLog, Clients, Callers, Name, Images

\* Copying a snapshot's bytes or a spilled result keeps the types.
LEMMA CopyTyped == ASSUME LogTyped, NEW w \in Tasks, Copy(w) PROVE LogTyped'
<1> USE DEF serviceVars, clientVars, deleteVars, chanVars, rowVars
<1>1. ServiceOK' /\ DeleteOK' /\ ChanOK' /\ RowsOK'
  BY DEF Copy, LogTyped, ServiceOK, DeleteOK, ChanOK, RowsOK
<1>2. ProcOK'
  BY FaultTyped DEF Copy, LogTyped
<1>3. /\ mode[w] = "work" /\ batch[w] # <<>> /\ Msg(w) \in Clients /\ NeedsLog(Msg(w))
      /\ Name(w, Msg(w)) \in Images /\ Msg(w) \in Recs \cup Snaps
  <2>1. spilled \subseteq Recs /\ Recs \subseteq Clients /\ Snaps \subseteq Clients
    BY DEF LogTyped, RowsOK, Clients, Callers
  <2>2. mode[w] = "work" /\ batch[w] # <<>> /\ Msg(w) \in Snaps \cup spilled /\ log[w].file # 0
    BY DEF Copy, Working
  <2>3. Msg(w) \in Clients /\ NeedsLog(Msg(w)) /\ Msg(w) \in Recs \cup Snaps
    BY <2>1, <2>2 DEF NeedsLog
  <2> QED BY <2>2, <2>3, MessageIs
<1>4. /\ UNCHANGED <<chan, queue, log, lines, synced, closing, hold>>
      /\ log \in [Tasks -> FileType] /\ log[w].file # 0 /\ ~log[w].gaveUp
  BY <1>3 DEF Copy, LogTyped, WritersOK, ModesAgree, Agrees
<1>5. DiskOK'
  <2>1. disk' = disk \/ disk' = [disk EXCEPT !.dir = TRUE]
    BY DEF Copy
  <2>2. disk' \in DirType /\ disk'.arch = disk.arch
    BY <2>1 DEF LogTyped, DiskOK, DirType
  <2>3. beside' \subseteq Images
    BY <1>3 DEF Copy, LogTyped, DiskOK
  <2> QED BY <1>4, <2>2, <2>3 DEF LogTyped, DiskOK
<1>6. CASE \/ mode' = [mode EXCEPT ![w] = "copied"] /\ UNCHANGED <<pc, batch>>
           \/ /\ mode' = [mode EXCEPT ![w] = "plain"] /\ UNCHANGED <<pc, batch>>
              /\ Msg(w) \notin Snaps
  <2>1. mode' \in [Tasks -> WriterModes] /\ ModesAgree'
    <3>1. "copied" \in Handling /\ "plain" \in Handling
      BY DEF Handling
    <3> QED BY <1>3, <1>4, <1>6, <3>1, MovedTyped
  <2>2. WritersOK' /\ ClientOK'
    BY <1>4, <1>6, <2>1 DEF LogTyped, WritersOK, ClientOK
  <2> QED BY <1>1, <1>2, <1>5, <2>1, <2>2 DEF LogTyped
<1>7. CASE pc' = [pc EXCEPT ![Msg(w)] = "refused"] /\ Pop(w)
  <2>1. /\ mode' \in [Tasks -> WriterModes] /\ batch' \in [Tasks -> Seq(Messages)]
        /\ \A v \in Tasks : Len(batch'[v]) <= MaxBatch
        /\ ModesAgree'
    BY <1>3, <1>4, <1>7, PopTyped
  <2>2. WritersOK'
    BY <1>4, <2>1 DEF LogTyped, WritersOK
  <2>3. ClientOK'
    BY <1>4, <1>7 DEF LogTyped, ClientOK, Stops, Over
  <2> QED BY <1>1, <1>2, <1>5, <2>1, <2>2, <2>3 DEF LogTyped
<1> QED BY <1>6, <1>7 DEF Copy, NotCopied

\* Writing the record in hand keeps the types (write_record).
LEMMA WriteTyped == ASSUME LogTyped, NEW w \in Tasks, Write(w) PROVE LogTyped'
<1> USE DEF serviceVars, clientVars, deleteVars, chanVars, rowVars
<1>1. ServiceOK' /\ DeleteOK' /\ ChanOK' /\ RowsOK' /\ UNCHANGED <<chan, queue, closing, hold>>
  BY DEF Write, LogTyped, ServiceOK, DeleteOK, ChanOK, RowsOK
<1>2. /\ mode[w] \in Handling \cup {"work"} /\ batch[w] # <<>> /\ NeedsLog(Msg(w))
      /\ log[w].file \in Files /\ log[w].next \in Nat \ {0} /\ ~log[w].gaveUp
  <2>1. Agrees(chan[w], queue[w], mode[w], batch[w], log[w])
    BY DEF LogTyped, ModesAgree
  <2>2. CASE Working(w) /\ Msg(w) \in (Recs \ spilled) \cup {"start"} /\ log[w].file # 0
    <3>1. log[w] \in FileType /\ log[w].next > 0
      BY <2>2 DEF LogTyped, WritersOK
    <3> QED BY <2>1, <2>2, <3>1 DEF Working, Agrees, NeedsLog, FileType
  <2>3. CASE mode[w] \in {"copied", "plain"}
    BY <2>3, WorkerIs DEF Handling
  <2> QED BY <2>2, <2>3 DEF Write
<1>3. Msg(w) \in Words /\ Msg(w) \in Messages
  BY <1>2, MessageIs
<1>4. Ref(w) \in SUBSET Images
  <2>1. CASE mode[w] = "copied"
    <3>1. Msg(w) \in Clients
      BY <2>1, WorkerIs DEF Handling, Clients, Callers
    <3>2. Name(w, Msg(w)) \in Images
      BY <1>2, <3>1, MessageIs, NamesApart
    <3> QED BY <2>1, <3>2 DEF Ref
  <2>2. CASE mode[w] # "copied"
    BY <2>2 DEF Ref
  <2> QED BY <2>1, <2>2
<1>5. /\ ProcOK' /\ disk' \in DirType /\ IsFiniteSet(disk'.arch)
      /\ lines' \in [Files -> Seq(LineType)] /\ synced' \in [Files -> Nat]
      /\ log' \in [Tasks -> FileType] /\ \A v \in Tasks \ {w} : log'[v] = log[v]
      /\ log'[w].file \in Files /\ log'[w].next \in Nat \ {0} /\ ~log'[w].gaveUp
  BY <1>2, <1>3, <1>4, WrittenTyped DEF Write
<1>6. log'[w].file # 0 /\ log'[w].next > 0
  BY <1>5, NamesApart
<1>7. DiskOK'
  <2>1. beside' \subseteq Images
    BY DEF Write, LogTyped, DiskOK
  <2> QED BY <1>5, <2>1 DEF DiskOK
<1>8. CASE mode' = [mode EXCEPT ![w] = "wrote"] /\ UNCHANGED <<pc, batch>>
  <2>1. mode' \in [Tasks -> WriterModes] /\ ModesAgree'
    <3>1. "wrote" \in Handling
      BY DEF Handling
    <3> QED BY <1>1, <1>2, <1>5, <1>6, <1>8, <3>1, MovedTyped
  <2>2. WritersOK' /\ ClientOK'
    BY <1>1, <1>5, <1>6, <1>8, <2>1 DEF LogTyped, WritersOK, ClientOK
  <2> QED BY <1>1, <1>5, <1>7, <2>1, <2>2 DEF LogTyped
<1>9. CASE pc' = Abandoned({Msg(w)}) /\ Pop(w)
  <2>1. /\ mode' \in [Tasks -> WriterModes] /\ batch' \in [Tasks -> Seq(Messages)]
        /\ \A v \in Tasks : Len(batch'[v]) <= MaxBatch
        /\ ModesAgree'
    BY <1>1, <1>2, <1>5, <1>9, PopTyped
  <2>2. WritersOK'
    BY <1>1, <1>5, <1>6, <2>1 DEF LogTyped, WritersOK
  <2>3. ClientOK'
    BY <1>1, <1>9, AbandonedIs DEF LogTyped, ClientOK
  <2> QED BY <1>1, <1>5, <1>7, <2>1, <2>2, <2>3 DEF LogTyped
<1> QED BY <1>8, <1>9 DEF Write

\* A message answered, or the notice of what was trimmed owed.
LEMMA PaidTyped ==
  ASSUME LogTyped, NEW w \in Tasks, mode[w] \in Handling, NEW trimmed \in BOOLEAN,
         Paid(w, trimmed) \/ Answered(w), UNCHANGED <<chan, queue, hold, closing>>,
         log' \in [Tasks -> FileType], \A v \in Tasks \ {w} : log'[v] = log[v],
         log'[w].file # 0, log'[w].next > 0, ~log'[w].gaveUp
  PROVE  ClientOK' /\ WritersOK' /\ ModesAgree'
<1>1. batch[w] # <<>> /\ NeedsLog(Msg(w)) /\ mode[w] \in Handling \cup {"work"}
  BY WorkerIs
<1>2. CASE Answered(w)
  <2>1. /\ mode' \in [Tasks -> WriterModes] /\ batch' \in [Tasks -> Seq(Messages)]
        /\ \A v \in Tasks : Len(batch'[v]) <= MaxBatch
        /\ ModesAgree'
    BY <1>1, <1>2, PopTyped DEF Answered
  <2>2. WritersOK'
    BY <2>1 DEF LogTyped, WritersOK
  <2>3. ClientOK'
    BY <1>2 DEF Answered, LogTyped, ClientOK, Stops, Over
  <2> QED BY <2>1, <2>2, <2>3
<1>3. CASE mode' = [mode EXCEPT ![w] = "trimmed"] /\ UNCHANGED <<pc, batch>>
  <2>1. mode' \in [Tasks -> WriterModes] /\ ModesAgree'
    <3>1. "trimmed" \in Handling
      BY DEF Handling
    <3> QED BY <1>1, <1>3, <3>1, MovedTyped
  <2>2. WritersOK' /\ ClientOK'
    BY <1>3, <2>1 DEF LogTyped, WritersOK, ClientOK
  <2> QED BY <2>1, <2>2
<1> QED BY <1>2, <1>3 DEF Paid

\* So does the log's own record of what the cap trimmed.
LEMMA NoticeTyped == ASSUME LogTyped, NEW w \in Tasks, Notice(w) PROVE LogTyped'
<1> USE DEF serviceVars, clientVars, deleteVars, chanVars, rowVars
<1>1. ServiceOK' /\ DeleteOK' /\ ChanOK' /\ RowsOK' /\ UNCHANGED <<chan, queue, closing, hold, beside>>
  BY DEF Notice, LogTyped, ServiceOK, DeleteOK, ChanOK, RowsOK
<1>2. /\ mode[w] \in Handling /\ log[w].file \in Files /\ log[w].next \in Nat \ {0} /\ ~log[w].gaveUp
  BY WorkerIs DEF Notice, Handling
<1>3. "trim" \in Words /\ {} \in SUBSET Images
  BY DEF Words
<1>4. /\ ProcOK' /\ disk' \in DirType /\ IsFiniteSet(disk'.arch)
      /\ lines' \in [Files -> Seq(LineType)] /\ synced' \in [Files -> Nat]
      /\ log' \in [Tasks -> FileType] /\ \A v \in Tasks \ {w} : log'[v] = log[v]
      /\ log'[w].file \in Files /\ log'[w].next \in Nat \ {0} /\ ~log'[w].gaveUp
  BY <1>2, <1>3, WrittenTyped DEF Notice
<1>5. log'[w].file # 0 /\ log'[w].next > 0
  BY <1>4, NamesApart
<1>6. DiskOK'
  BY <1>1, <1>4 DEF LogTyped, DiskOK
<1>7. ClientOK' /\ WritersOK' /\ ModesAgree'
  <2>1. FALSE \in BOOLEAN
    OBVIOUS
  <2> QED BY <1>1, <1>2, <1>4, <1>5, <2>1, PaidTyped DEF Notice
<1> QED BY <1>1, <1>4, <1>6, <1>7 DEF LogTyped

\* The live segment under its archived name, which takes the place of one so named.
LEMMA ArchivedIs ==
  ASSUME NEW w \in Tasks, log[w] \in FileType, log[w].next > 0,
         NEW d \in DirType, IsFiniteSet(d.arch), d.live # 0
  PROVE  /\ Archived(w, d) \in DirType /\ IsFiniteSet(Archived(w, d).arch)
         /\ Archived(w, d).live = 0 /\ Archived(w, d).dir = d.dir
         /\ \E first \in Nat, final \in Nat :
              /\ final = log[w].next - 1
              /\ first = IF log[w].first = 0 THEN final ELSE log[w].first
              /\ Archived(w, d).arch =
                   {a \in d.arch : a.first # first \/ a.last # final}
                   \cup {[first |-> first, last |-> final, file |-> d.live]}
<1> DEFINE final == log[w].next - 1
           first == IF log[w].first = 0 THEN final ELSE log[w].first
           A == {a \in d.arch : a.first # first \/ a.last # final}
           x == [first |-> first, last |-> final, file |-> d.live]
<1>1. final \in Nat /\ first \in Nat
  BY DEF FileType
<1>2. Archived(w, d) = [d EXCEPT !.live = 0, !.arch = A \cup {x}]
  BY DEF Archived
<1>3. x \in SegType /\ A \subseteq SegType
  BY <1>1 DEF SegType, DirType
<1>4. IsFiniteSet(A \cup {x})
  <2>1. IsFiniteSet(A)
    BY FS_Subset
  <2> QED BY <2>1, FS_AddElement
<1> HIDE DEF A, x
<1>5. /\ Archived(w, d) \in DirType /\ Archived(w, d).arch = A \cup {x}
      /\ Archived(w, d).live = 0 /\ Archived(w, d).dir = d.dir
  BY <1>2, <1>3 DEF DirType
<1> QED BY <1>1, <1>4, <1>5 DEF A, x

\* The directory without some archived segments.
LEMMA LessIs ==
  ASSUME NEW d \in DirType, IsFiniteSet(d.arch), NEW G
  PROVE  /\ Less(d, G) \in DirType /\ IsFiniteSet(Less(d, G).arch)
         /\ Less(d, G).arch = d.arch \ G /\ Less(d, G).live = d.live /\ Less(d, G).dir = d.dir
<1>1. /\ Less(d, G) \in DirType /\ Less(d, G).arch = d.arch \ G
      /\ Less(d, G).live = d.live /\ Less(d, G).dir = d.dir
  BY DEF Less, DirType
<1> QED BY <1>1, FS_Subset

\* The directory after a trim and a rotation.
LEMMA TurnedIs ==
  ASSUME LogTyped, NEW w \in Tasks, log[w].file # 0, disk.live # 0, NEW G, NEW g \in Files
  PROVE  /\ Turned(w, G, g) \in DirType /\ IsFiniteSet(Turned(w, G, g).arch)
         /\ Turned(w, G, g).live = g
         /\ Turned(w, G, g).arch = Archived(w, Less(disk, G)).arch
         /\ Archived(w, Less(disk, G)) \in DirType /\ IsFiniteSet(Archived(w, Less(disk, G)).arch)
         /\ Archived(w, Less(disk, G)).live = 0
<1>1. Less(disk, G) \in DirType /\ IsFiniteSet(Less(disk, G).arch) /\ Less(disk, G).live # 0
  BY LessIs DEF LogTyped, DiskOK
<1>2. log[w] \in FileType /\ log[w].next > 0
  BY DEF LogTyped, WritersOK
<1>3. /\ Archived(w, Less(disk, G)) \in DirType /\ IsFiniteSet(Archived(w, Less(disk, G)).arch)
      /\ Archived(w, Less(disk, G)).live = 0
  BY <1>1, <1>2, ArchivedIs
<1>4. /\ Turned(w, G, g) \in DirType /\ Turned(w, G, g).live = g
      /\ Turned(w, G, g).arch = Archived(w, Less(disk, G)).arch
  BY <1>3 DEF Turned, DirType
<1> QED BY <1>3, <1>4

\* What the cap a message calls for takes.
LEMMA CapNowIs ==
  ASSUME LogTyped, NEW w \in Tasks, NEW stuck
  PROVE  \E G, F : /\ F \in BOOLEAN /\ (stuck = {} => ~F)
                   /\ G \subseteq disk.arch /\ (~F => OldestOf(disk, G))
                   /\ CapNow(w, stuck).disk = Less(disk, G)
                   /\ CapNow(w, stuck).beside = Spared(beside, G)
                   /\ CapNow(w, stuck).trimmed = (G # {})
                   /\ CapNow(w, stuck).failed = F
<1>1. disk \in DirType /\ IsFiniteSet(disk.arch)
  BY DEF LogTyped, DiskOK
<1>2. CASE Msg(w) \in Snaps \cup spilled /\ disk.dir
  <2>1. CapNow(w, stuck) = enforce_session_cap(disk, beside, lines, stuck)
    BY Zenon, <1>2 DEF CapNow
  <2>2. PICK G, F : /\ F \in BOOLEAN /\ (stuck = {} => ~F)
                    /\ G \subseteq disk.arch /\ (~F => OldestOf(disk, G))
                    /\ CapNow(w, stuck) = [disk |-> Less(disk, G), beside |-> Spared(beside, G),
                                          trimmed |-> G # {}, failed |-> F]
    BY <1>1, <2>1, CappedIs
  <2>3. CapNow(w, stuck).disk = Less(disk, G) /\ CapNow(w, stuck).beside = Spared(beside, G)
    BY <2>2
  <2>4. CapNow(w, stuck).trimmed = (G # {}) /\ CapNow(w, stuck).failed = F
    BY <2>2, SMT
  <2> HIDE DEF CapNow
  <2> QED BY <2>2, <2>3, <2>4
<1>3. CASE ~(Msg(w) \in Snaps \cup spilled /\ disk.dir)
  <2>1. CapNow(w, stuck) = [disk |-> disk, beside |-> beside, trimmed |-> FALSE, failed |-> FALSE]
    BY Zenon, <1>3 DEF CapNow
  <2>2. OldestOf(disk, {}) /\ Spared(beside, {}) = beside /\ Less(disk, {}) = disk
    BY <1>1 DEF OldestOf, Spared, Less, DirType
  <2>3. CapNow(w, stuck).disk = disk /\ CapNow(w, stuck).beside = beside
    BY <2>1
  <2>4. CapNow(w, stuck).trimmed = FALSE /\ CapNow(w, stuck).failed = FALSE
    BY <2>1, SMT
  <2> DEFINE G == {}
             F == FALSE
  <2>5. F \in BOOLEAN /\ ~F /\ G \subseteq disk.arch /\ OldestOf(disk, G)
    BY <2>2
  <2>6. CapNow(w, stuck).disk = Less(disk, G) /\ CapNow(w, stuck).beside = Spared(beside, G)
    BY <2>2, <2>3
  <2>7. CapNow(w, stuck).trimmed = (G # {}) /\ CapNow(w, stuck).failed = F
    BY <2>4
  <2> HIDE DEF G, F
  <2> QED BY <2>5, <2>6, <2>7
<1> QED BY <1>2, <1>3

\* What ends inside a rotation.
LEMMA HaltIs ==
  ASSUME LogTyped, NEW w \in Tasks, CutRotation(w)
  PROVE  mode[w] = "wrote" /\ \E G : Halted(w, G)
<1> DEFINE f == log[w].file
<1>1. PICK G, F : /\ F \in BOOLEAN /\ (~F => OldestOf(disk, G)) /\ ~F
                  /\ CapNow(w, {}).disk = Less(disk, G)
                  /\ CapNow(w, {}).beside = Spared(beside, G)
  BY CapNowIs
<1>2. mode[w] = "wrote" /\ f \in Files
  BY WorkerIs, NamesApart DEF CutRotation, Handling
<1>3. synced \in [Files -> Nat] /\ Len(lines[f]) \in Nat
  BY <1>2 DEF LogTyped, DiskOK
<1>4. SyncedOr({})
  BY <1>2, <1>3, DurableIs DEF SyncedOr, CutRotation
<1> QED BY <1>1, <1>2, <1>4 DEF Halted, CutRotation

\* After a record the writer stays, rotates, or rotates and finds no new segment.
LEMMA AfterWriteIs ==
  ASSUME LogTyped, NEW w \in Tasks, AfterWrite(w)
  PROVE  \E G : /\ Takes(disk, G)
                /\ \/ Stayed(w, G)
                   \/ Stranded(w, G)
                   \/ \E g \in Files : \E H : Rotated(w, G, g, H)
<1> DEFINE f == log[w].file
<1>0. PICK stuck :
      /\ mode[w] = "wrote"
      /\ \/ /\ disk' = CapNow(w, stuck).disk /\ beside' = CapNow(w, stuck).beside
            /\ Paid(w, CapNow(w, stuck).trimmed)
            /\ Unlinked(CapNow(w, stuck).failed) /\ UNCHANGED <<synced, log>>
         \/ /\ disk' = CapNow(w, stuck).disk /\ beside' = CapNow(w, stuck).beside
            /\ Paid(w, CapNow(w, stuck).trimmed)
            /\ ~CapNow(w, stuck).failed /\ Fault("sync") /\ UNCHANGED <<synced, log>>
         \/ /\ disk' = CapNow(w, stuck).disk /\ beside' = CapNow(w, stuck).beside
            /\ Paid(w, CapNow(w, stuck).trimmed)
            /\ Unlinked(CapNow(w, stuck).failed)
            /\ synced' = [synced EXCEPT ![f] = Durable(Len(lines[f]))]
            /\ log' = [log EXCEPT ![w].dirty = FALSE]
         \/ /\ CapNow(w, stuck).disk.live # 0
            /\ Fault("rotate") /\ ~CapNow(w, stuck).failed
            /\ synced' = [synced EXCEPT ![f] = Durable(Len(lines[f]))]
            /\ disk' = Archived(w, CapNow(w, stuck).disk) /\ beside' = CapNow(w, stuck).beside
            /\ log' = [log EXCEPT ![w].dirty = FALSE]
            /\ Paid(w, CapNow(w, stuck).trimmed)
         \/ \E g \in Files :
            /\ CapNow(w, stuck).disk.live # 0 /\ log[w].bytes >= RotateBytes
            /\ FreeFile(g)
            /\ synced' = [synced EXCEPT ![f] = Durable(Len(lines[f])), ![g] = 0]
            /\ log' = [log EXCEPT ![w].file = g, ![w].bytes = 0, ![w].first = 0,
                                  ![w].dirty = FALSE]
            /\ LET e == enforce_session_cap([Archived(w, CapNow(w, stuck).disk) EXCEPT !.live = g],
                                            CapNow(w, stuck).beside, lines, stuck)
               IN /\ disk' = e.disk /\ beside' = e.beside
                  /\ Paid(w, CapNow(w, stuck).trimmed \/ e.trimmed)
                  /\ Unlinked(CapNow(w, stuck).failed \/ e.failed)
  BY Zenon DEF AfterWrite
<1> DEFINE c == CapNow(w, stuck)
<1>1. PICK G, F : /\ F \in BOOLEAN /\ G \subseteq disk.arch /\ (~F => OldestOf(disk, G))
                  /\ c.disk = Less(disk, G) /\ c.beside = Spared(beside, G)
                  /\ c.trimmed = (G # {}) /\ c.failed = F
  BY CapNowIs
<1>2. \A X \in BOOLEAN : Unlinked(X) => (NoFault \/ Fault("unlink")) /\ (X => hurt')
  BY DEF Unlinked, Fault
<1>4. f \in Files /\ f # 0
  BY Zenon, <1>0, WorkerIs, NamesApart DEF Handling
<1>5. synced \in [Files -> Nat] /\ Len(lines[f]) \in Nat
  BY <1>4 DEF LogTyped, DiskOK
<1>6. Less(disk, G).live = disk.live
  BY LessIs DEF LogTyped, DiskOK
<1>7. synced' = synced \/ synced' = [synced EXCEPT ![f] = Durable(Len(lines[f]))] => SyncedOr({})
  BY <1>4, <1>5, DurableIs DEF SyncedOr
<1>8. \A g \in Files : synced' = [synced EXCEPT ![f] = Durable(Len(lines[f])), ![g] = 0]
                         => SyncedOr({g})
  <2> SUFFICES ASSUME NEW g \in Files,
                      synced' = [synced EXCEPT ![f] = Durable(Len(lines[f])), ![g] = 0]
               PROVE  SyncedOr({g})
    OBVIOUS
  <2>1. synced' \in [Files -> Nat] /\ synced'[g] = 0
    BY <1>4, <1>5, DurableIs
  <2>2. ASSUME NEW x \in Files \ {g} PROVE synced'[x] \in {synced[x], Durable(Len(lines[x]))}
    BY <1>4, <1>5
  <2> QED BY <2>1, <2>2 DEF SyncedOr
<1>9. CASE /\ disk' = c.disk /\ beside' = c.beside /\ Paid(w, c.trimmed)
           /\ Unlinked(c.failed) \/ (~c.failed /\ Fault("sync"))
           /\ synced' = synced \/ synced' = [synced EXCEPT ![f] = Durable(Len(lines[f]))]
           /\ log' = log \/ log' = [log EXCEPT ![w].dirty = FALSE]
  <2>1. Takes(disk, G)
    BY <1>1, <1>2, <1>9 DEF Takes
  <2>2. \E op \in {"sync", "unlink"} : NoFault \/ Fault(op)
    BY <1>1, <1>2, <1>9
  <2>3. Stayed(w, G)
    BY <1>1, <1>7, <1>9, <2>2 DEF Stayed
  <2> QED BY <2>1, <2>3
<1>10. CASE /\ c.disk.live # 0
            /\ Fault("rotate") /\ ~c.failed
            /\ synced' = [synced EXCEPT ![f] = Durable(Len(lines[f]))]
            /\ disk' = Archived(w, c.disk) /\ beside' = c.beside
            /\ log' = [log EXCEPT ![w].dirty = FALSE]
            /\ Paid(w, c.trimmed)
  <2>1. Takes(disk, G)
    BY <1>1, <1>10 DEF Takes
  <2>2. Stranded(w, G)
    BY <1>1, <1>6, <1>7, <1>10 DEF Stranded
  <2> QED BY <2>1, <2>2
<1>11. CASE \E g \in Files :
            /\ c.disk.live # 0 /\ log[w].bytes >= RotateBytes
            /\ FreeFile(g)
            /\ synced' = [synced EXCEPT ![f] = Durable(Len(lines[f])), ![g] = 0]
            /\ log' = [log EXCEPT ![w].file = g, ![w].bytes = 0, ![w].first = 0,
                                  ![w].dirty = FALSE]
            /\ LET e == enforce_session_cap([Archived(w, c.disk) EXCEPT !.live = g],
                                            c.beside, lines, stuck)
               IN /\ disk' = e.disk /\ beside' = e.beside /\ Paid(w, c.trimmed \/ e.trimmed)
                  /\ Unlinked(c.failed \/ e.failed)
  <2> DEFINE e(g) ==
               enforce_session_cap([Archived(w, c.disk) EXCEPT !.live = g], c.beside, lines, stuck)
  <2>1. PICK g \in Files :
            /\ c.disk.live # 0 /\ log[w].bytes >= RotateBytes
            /\ FreeFile(g)
            /\ synced' = [synced EXCEPT ![f] = Durable(Len(lines[f])), ![g] = 0]
            /\ log' = [log EXCEPT ![w].file = g, ![w].bytes = 0, ![w].first = 0,
                                  ![w].dirty = FALSE]
            /\ disk' = e(g).disk /\ beside' = e(g).beside /\ Paid(w, c.trimmed \/ e(g).trimmed)
            /\ Unlinked(c.failed \/ e(g).failed)
    BY <1>11
  <2>2. disk.live # 0
    BY <1>1, <1>6, <2>1
  <2>3. Turned(w, G, g) \in DirType /\ IsFiniteSet(Turned(w, G, g).arch)
    BY <1>4, <2>2, TurnedIs
  <2>4. e(g) = enforce_session_cap(Turned(w, G, g), Spared(beside, G), lines, stuck)
    BY <1>1 DEF Turned
  <2> HIDE DEF e
  <2>5. PICK H, E : /\ E \in BOOLEAN /\ H \subseteq Turned(w, G, g).arch
                    /\ (~E => OldestOf(Turned(w, G, g), H))
                    /\ e(g) = [disk |-> Less(Turned(w, G, g), H),
                              beside |-> Spared(Spared(beside, G), H), trimmed |-> H # {},
                              failed |-> E]
    BY <2>3, <2>4, CappedIs
  <2>6. /\ e(g).disk = Less(Turned(w, G, g), H)
        /\ e(g).beside = Spared(Spared(beside, G), H)
    BY <2>5
  <2>7. e(g).trimmed = (H # {}) /\ e(g).failed = E
    BY <2>5, SMT
  <2>8. (NoFault \/ Fault("unlink")) /\ (F \/ E => hurt')
    BY <1>1, <1>2, <2>1, <2>5, <2>7
  <2>9. Takes(disk, G) /\ Takes(Turned(w, G, g), H)
    BY <1>1, <2>5, <2>8 DEF Takes
  <2>10. Paid(w, G # {} \/ H # {})
    BY Zenon, <1>1, <2>1, <2>7
  <2>11. Rotated(w, G, g, H)
    BY Zenon, <1>1, <1>8, <2>1, <2>2, <2>6, <2>8, <2>9, <2>10 DEF Rotated
  <2> QED BY <2>9, <2>11
<1> QED BY Zenon, <1>0, <1>9, <1>10, <1>11

\* What follows a record keeps the types: the cap, the rotation and the index row.
LEMMA AfterWriteTyped == ASSUME LogTyped, NEW w \in Tasks, AfterWrite(w) PROVE LogTyped'
<1> USE DEF serviceVars, clientVars, deleteVars, chanVars
<1>1. ServiceOK' /\ DeleteOK' /\ ChanOK' /\ UNCHANGED <<up, crashes, chan, queue, closing, hold>>
  BY Zenon DEF AfterWrite, LogTyped, ServiceOK, DeleteOK, ChanOK
<1>2. /\ mode[w] \in Handling /\ log[w].file \in Files /\ log[w].file # 0
      /\ log[w].next \in Nat \ {0} /\ ~log[w].gaveUp
      /\ log \in [Tasks -> FileType]
  BY Zenon, WorkerIs, NamesApart DEF AfterWrite, Handling, LogTyped, WritersOK
<1>3. RowsOK'
  <2>1. log[w].next - 1 \in Nat
    BY <1>2
  <2>2. rows' \in [Recs -> Nat]
    BY Zenon, <2>1 DEF AfterWrite, Indexed, LogTyped, RowsOK
  <2> QED BY Zenon, <2>2 DEF AfterWrite, LogTyped, RowsOK
<1>4. /\ disk \in DirType /\ IsFiniteSet(disk.arch) /\ beside \subseteq Images
      /\ lines \in [Files -> Seq(LineType)]
  BY DEF LogTyped, DiskOK
<1>5. PICK G : /\ Takes(disk, G)
               /\ \/ Stayed(w, G)
                  \/ Stranded(w, G)
                  \/ \E g \in Files : \E H : Rotated(w, G, g, H)
  BY AfterWriteIs
<1>6. lines' \in [Files -> Seq(LineType)]
  BY Zenon, <1>4, KeptIs DEF AfterWrite
<1>7. /\ Less(disk, G) \in DirType /\ IsFiniteSet(Less(disk, G).arch)
      /\ Less(disk, G).live = disk.live
  BY <1>4, LessIs
<1>8. CASE Stayed(w, G) \/ Stranded(w, G)
  <2>1. disk' \in DirType /\ IsFiniteSet(disk'.arch)
    <3>1. CASE Stayed(w, G)
      BY <1>7, <3>1 DEF Stayed
    <3>2. CASE Stranded(w, G)
      <4>1. Less(disk, G).live # 0 /\ disk' = Archived(w, Less(disk, G))
        BY <1>7, <3>2 DEF Stranded
      <4>2. log[w] \in FileType /\ log[w].next > 0
        BY <1>2
      <4> QED BY <1>7, <4>1, <4>2, ArchivedIs
    <3> QED BY <1>8, <3>1, <3>2
  <2>2. synced' \in [Files -> Nat] /\ beside' \subseteq Images
    BY <1>4, <1>8 DEF Stayed, Stranded, SyncedOr, Spared
  <2>3. DiskOK'
    BY <1>6, <2>1, <2>2 DEF DiskOK
  <2>4. ProcOK'
    BY <1>1, <1>8, FaultTyped DEF Stayed, Stranded, LogTyped
  <2>5. /\ log' \in [Tasks -> FileType] /\ \A v \in Tasks \ {w} : log'[v] = log[v]
        /\ log'[w].file # 0 /\ log'[w].next > 0 /\ ~log'[w].gaveUp
    <3>1. CASE log' = log
      BY <1>2, <3>1
    <3>2. CASE log' = [log EXCEPT ![w].dirty = FALSE]
      <4>1. /\ log'[w] \in FileType /\ log'[w].file = log[w].file /\ log'[w].next = log[w].next
            /\ log'[w].gaveUp = log[w].gaveUp /\ \A v \in Tasks \ {w} : log'[v] = log[v]
        BY <1>2, <3>2 DEF FileType
      <4>2. log' \in [Tasks -> FileType]
        BY <1>2, <3>2, <4>1
      <4> QED BY <1>2, <4>1, <4>2
    <3> QED BY <1>8, <3>1, <3>2 DEF Stayed, Stranded
  <2>6. ClientOK' /\ WritersOK' /\ ModesAgree'
    <3>1. (G # {}) \in BOOLEAN
      OBVIOUS
    <3>2. Paid(w, G # {})
      BY <1>8 DEF Stayed, Stranded
    <3> QED BY <1>1, <1>2, <2>5, <3>1, <3>2, PaidTyped
  <2> QED BY <1>1, <1>3, <2>3, <2>4, <2>6 DEF LogTyped
<1>9. CASE \E g \in Files : \E H : Rotated(w, G, g, H)
  <2>0. PICK g \in Files : \E H : Rotated(w, G, g, H)
    BY <1>9
  <2>1. PICK H : Rotated(w, G, g, H)
    BY <2>0
  <2>2. Turned(w, G, g) \in DirType /\ IsFiniteSet(Turned(w, G, g).arch)
    BY <1>2, <2>1, TurnedIs DEF Rotated
  <2>3. disk' \in DirType /\ IsFiniteSet(disk'.arch)
    BY <2>1, <2>2, LessIs DEF Rotated
  <2>4. synced' \in [Files -> Nat] /\ beside' \subseteq Images
    BY <1>4, <2>1 DEF Rotated, SyncedOr, Spared
  <2>5. DiskOK'
    BY <1>6, <2>3, <2>4 DEF DiskOK
  <2>6. ProcOK'
    BY <1>1, <2>1, FaultTyped DEF Rotated, LogTyped
  <2>7. /\ log' \in [Tasks -> FileType] /\ \A v \in Tasks \ {w} : log'[v] = log[v]
        /\ log'[w].file # 0 /\ log'[w].next > 0 /\ ~log'[w].gaveUp
    <3>1. /\ log'[w] \in FileType /\ log'[w].file = g /\ log'[w].next = log[w].next
          /\ log'[w].gaveUp = log[w].gaveUp /\ \A v \in Tasks \ {w} : log'[v] = log[v]
      BY <1>2, <2>1 DEF FileType, Rotated
    <3>2. log' \in [Tasks -> FileType]
      BY <1>2, <2>1, <3>1 DEF Rotated
    <3> QED BY <1>2, <3>1, <3>2, NamesApart
  <2>8. ClientOK' /\ WritersOK' /\ ModesAgree'
    <3>1. (G # {} \/ H # {}) \in BOOLEAN
      OBVIOUS
    <3>2. Paid(w, G # {} \/ H # {})
      BY <2>1 DEF Rotated
    <3> QED BY <1>1, <1>2, <2>7, <3>1, <3>2, PaidTyped
  <2> QED BY <1>1, <1>3, <2>5, <2>6, <2>8 DEF LogTyped
<1> QED BY <1>5, <1>8, <1>9

\* The deletion's steps keep the types.
LEMMA DeleteTypedLog ==
  ASSUME LogTyped, DeleteRows \/ Forget \/ SendClose \/ ForgetTimesOut \/ RemoveDir
  PROVE  LogTyped'
<1> USE DEF serviceVars, clientVars, deleteVars, chanVars, diskVars, rowVars, procVars, writerVars
<1>1. ClientOK' /\ ProcOK' /\ UNCHANGED <<chan, mode, batch, log, closing>>
  BY DEF DeleteRows, Forget, SendClose, ForgetTimesOut, RemoveDir, LogTyped, ClientOK, ProcOK
<1>2. WritersOK'
  BY <1>1 DEF LogTyped, WritersOK
<1>3. ServiceOK'
  BY DEF DeleteRows, Forget, SendClose, ForgetTimesOut, RemoveDir, LogTyped, ServiceOK
<1>4. RowsOK'
  BY DEF DeleteRows, Forget, SendClose, ForgetTimesOut, RemoveDir, LogTyped, RowsOK
<1>5. DeleteOK'
  <2>1. CASE DeleteRows
    <3>1. deletes = 0
      <4>1. crashes \in Nat /\ faults \in Nat /\ deletes \in Nat /\ crashes + faults + deletes = 0
        BY <2>1 DEF DeleteRows, LogTyped, ProcOK, DeleteOK
      <4> QED BY <4>1
    <3> QED BY <2>1, <3>1 DEF DeleteRows, LogTyped, DeleteOK
  <2>2. CASE ~DeleteRows
    BY <2>2 DEF Forget, SendClose, ForgetTimesOut, RemoveDir, LogTyped, DeleteOK, ServiceOK
  <2> QED BY <2>1, <2>2
<1>6. DiskOK'
  <2>1. CASE RemoveDir
    <3>1. NoDir \in DirType /\ NoDir.arch = {}
      BY DEF NoDir, DirType
    <3>2. lines' \in [Files -> Seq(LineType)]
      BY <2>1, KeptIs DEF RemoveDir, LogTyped, DiskOK
    <3> QED BY <2>1, <3>1, <3>2, FS_EmptySet DEF RemoveDir, LogTyped, DiskOK
  <2>2. CASE ~RemoveDir
    BY <2>2 DEF DeleteRows, Forget, SendClose, ForgetTimesOut, LogTyped, DiskOK
  <2> QED BY <2>1, <2>2
<1>7. ChanOK' /\ ModesAgree'
  <2>1. CASE UNCHANGED queue
    BY <1>1, <2>1 DEF LogTyped, ChanOK, ModesAgree
  <2>2. CASE /\ chan[dying] = "open" /\ Len(queue[dying]) < Capacity
             /\ queue' = [queue EXCEPT ![dying] = Append(@, "close")]
    <3>1. CASE dying \in Tasks
      <4>1. "close" \in Messages
        BY DEF Messages
      <4> QED BY <1>1, <2>2, <3>1, <4>1, QueuedTyped
    <3>2. CASE dying \notin Tasks
      <4>1. queue' = queue
        BY <2>2, <3>2 DEF LogTyped, ChanOK
      <4> QED BY <1>1, <4>1 DEF LogTyped, ChanOK, ModesAgree
    <3> QED BY <3>1, <3>2
  <2> QED BY <2>1, <2>2 DEF DeleteRows, Forget, SendClose, ForgetTimesOut, RemoveDir
<1> QED BY <1>1, <1>2, <1>3, <1>4, <1>5, <1>6, <1>7 DEF LogTyped

\* What a file cut short is: the lines before the cut, and perhaps half a line.
LEMMA CutShortIs ==
  ASSUME LogTyped, NEW f \in Files, NEW k \in 0..Len(lines[f]), NEW torn \in BOOLEAN
  PROVE  /\ CutShort(f, k, torn) \in Seq(LineType)
         /\ Len(CutShort(f, k, torn)) = k + (IF torn THEN 1 ELSE 0)
         /\ \A i \in 1..k : CutShort(f, k, torn)[i] = lines[f][i]
         /\ torn => CutShort(f, k, torn)[k + 1] = Cut
<1>1. lines[f] \in Seq(LineType)
  BY DEF LogTyped, DiskOK
<1>2. /\ SubSeq(lines[f], 1, k) \in Seq(LineType) /\ Len(SubSeq(lines[f], 1, k)) = k
      /\ \A i \in 1..k : SubSeq(lines[f], 1, k)[i] = lines[f][i]
  BY <1>1, SplitIs
<1>3. Cut \in LineType
  BY LineIs
<1>4. CASE torn
  <2>1. <<Cut>> \in Seq(LineType) /\ Len(<<Cut>>) = 1 /\ <<Cut>>[1] = Cut
    BY <1>3
  <2>2. 1 \in 1..Len(<<Cut>>) /\ k \in Nat
    BY <2>1
  <2> QED BY <1>2, <1>4, <2>1, <2>2, RangeCat DEF CutShort
<1>5. CASE ~torn
  <2>1. CutShort(f, k, torn) = SubSeq(lines[f], 1, k)
    BY <1>2, <1>5 DEF CutShort
  <2> QED BY <1>2, <1>5, <2>1
<1> QED BY <1>4, <1>5

\* What a crash leaves: every file as it was, or the live one cut short behind what was synced.
LEMMA CrashIs ==
  ASSUME LogTyped, CutWrite
  PROVE  \/ lines' = Kept(lines, disk, log') /\ UNCHANGED synced
         \/ \E f \in Files, k \in Nat, torn \in BOOLEAN :
              /\ f = disk.live /\ k \in synced[f]..Len(lines[f])
              /\ lines' = [Kept(lines, disk, log') EXCEPT ![f] = CutShort(f, k, torn)]
              /\ k < Len(lines[f]) => PowerLoss
              /\ torn => k < Len(lines[f]) \/ \E w \in Tasks : log[w].file = f /\ batch[w] # <<>>
              /\ synced' = [synced EXCEPT ![f] = Durable(Len(lines'[f]))]
<1>1. SUFFICES ASSUME NEW f \in Files \cap {disk.live},
                      NEW k \in synced[f]..Len(lines[f]), NEW torn \in BOOLEAN,
                      k < Len(lines[f]) => PowerLoss,
                      lines' = [Kept(lines, disk, log') EXCEPT ![f] =
                                  SubSeq(@, 1, k) \o (IF torn THEN <<Cut>> ELSE <<>>)],
                      torn => k < Len(lines[f]) \/ \E w \in Tasks : log[w].file = f /\ batch[w] # <<>>,
                      synced' = [synced EXCEPT ![f] = Durable(Len(lines'[f]))]
               PROVE  /\ k \in Nat
                      /\ lines' = [Kept(lines, disk, log') EXCEPT ![f] = CutShort(f, k, torn)]
  BY DEF CutWrite
<1>2. k \in Nat
  BY DEF LogTyped, DiskOK
<1>3. Kept(lines, disk, log')[f] = lines[f]
  BY KeptIs DEF LogTyped, DiskOK
<1> DEFINE K == Kept(lines, disk, log')
           X == IF torn THEN <<Cut>> ELSE <<>>
<1>4. SubSeq(K[f], 1, k) \o X = CutShort(f, k, torn)
  BY <1>3 DEF CutShort
<1>5. lines' = [K EXCEPT ![f] = SubSeq(K[f], 1, k) \o X]
  BY <1>1
<1> HIDE DEF K, X
<1>6. lines' = [K EXCEPT ![f] = CutShort(f, k, torn)]
  BY <1>4, <1>5
<1> QED BY <1>2, <1>6 DEF K

\* A crash keeps the types.
LEMMA CrashTyped == ASSUME LogTyped, Crash PROVE LogTyped'
<1>1. ProcOK'
  <2>1. crashes' = crashes + 1 /\ crashes + faults < MaxMishaps /\ UNCHANGED <<faults, hurt>>
    BY DEF Crash, Died, Quiet
  <2>2. up' \in BOOLEAN
    BY Zenon DEF Crash, Died
  <2>3. crashes' \in Nat /\ faults' \in Nat /\ crashes' + faults' <= MaxMishaps
    BY <2>1, NamesApart DEF LogTyped, ProcOK
  <2> QED BY <2>1, <2>2, <2>3 DEF LogTyped, ProcOK
<1>2. ServiceOK' /\ ClientOK' /\ DeleteOK'
  <2>1. started' \in BOOLEAN
    BY Zenon DEF Crash, Died
  <2>2. ClientOK'
    BY DEF Crash, Died, LogTyped, ClientOK, Stops, Over
  <2> QED BY <2>1, <2>2 DEF Crash, Died, LogTyped, ServiceOK, DeleteOK
<1>3. Closed \in FileType /\ Closed.file = 0 /\ ~Closed.gaveUp
  BY DEF Closed, FileType
<1>4. ChanOK' /\ WritersOK'
  <2>1. <<>> \in Seq(Messages) /\ Len(<<>>) = 0
    OBVIOUS
  <2>2. ChanOK'
    BY <2>1, NamesApart DEF Crash, Died, ChanOK
  <2>3. WritersOK'
    BY <1>3, <2>1, NamesApart DEF Crash, Died, WritersOK, WriterModes
  <2> QED BY <2>2, <2>3
<1>5. ModesAgree'
  BY <1>3 DEF Crash, Died, ModesAgree, Agrees, Handling
<1>6. CASE CutWrite
  <2>1. lines \in [Files -> Seq(LineType)] /\ synced \in [Files -> Nat]
    BY DEF LogTyped, DiskOK
  <2>2. Kept(lines, disk, log') \in [Files -> Seq(LineType)]
    BY <2>1, KeptIs
  <2>3. ASSUME lines' = Kept(lines, disk, log') /\ UNCHANGED synced
        PROVE  DiskOK'
    BY <1>6, <2>1, <2>2, <2>3 DEF CutWrite, LogTyped, DiskOK
  <2>4. ASSUME \E f \in Files, k \in Nat, torn \in BOOLEAN :
              /\ f = disk.live /\ k \in synced[f]..Len(lines[f])
              /\ lines' = [Kept(lines, disk, log') EXCEPT ![f] = CutShort(f, k, torn)]
              /\ synced' = [synced EXCEPT ![f] = Durable(Len(lines'[f]))]
        PROVE  DiskOK'
    <3>1. PICK f \in Files, k \in Nat, torn \in BOOLEAN :
              /\ f = disk.live /\ k \in synced[f]..Len(lines[f])
              /\ lines' = [Kept(lines, disk, log') EXCEPT ![f] = CutShort(f, k, torn)]
              /\ synced' = [synced EXCEPT ![f] = Durable(Len(lines'[f]))]
      BY <2>4
    <3>2. k \in 0..Len(lines[f])
      BY <2>1, <3>1
    <3>3. CutShort(f, k, torn) \in Seq(LineType)
      BY <3>2, CutShortIs
    <3>4. lines' \in [Files -> Seq(LineType)]
      BY <2>2, <3>1, <3>3
    <3>5. Len(lines'[f]) \in Nat
      BY <3>4
    <3>6. synced' \in [Files -> Nat]
      BY <2>1, <3>1, <3>5, DurableIs
    <3> QED BY <1>6, <3>4, <3>6 DEF CutWrite, LogTyped, DiskOK
  <2>5. DiskOK'
    BY <1>6, <2>3, <2>4, CrashIs
  <2>6. RowsOK'
    BY <1>6 DEF Crash, CutWrite, LogTyped, RowsOK
  <2> QED BY <1>1, <1>2, <1>4, <1>5, <2>5, <2>6 DEF LogTyped
<1>7. CASE \E w \in Tasks : CutRotation(w)
  <2>1. PICK w \in Tasks : CutRotation(w)
    BY <1>7
  <2>2. PICK G : Halted(w, G)
    BY <2>1, HaltIs
  <2>3. /\ disk \in DirType /\ IsFiniteSet(disk.arch) /\ beside \subseteq Images
        /\ lines \in [Files -> Seq(LineType)]
    BY DEF LogTyped, DiskOK
  <2>4. log[w].file \in Files /\ log[w].next \in Nat \ {0} /\ log[w] \in FileType
    BY <2>1, WorkerIs, NamesApart DEF CutRotation, Handling, LogTyped, WritersOK
  <2>5. disk' \in DirType /\ IsFiniteSet(disk'.arch)
    <3>1. /\ Less(disk, G) \in DirType /\ IsFiniteSet(Less(disk, G).arch)
          /\ Less(disk, G).live # 0
      BY <2>2, <2>3, LessIs DEF Halted
    <3> QED BY <2>2, <2>4, <3>1, ArchivedIs DEF Halted
  <2>6. lines' \in [Files -> Seq(LineType)]
    BY <2>1, <2>3, KeptIs DEF CutRotation
  <2>7. DiskOK'
    BY <2>2, <2>3, <2>5, <2>6 DEF DiskOK, Halted, SyncedOr, Spared
  <2>8. RowsOK'
    <3>1. log[w].next - 1 \in Nat
      BY <2>4
    <3>2. rows' \in [Recs -> Nat]
      BY Zenon, <2>1, <3>1 DEF CutRotation, Indexed, LogTyped, RowsOK
    <3> QED BY Zenon, <3>2 DEF Crash, LogTyped, RowsOK
  <2> QED BY <1>1, <1>2, <1>4, <1>5, <2>7, <2>8 DEF LogTyped
<1> QED BY <1>6, <1>7 DEF Crash

\* So do the boot and its eviction.
LEMMA SweepTyped == ASSUME LogTyped, Sweep \/ Boot PROVE LogTyped'
<1> USE DEF serviceVars, clientVars, deleteVars, chanVars, diskVars, rowVars, procVars, writerVars
<1>1. ServiceOK' /\ ClientOK' /\ DeleteOK' /\ ChanOK' /\ WritersOK' /\ ModesAgree'
  BY DEF Sweep, Boot, LogTyped, ServiceOK, ClientOK, DeleteOK, ChanOK, WritersOK, ModesAgree
<1>2. ProcOK'
  <2>1. CASE Boot
    BY <2>1, Zenon DEF Boot, LogTyped, ProcOK
  <2>2. CASE Sweep
    <3>1. (NoFault \/ Fault("unlink")) /\ UNCHANGED <<up, crashes>>
      BY <2>2 DEF Sweep, Unlinked
    <3> QED BY <3>1, FaultTyped DEF LogTyped
  <2> QED BY <2>1, <2>2
<1>3. CASE Boot
  <2>1. DiskOK' /\ RowsOK'
    BY <1>3 DEF Boot, LogTyped, DiskOK, RowsOK
  <2> QED BY <1>1, <1>2, <2>1 DEF LogTyped
<1>4. CASE Sweep
  <2>1. RowsOK'
    <3>1. swept' \in BOOLEAN
      BY <1>4, Zenon DEF Sweep
    <3>2. rows' = rows \/ rows' = [r \in Recs |-> 0]
      BY <1>4 DEF Sweep
    <3>3. lost' \in BOOLEAN
      BY <1>4, Zenon DEF Sweep, LogTyped, RowsOK
    <3> QED BY <1>4, <3>1, <3>2, <3>3 DEF Sweep, LogTyped, RowsOK
  <2>2. disk' = disk \/ (\E a : disk' = [disk EXCEPT !.arch = @ \ {a}]) \/ disk' = [disk EXCEPT !.live = 0]
    BY <1>4 DEF Sweep
  <2>3. disk' \in DirType /\ disk'.arch \subseteq disk.arch
    BY <2>2 DEF LogTyped, DiskOK, DirType
  <2>4. IsFiniteSet(disk'.arch)
    BY <2>3, FS_Subset DEF LogTyped, DiskOK
  <2>5. lines' \in [Files -> Seq(LineType)]
    BY <1>4, KeptIs DEF Sweep, LogTyped, DiskOK
  <2>6. beside' \subseteq Images
    BY <1>4 DEF Sweep, LogTyped, DiskOK
  <2>7. DiskOK'
    BY <1>4, <2>3, <2>4, <2>5, <2>6 DEF Sweep, LogTyped, DiskOK
  <2> QED BY <1>1, <1>2, <2>1, <2>7 DEF LogTyped
<1> QED BY <1>3, <1>4

\* The session log keeps its types at every step.
LEMMA NextTyped == LogTyped /\ [LogNext]_logVars => LogTyped'
<1> SUFFICES ASSUME LogTyped, [LogNext]_logVars PROVE LogTyped'
  OBVIOUS
<1>1. CASE UNCHANGED logVars
  BY <1>1 DEF logVars, serviceVars, clientVars, deleteVars, chanVars, diskVars, rowVars, procVars,
       writerVars, LogTyped, ProcOK, ServiceOK, ClientOK, DeleteOK, ChanOK, WritersOK, DiskOK,
       RowsOK, ModesAgree
<1>2. CASE \E c \in Clients : Open(c) \/ Collect(c) \/ Send(c) \/ Tracked(c) \/ Reopen(c)
  BY <1>2, OpenTyped, CallTypedLog, ReopenTyped
<1>3. CASE \E w \in Tasks :
          \/ Take(w) \/ TimerSync(w) \/ Idle(w) \/ DropRx(w) \/ FinalSync(w) \/ EndBatch(w)
          \/ SyncMsg(w) \/ CloseMsg(w) \/ SkipMsg(w) \/ ensure_log(w) \/ Copy(w) \/ Write(w)
          \/ AfterWrite(w) \/ Notice(w)
  BY <1>3, WaitingTyped, EndTyped, MessageTyped, EnsureTyped, CopyTyped, WriteTyped,
     AfterWriteTyped, NoticeTyped
<1>4. CASE DeleteRows \/ Forget \/ SendClose \/ ForgetTimesOut \/ RemoveDir
  BY <1>4, DeleteTypedLog
<1>5. CASE Crash \/ Sweep \/ Boot
  BY <1>5, CrashTyped, SweepTyped
<1> QED BY <1>1, <1>2, <1>3, <1>4, <1>5 DEF LogNext

----------------------------------------------------------------------------
(* Whoever waits is in a channel or in a batch. *)

\* Waiters stay waiters if whoever has them passes them on and nobody comes to wait.
LEMMA WaitersKept ==
  ASSUME LogTyped, Waiters,
         \A c \in Callers : Waits(c)' => Waits(c),
         \A c \in Callers, w \in Tasks : Waits(c)' /\ With(c, w) => \E v \in Tasks : With(c, v)',
         \A c \in Clients : pc'[c] \in {"held", "fresh"} => pc'[c] = pc[c],
         UNCHANGED hold
  PROVE  Waiters'
BY DEF Waiters

\* A writer over and done with has nobody in its hands.
LEMMA NobodyWith ==
  ASSUME LogTyped, NEW w \in Tasks, mode[w] \in {"none", "exit", "last"}, NEW c
  PROVE  ~With(c, w)
<1>1. queue[w] = <<>> /\ batch[w] = <<>>
  BY DEF LogTyped, ModesAgree, Agrees, Handling
<1>2. Range(<<>>) = {}
  BY DEF Range
<1> QED BY <1>1, <1>2 DEF With

\* A new task takes over nobody: its channel was empty.
LEMMA SpawnedWaiters ==
  ASSUME LogTyped, NEW w \in Tasks, NEW msgs, Spawned(w, msgs), batch' = batch,
         NEW c, NEW v \in Tasks, With(c, v)
  PROVE  With(c, v)'
<1>1. mode[w] \in {"none", "exit"} /\ queue' = [queue EXCEPT ![w] = msgs]
  BY DEF Spawned, Unspawned
<1>2. v # w
  BY <1>1, NobodyWith
<1>3. queue'[v] = queue[v]
  BY <1>1, <1>2 DEF LogTyped, ChanOK
<1> QED BY <1>3 DEF With

\* A message sent is in the channel, with all that were.
LEMMA QueuedWaiters ==
  ASSUME LogTyped, NEW w \in Tasks, NEW m \in Messages,
         queue' = [queue EXCEPT ![w] = Append(@, m)], batch' = batch
  PROVE  With(m, w)' /\ \A c, v : v \in Tasks /\ With(c, v) => With(c, v)'
<1>1. queue \in [Tasks -> Seq(Messages)]
  BY DEF LogTyped, ChanOK
<1>2. Range(Append(queue[w], m)) = Range(queue[w]) \cup {m}
  BY <1>1, AppendIs
<1>3. queue'[w] = Append(queue[w], m) /\ \A v \in Tasks \ {w} : queue'[v] = queue[v]
  BY <1>1
<1> QED BY <1>2, <1>3 DEF With

\* A client's step leaves every waiter with a task.
LEMMA CallWaiters ==
  ASSUME LogTyped, Waiters, NEW d \in Clients,
         Open(d) \/ Collect(d) \/ Send(d) \/ Tracked(d) \/ Reopen(d)
  PROVE  Waiters'
<1>0. pc \in [Clients -> Stops] /\ hold \in [Clients -> Tasks \cup {0}] /\ Callers \subseteq Clients
  BY DEF LogTyped, ClientOK, Clients
<1>1. batch' = batch
  BY DEF Open, Collect, Send, Tracked, Reopen, writerVars
<1>2. CASE Open(d) \/ Collect(d) \/ Reopen(d)
  <2>1. \A c \in Callers, w \in Tasks : With(c, w) => With(c, w)'
    <3>1. CASE queue' = queue
      BY <1>1, <3>1 DEF With
    <3>2. CASE \E w \in Tasks : \E msgs : Spawned(w, msgs)
      BY <1>1, <3>2, SpawnedWaiters
    <3>3. CASE Live(slot) /\ queue' = [queue EXCEPT ![slot] = Append(@, "start")]
      <4>1. slot \in Tasks /\ "start" \in Messages
        BY <3>3 DEF Live, LogTyped, ServiceOK, Messages
      <4> QED BY <1>1, <3>3, <4>1, QueuedWaiters
    <3> QED BY <1>2, <3>1, <3>2, <3>3 DEF Open, Collect, Reopen, chanVars
  <2>2. /\ pc'[d] \in {"held", "fresh"} /\ hold'[d] # 0
        /\ \A c \in Clients \ {d} : pc'[c] = pc[c] /\ hold'[c] = hold[c]
    <3>1. CASE Collect(d)
      BY <1>0, <3>1 DEF Collect
    <3>2. CASE Open(d) \/ Reopen(d)
      <4>1. CASE Live(slot)
        BY <1>0, <3>2, <4>1 DEF Open, Reopen, Live
      <4>2. CASE ~Live(slot)
        <5>1. PICK w \in Tasks : hold' = [hold EXCEPT ![d] = w]
          BY <3>2, <4>2 DEF Open, Reopen
        <5>2. w # 0
          BY NamesApart
        <5> QED BY <1>0, <3>2, <5>1, <5>2 DEF Open, Reopen
      <4> QED BY <4>1, <4>2
    <3> QED BY <1>2, <3>1, <3>2
  <2>3. \A c \in Callers : Waits(c)' => Waits(c)
    BY <1>0, <2>2 DEF Waits
  <2> QED BY <1>0, <2>1, <2>2, <2>3 DEF Waiters
<1>3. CASE Tracked(d)
  <2>1. UNCHANGED <<queue, hold>>
    BY <1>3 DEF Tracked, chanVars
  <2>2. /\ pc'[d] \in {"reopen", "dropped", "refused"}
        /\ \A c \in Clients \ {d} : pc'[c] = pc[c]
    BY <1>0, <1>3 DEF Tracked, Undelivered
  <2> QED BY <1>0, <1>1, <2>1, <2>2 DEF Waiters, Waits, With
<1>4. CASE Send(d)
  <2>1. hold[d] \in Tasks
    BY <1>0, <1>4 DEF Send, Waiters
  <2>2. /\ hold' = [hold EXCEPT ![d] = 0]
        /\ pc'[d] \notin {"held", "fresh"} /\ \A c \in Clients \ {d} : pc'[c] = pc[c]
    BY <1>0, <1>4 DEF Send, Undelivered
  <2>3. \A c \in Clients : pc'[c] \in {"held", "fresh"} => hold'[c] # 0
    BY <1>0, <2>2 DEF Waiters
  <2>4. CASE queue' = [queue EXCEPT ![hold[d]] = Append(@, d)]
    <3>1. PICK h \in Tasks : h = hold[d]
      BY <2>1
    <3>2. With(d, h)' /\ \A c, v : v \in Tasks /\ With(c, v) => With(c, v)'
      BY <1>1, <2>4, <3>1, QueuedWaiters DEF Messages
    <3>3. ASSUME NEW c \in Callers, Waits(c)' PROVE \E w \in Tasks : With(c, w)'
      <4>1. CASE c = d
        BY <3>2, <4>1
      <4>2. CASE c # d
        <5>1. Waits(c)
          BY <1>0, <2>2, <3>3, <4>2 DEF Waits
        <5> QED BY <3>2, <5>1 DEF Waiters
      <4> QED BY <4>1, <4>2
    <3> QED BY <2>3, <3>3 DEF Waiters
  <2>5. CASE queue' = queue /\ pc'[d] \in {"closed", "dropped", "refused"}
    BY <1>0, <1>1, <2>2, <2>3, <2>5 DEF Waiters, Waits, With
  <2> QED BY <1>0, <1>4, <2>4, <2>5 DEF Send, Undelivered
<1> QED BY <1>2, <1>3, <1>4

\* The head of a batch is answered or abandoned, and the rest stays in it.
LEMMA PopWaiters ==
  ASSUME LogTyped, Waiters, NEW w \in Tasks, batch[w] # <<>>, Pop(w), UNCHANGED <<queue, hold>>,
         \A c \in Clients : pc'[c] # pc[c] => pc'[c] \in {"ok", "closed", "refused"},
         Msg(w) \in Callers => pc'[Msg(w)] \in {"ok", "closed", "refused"}
  PROVE  Waiters'
<1>1. Callers \subseteq Clients /\ batch \in [Tasks -> Seq(Messages)]
  BY DEF LogTyped, WritersOK, Clients
<1>2. /\ batch'[w] = Tail(batch[w]) /\ \A v \in Tasks \ {w} : batch'[v] = batch[v]
  BY <1>1 DEF Pop
<1>3. Range(batch[w]) = {Msg(w)} \cup Range(Tail(batch[w]))
  BY <1>1, TailIs DEF Msg
<1>4. \A c \in Callers : Waits(c)' => Waits(c) /\ c # Msg(w)
  BY <1>1 DEF Waits
<1>5. \A c \in Callers, v \in Tasks : c # Msg(w) /\ With(c, v) => With(c, v)'
  BY <1>2, <1>3 DEF With
<1>6. \A c \in Clients : pc'[c] \in {"held", "fresh"} => pc'[c] = pc[c]
  OBVIOUS
<1> QED BY <1>4, <1>5, <1>6, WaitersKept

\* What is abandoned is in no waiting caller's interest.
LEMMA AbandonedAnswers ==
  ASSUME ClientOK, NEW S, pc' = Abandoned(S)
  PROVE  /\ \A c \in Clients : pc'[c] # pc[c] => pc'[c] \in {"ok", "closed", "refused"}
         /\ \A c \in Callers : c \in S => pc'[c] \in {"ok", "closed", "refused"}
         /\ \A c \in Clients : c \notin S => pc'[c] = pc[c]
<1>1. ASSUME NEW c \in Clients, pc'[c] # pc[c] PROVE pc'[c] \in {"ok", "closed", "refused"}
  BY <1>1, AbandonedIs DEF Clients
<1> QED BY <1>1, AbandonedIs

\* So does a writer's loop: what it drops it answers.
LEMMA LoopWaiters ==
  ASSUME LogTyped, Waiters, NEW w \in Tasks,
         \/ Take(w) \/ TimerSync(w) \/ Idle(w) \/ DropRx(w) \/ FinalSync(w) \/ EndBatch(w)
         \/ CloseMsg(w)
  PROVE  Waiters'
<1> USE DEF clientVars, chanVars
<1>0. /\ Agrees(chan[w], queue[w], mode[w], batch[w], log[w]) /\ Range(<<>>) = {}
      /\ queue \in [Tasks -> Seq(Messages)] /\ batch \in [Tasks -> Seq(Messages)]
      /\ Callers \subseteq Clients /\ ClientOK
  BY DEF LogTyped, ModesAgree, Range, ChanOK, WritersOK, Clients
<1>1. CASE Take(w)
  <2>1. UNCHANGED <<pc, hold>> /\ batch[w] = <<>>
    BY <1>0, <1>1 DEF Take, Agrees, Handling
  <2>2. /\ batch'[w] \in Seq(Messages) /\ queue'[w] \in Seq(Messages)
        /\ queue[w] = batch'[w] \o queue'[w]
        /\ \A v \in Tasks \ {w} : batch'[v] = batch[v] /\ queue'[v] = queue[v]
    BY <1>1, TakeIs
  <2>3. Range(queue[w]) = Range(batch'[w]) \cup Range(queue'[w])
    BY <2>2, RangeCat
  <2>4. \A c \in Callers, v \in Tasks : With(c, v) => With(c, v)'
    BY <1>0, <2>1, <2>2, <2>3 DEF With
  <2> QED BY <2>1, <2>4, WaitersKept DEF Waits
<1>2. CASE TimerSync(w) \/ Idle(w) \/ FinalSync(w) \/ (EndBatch(w) /\ ~log[w].gaveUp)
  <2>1. UNCHANGED <<pc, hold, queue, batch>>
    BY <1>2 DEF TimerSync, Idle, FinalSync, EndBatch
  <2> QED BY <2>1 DEF Waiters, Waits, With
<1>3. CASE DropRx(w) \/ (EndBatch(w) /\ log[w].gaveUp)
  <2>1. /\ pc' = Abandoned(Range(queue[w])) /\ batch[w] = <<>>
        /\ \A v \in Tasks \ {w} : queue'[v] = queue[v]
        /\ UNCHANGED <<hold, batch>>
    BY <1>0, <1>3 DEF DropRx, EndBatch, Agrees, Handling
  <2>2. /\ \A c \in Clients : pc'[c] # pc[c] => pc'[c] \in {"ok", "closed", "refused"}
        /\ \A c \in Callers : c \in Range(queue[w]) => pc'[c] \in {"ok", "closed", "refused"}
    BY <1>0, <2>1, AbandonedAnswers
  <2>3. \A c \in Callers : Waits(c)' => Waits(c) /\ c \notin Range(queue[w])
    BY <1>0, <2>2 DEF Waits
  <2>4. \A c \in Callers, v \in Tasks : c \notin Range(queue[w]) /\ With(c, v) => With(c, v)'
    BY <1>0, <2>1 DEF With
  <2>5. \A c \in Clients : pc'[c] \in {"held", "fresh"} => pc'[c] = pc[c]
    BY <2>2
  <2> QED BY <2>1, <2>3, <2>4, <2>5, WaitersKept
<1>4. CASE CloseMsg(w)
  <2>1. /\ pc' = Abandoned(Range(batch[w]))
        /\ \A v \in Tasks \ {w} : batch'[v] = batch[v]
        /\ UNCHANGED <<hold, queue>>
    BY <1>0, <1>4 DEF CloseMsg
  <2>2. /\ \A c \in Clients : pc'[c] # pc[c] => pc'[c] \in {"ok", "closed", "refused"}
        /\ \A c \in Callers : c \in Range(batch[w]) => pc'[c] \in {"ok", "closed", "refused"}
    BY <1>0, <2>1, AbandonedAnswers
  <2>3. \A c \in Callers : Waits(c)' => Waits(c) /\ c \notin Range(batch[w])
    BY <1>0, <2>2 DEF Waits
  <2>4. \A c \in Callers, v \in Tasks : c \notin Range(batch[w]) /\ With(c, v) => With(c, v)'
    BY <1>0, <2>1 DEF With
  <2>5. \A c \in Clients : pc'[c] \in {"held", "fresh"} => pc'[c] = pc[c]
    BY <2>2
  <2> QED BY <2>1, <2>3, <2>4, <2>5, WaitersKept
<1> QED BY <1>1, <1>2, <1>3, <1>4

\* So does each step of a message, which is answered when it leaves the batch.
LEMMA BatchWaiters ==
  ASSUME LogTyped, Waiters, NEW w \in Tasks,
         SyncMsg(w) \/ SkipMsg(w) \/ ensure_log(w) \/ Copy(w) \/ Write(w) \/ AfterWrite(w) \/ Notice(w)
  PROVE  Waiters'
<1> USE DEF clientVars, chanVars
<1>0. Callers \subseteq Clients /\ ClientOK /\ pc \in [Clients -> Stops]
  BY DEF LogTyped, ClientOK, Clients
<1>1. UNCHANGED <<queue, hold>>
  BY Zenon DEF SyncMsg, SkipMsg, ensure_log, Copy, Write, AfterWrite, Notice
<1>2. batch[w] # <<>>
  <2>1. Working(w) \/ mode[w] \in Handling
    BY Zenon DEF SyncMsg, SkipMsg, ensure_log, Copy, Write, AfterWrite, Notice, Handling
  <2> QED BY <2>1, WorkerIs DEF Working
<1>3. CASE UNCHANGED <<pc, batch>>
  BY <1>1, <1>3 DEF Waiters, Waits, With
<1>4. CASE Pop(w) /\ pc' = Abandoned({Msg(w)})
  BY <1>0, <1>1, <1>2, <1>4, AbandonedAnswers, PopWaiters
<1>5. CASE /\ Pop(w) /\ Msg(w) \in Clients
           /\ pc' = [pc EXCEPT ![Msg(w)] = "ok"] \/ pc' = [pc EXCEPT ![Msg(w)] = "refused"]
  <2>1. /\ \A c \in Clients : pc'[c] # pc[c] => pc'[c] \in {"ok", "closed", "refused"}
        /\ pc'[Msg(w)] \in {"ok", "closed", "refused"}
    BY <1>0, <1>5
  <2> QED BY <1>1, <1>2, <1>5, <2>1, PopWaiters
<1>6. CASE Pop(w) /\ pc' = pc /\ Msg(w) \notin Callers
  BY <1>1, <1>2, <1>6, PopWaiters
<1>7. ASSUME SyncMsg(w) \/ SkipMsg(w) \/ ensure_log(w) \/ Copy(w) \/ Write(w)
      PROVE  Waiters'
  <2>1. CASE SyncMsg(w)
    BY <1>0, <1>5, <2>1 DEF SyncMsg, Callers
  <2>2. CASE Copy(w)
    <3>1. CASE pc' = [pc EXCEPT ![Msg(w)] = "refused"] /\ Pop(w) /\ Msg(w) \in Snaps
      BY <1>0, <1>5, <3>1 DEF Callers
    <3> QED BY <1>3, <2>2, <3>1 DEF Copy, NotCopied
  <2> QED BY <1>3, <1>4, <1>7, <2>1, <2>2 DEF SkipMsg, ensure_log, Write
<1>8. ASSUME Answered(w), NeedsLog(Msg(w)) PROVE Waiters'
  <2>1. CASE Msg(w) \in Snaps
    BY <1>0, <1>5, <1>8, <2>1 DEF Answered, Callers
  <2>2. CASE Msg(w) \notin Snaps
    <3>1. Msg(w) \notin Callers
      BY <1>8, <2>2, NamesApart DEF NeedsLog, Callers, Clients
    <3> QED BY <1>6, <1>8, <2>2, <3>1 DEF Answered
  <2> QED BY <2>1, <2>2
<1>9. ASSUME AfterWrite(w) \/ Notice(w) PROVE Waiters'
  <2>1. NeedsLog(Msg(w))
    BY Zenon, <1>9, WorkerIs DEF AfterWrite, Notice, Handling
  <2>2. CASE Notice(w)
    BY <1>8, <2>1, <2>2 DEF Notice
  <2>3. CASE AfterWrite(w)
    <3>1. \E b : Paid(w, b)
      BY Zenon, <2>3, AfterWriteIs DEF Stayed, Stranded, Rotated
    <3> QED BY <1>3, <1>8, <2>1, <3>1 DEF Paid
  <2> QED BY <1>9, <2>2, <2>3
<1> QED BY <1>7, <1>9

\* And every step.
LEMMA NextWaiters == LogTyped /\ Waiters /\ [LogNext]_logVars => Waiters'
<1> SUFFICES ASSUME LogTyped, Waiters, [LogNext]_logVars PROVE Waiters'
  OBVIOUS
<1>1. CASE UNCHANGED logVars
  BY <1>1 DEF logVars, clientVars, chanVars, writerVars, Waiters, Waits, With
<1>2. CASE \E c \in Clients : Open(c) \/ Collect(c) \/ Send(c) \/ Tracked(c) \/ Reopen(c)
  BY <1>2, CallWaiters
<1>3. CASE \E w \in Tasks :
          \/ Take(w) \/ TimerSync(w) \/ Idle(w) \/ DropRx(w) \/ FinalSync(w) \/ EndBatch(w)
          \/ SyncMsg(w) \/ CloseMsg(w) \/ SkipMsg(w) \/ ensure_log(w) \/ Copy(w) \/ Write(w)
          \/ AfterWrite(w) \/ Notice(w)
  BY <1>3, LoopWaiters, BatchWaiters
<1>4. CASE DeleteRows \/ Forget \/ SendClose \/ ForgetTimesOut \/ RemoveDir \/ Sweep \/ Boot
  <2>1. UNCHANGED <<pc, hold, batch>>
    BY <1>4 DEF DeleteRows, Forget, SendClose, ForgetTimesOut, RemoveDir, Sweep, Boot,
         clientVars, writerVars
  <2>2. CASE queue' = queue
    BY <2>1, <2>2 DEF Waiters, Waits, With
  <2>3. CASE chan[dying] = "open" /\ queue' = [queue EXCEPT ![dying] = Append(@, "close")]
    <3>1. CASE dying \in Tasks
      <4>1. \A c, v : v \in Tasks /\ With(c, v) => With(c, v)'
        BY <2>1, <2>3, <3>1, QueuedWaiters DEF Messages
      <4> QED BY <2>1, <4>1 DEF Waiters, Waits
    <3>2. CASE dying \notin Tasks
      <4>1. queue' = queue
        BY <2>3, <3>2 DEF LogTyped, ChanOK
      <4> QED BY <2>2, <4>1
    <3> QED BY <3>1, <3>2
  <2> QED BY <1>4, <2>2, <2>3 DEF DeleteRows, Forget, SendClose, ForgetTimesOut, RemoveDir,
           Sweep, Boot, chanVars
<1>5. CASE Crash
  <2>1. \A c \in Clients : pc'[c] \in Over
    BY <1>5 DEF Crash, Died, Over
  <2> QED BY <2>1 DEF Waiters, Waits, Over, Clients
<1> QED BY <1>1, <1>2, <1>3, <1>4, <1>5 DEF LogNext

\* A waiter that is in a channel or a batch is with a task that runs.
LEMMA WaitersWait == LogTyped /\ Waiters => WaitsForSomebody
<1> SUFFICES ASSUME LogTyped, Waiters, NEW c \in Callers, Waits(c)
             PROVE  \E w \in Tasks : c \in Range(queue[w] \o batch[w]) /\ mode[w] \notin {"none", "exit"}
  BY DEF WaitsForSomebody, Waits
<1>1. PICK w \in Tasks : With(c, w)
  BY DEF Waiters
<1>2. queue[w] \in Seq(Messages) /\ batch[w] \in Seq(Messages)
  BY DEF LogTyped, ChanOK, WritersOK
<1>3. c \in Range(queue[w] \o batch[w])
  BY <1>1, <1>2, RangeCat DEF With
<1>4. mode[w] \notin {"none", "exit"}
  BY <1>1, NobodyWith
<1> QED BY <1>3, <1>4

\* A snapshot or a flush that waits is in the channel or the batch of a writer that
\* still runs, whatever was closed, deleted or respawned meanwhile.
THEOREM WaitsForSomebodyAlways == LogSpec => []WaitsForSomebody
<1>1. LogInit => LogTyped /\ Waiters
  <2>1. LogInit => Waiters
    BY DEF LogInit, Waiters, Waits, Clients
  <2> QED BY <2>1, InitTyped
<1>2. LogTyped /\ Waiters /\ [LogNext]_logVars => (LogTyped /\ Waiters)'
  BY NextTyped, NextWaiters
<1>3. LogTyped /\ Waiters => WaitsForSomebody
  BY WaitersWait
<1> QED BY <1>1, <1>2, <1>3, PTL DEF LogSpec

----------------------------------------------------------------------------
(* What the steps do to the directory, its files and the writers' logs. *)

\* Everything else is a trace of what happened, and does not unhappen.
LEMMA NoWayBack ==
  ASSUME LogTyped, [LogNext]_logVars
  PROVE  /\ deletes' = 0 => deletes = 0
         /\ ~hurt' => ~hurt
         /\ ~swept' => ~swept
<1> USE DEF logVars, procVars, deleteVars, rowVars
<1>1. deletes' = deletes \/ deletes' = deletes + 1
  BY ZenonT(40) DEF LogNext, Open, Collect, Send, Tracked, Reopen, Take, TimerSync, Idle, DropRx,
     FinalSync,
     EndBatch, SyncMsg, CloseMsg, SkipMsg, ensure_log, Copy, Write, AfterWrite, Notice, DeleteRows,
     Forget, SendClose, ForgetTimesOut, RemoveDir, Crash, Died, Sweep, Boot
<1>2. deletes \in Nat
  BY DEF LogTyped, DeleteOK
<1>3. (swept' = swept) \/ (swept' = TRUE)
  BY ZenonT(40) DEF LogNext, Open, Collect, Send, Tracked, Reopen, Take, TimerSync, Idle, DropRx,
     FinalSync,
     EndBatch, SyncMsg, CloseMsg, SkipMsg, ensure_log, Copy, Write, AfterWrite, Notice, DeleteRows,
     Forget, SendClose, ForgetTimesOut, RemoveDir, Crash, Sweep, Boot
<1>4. hurt' = hurt \/ NoFault \/ \E op : Fault(op)
  <2>1. ASSUME NEW w \in Tasks, AfterWrite(w) PROVE NoFault \/ \E op : Fault(op)
    BY Zenon, <2>1, AfterWriteIs DEF Stayed, Stranded, Rotated
  <2>2. ASSUME NEW w \in Tasks, Write(w) \/ Notice(w) PROVE NoFault \/ \E op : Fault(op)
    BY <2>2 DEF Write, Notice, Wrote, WroteUnsynced, WriteFailed
  <2>3. ASSUME NEW w \in Tasks, TimerSync(w) \/ SyncMsg(w) \/ FinalSync(w) \/ ensure_log(w) \/ Copy(w)
        PROVE  NoFault \/ \E op : Fault(op)
    BY <2>3 DEF TimerSync, SyncMsg, Synced, FinalSync, ensure_log, Copy
  <2>5. ASSUME Sweep PROVE NoFault \/ \E op : Fault(op)
    BY <2>5 DEF Sweep, Unlinked
  <2>4. ASSUME ~\E w \in Tasks : \/ AfterWrite(w) \/ Write(w) \/ Notice(w) \/ TimerSync(w)
                                 \/ SyncMsg(w) \/ FinalSync(w) \/ ensure_log(w) \/ Copy(w),
               ~Sweep
        PROVE  hurt' = hurt
    BY <2>4 DEF LogNext, Open, Collect, Send, Tracked, Reopen, Take, Idle, DropRx,
       EndBatch, CloseMsg, SkipMsg, DeleteRows, Forget, SendClose, ForgetTimesOut, RemoveDir, Crash,
       Boot
  <2> QED BY <2>1, <2>2, <2>3, <2>4, <2>5
<1>5. ~hurt' => ~hurt
  BY <1>4 DEF NoFault, Fault
<1>6. ~swept' => ~swept
  BY <1>3, Zenon
<1> QED BY <1>1, <1>2, <1>5, <1>6

\* The steps of the clients, of the deletion and of a writer between records touch no file.
LEMMA NeutralIs ==
  ASSUME LogTyped,
         \/ UNCHANGED logVars
         \/ \E c \in Clients : Open(c) \/ Collect(c) \/ Send(c) \/ Tracked(c) \/ Reopen(c)
         \/ \E w \in Tasks : \/ Take(w) \/ TimerSync(w) \/ Idle(w) \/ DropRx(w) \/ EndBatch(w)
                             \/ SyncMsg(w) \/ CloseMsg(w) \/ SkipMsg(w) \/ Copy(w)
                             \/ ensure_log(w) /\ Fault("open") /\ log' = [log EXCEPT ![w].gaveUp = TRUE]
                                /\ UNCHANGED <<lines, synced, disk>>
         \/ DeleteRows \/ Forget \/ SendClose \/ ForgetTimesOut \/ Boot
  PROVE  Neutral
<1> USE DEF logVars, procVars, serviceVars, clientVars, deleteVars, chanVars, writerVars, diskVars,
        rowVars
<1>1. /\ log \in [Tasks -> FileType] /\ chan \in [Tasks -> {"none", "open", "gone"}]
      /\ synced \in [Files -> Nat] /\ disk \in DirType
  BY DEF LogTyped, WritersOK, ChanOK, DiskOK
<1>2. ASSUME UNCHANGED <<disk, lines, synced, log, chan>> PROVE Neutral
  BY <1>2 DEF Neutral
<1>3. CASE \E c \in Clients : Open(c) \/ Reopen(c)
  <2>1. UNCHANGED <<disk, lines, synced>>
    BY <1>3 DEF Open, Reopen
  <2>2. CASE UNCHANGED <<log, chan>>
    BY <1>2, <2>1, <2>2
  <2>3. CASE \E w \in Tasks : \E msgs : Spawned(w, msgs)
    <3>1. PICK w \in Tasks : /\ mode[w] \in {"none", "exit"}
                             /\ log' = [log EXCEPT ![w] = Closed]
                             /\ chan' = [chan EXCEPT ![w] = "open"]
      BY <2>3 DEF Spawned, Unspawned
    <3>2. log[w].file = 0
      BY <3>1 DEF LogTyped, ModesAgree, Agrees
    <3>3. /\ log'[w].file = 0
          /\ \A v \in Tasks \ {w} : log'[v] = log[v] /\ chan'[v] = chan[v]
      BY <1>1, <3>1 DEF Closed
    <3> QED BY <2>1, <3>2, <3>3 DEF Neutral
  <2> QED BY <1>3, <2>2, <2>3 DEF Open, Reopen
<1>4. CASE \E w \in Tasks : TimerSync(w) \/ SyncMsg(w)
  <2>1. PICK w \in Tasks : TimerSync(w) \/ SyncMsg(w)
    BY <1>4
  <2>2. Synced(w) /\ UNCHANGED <<up, crashes, disk, lines, chan>>
    BY <2>1 DEF TimerSync, SyncMsg
  <2>3. \A v \in Tasks : /\ log'[v].file = log[v].file /\ log'[v].next = log[v].next
                         /\ log'[v].bytes = log[v].bytes /\ log'[v].first = log[v].first
    BY <2>2, SyncedTyped
  <2>4. \A x \in Files : synced'[x] \in {synced[x], Durable(Len(lines[x]))}
    BY <1>1, <2>2 DEF Synced
  <2> QED BY <2>2, <2>3, <2>4 DEF Neutral
<1>5. CASE \E w \in Tasks : DropRx(w) \/ EndBatch(w)
  <2>1. PICK w \in Tasks : DropRx(w) \/ EndBatch(w)
    BY <1>5
  <2>2. /\ UNCHANGED <<disk, lines, synced, log>>
        /\ chan' = chan \/ chan' = [chan EXCEPT ![w] = "gone"]
    BY <2>1 DEF DropRx, EndBatch
  <2>3. \A v \in Tasks : chan'[v] = "open" => chan[v] = "open"
    BY <1>1, <2>2
  <2> QED BY <2>2, <2>3 DEF Neutral
<1>6. CASE \E w \in Tasks : Copy(w)
  <2>1. /\ UNCHANGED <<lines, synced, log, chan>>
        /\ disk' = disk \/ disk' = [disk EXCEPT !.dir = TRUE]
    BY <1>6 DEF Copy
  <2>2. disk'.live = disk.live /\ disk'.arch = disk.arch
    BY <1>1, <2>1 DEF DirType
  <2> QED BY <2>1, <2>2 DEF Neutral
<1>7. CASE \E w \in Tasks : /\ ensure_log(w) /\ log' = [log EXCEPT ![w].gaveUp = TRUE]
                            /\ UNCHANGED <<lines, synced, disk>>
  <2>1. PICK w \in Tasks : log' = [log EXCEPT ![w].gaveUp = TRUE] /\ UNCHANGED <<lines, synced, disk, chan>>
    BY <1>7 DEF ensure_log
  <2>2. \A v \in Tasks : /\ log'[v].file = log[v].file /\ log'[v].next = log[v].next
                         /\ log'[v].bytes = log[v].bytes /\ log'[v].first = log[v].first
    BY <1>1, <2>1 DEF FileType
  <2> QED BY <2>1, <2>2 DEF Neutral
<1>8. CASE \/ UNCHANGED logVars
           \/ \E c \in Clients : Collect(c) \/ Send(c) \/ Tracked(c)
           \/ \E w \in Tasks : Take(w) \/ Idle(w) \/ CloseMsg(w) \/ SkipMsg(w)
           \/ DeleteRows \/ Forget \/ SendClose \/ ForgetTimesOut \/ Boot
  <2>1. UNCHANGED <<disk, lines, synced, log, chan>>
    BY <1>8 DEF Collect, Send, Tracked, Take, Idle, CloseMsg, SkipMsg, DeleteRows, Forget,
       SendClose,
         ForgetTimesOut, Boot
  <2> QED BY <1>2, <2>1
<1> QED BY <1>3, <1>4, <1>5, <1>6, <1>7, <1>8

\* A record of a writer, or its failure.
LEMMA WritesIs ==
  ASSUME LogTyped, NEW w \in Tasks, Write(w) \/ Notice(w)
  PROVE  /\ chan[w] = "open" /\ UNCHANGED chan /\ log[w].file \in Files
         /\ mode[w] \in Handling \cup {"work"} /\ batch[w] # <<>> /\ NeedsLog(Msg(w))
         /\ log[w].next \in Nat \ {0} /\ ~log[w].gaveUp
         /\ Write(w) => Msg(w) \in Words /\ Ref(w) \in SUBSET Images
         /\ \/ Write(w) /\ Grown(w, Msg(w), Ref(w))
            \/ Notice(w) /\ Grown(w, "trim", {})
            \/ LeftTorn(w)
            \/ \E f \in Files, t \in Seq(LineType) : Realigned(w, f, t)
<1>1. Agrees(chan[w], queue[w], mode[w], batch[w], log[w])
  BY DEF LogTyped, ModesAgree
<1>2. /\ mode[w] \in Handling \cup {"work"} /\ batch[w] # <<>> /\ NeedsLog(Msg(w))
      /\ log[w].file \in Files /\ log[w].next \in Nat \ {0} /\ ~log[w].gaveUp
  <2>1. CASE Working(w) /\ Msg(w) \in (Recs \ spilled) \cup {"start"} /\ log[w].file # 0
    <3>1. log[w] \in FileType /\ log[w].next > 0
      BY <2>1 DEF LogTyped, WritersOK
    <3> QED BY <1>1, <2>1, <3>1 DEF Working, Agrees, NeedsLog, FileType
  <2>2. CASE mode[w] \in {"copied", "plain", "trimmed"}
    BY <2>2, WorkerIs DEF Handling
  <2> QED BY <2>1, <2>2 DEF Write, Notice
<1>3. chan[w] = "open" /\ UNCHANGED chan
  BY <1>2, WorkerIs DEF Write, Notice, chanVars
<1>4. Msg(w) \in Words
  BY <1>2, MessageIs
<1>5. Ref(w) \in SUBSET Images
  <2>1. CASE mode[w] = "copied"
    <3>1. Msg(w) \in Clients
      BY <2>1, WorkerIs DEF Handling, Clients, Callers
    <3>2. Name(w, Msg(w)) \in Images
      BY <1>2, <3>1, MessageIs, NamesApart
    <3> QED BY <2>1, <3>2 DEF Ref
  <2>2. CASE mode[w] # "copied"
    BY <2>2 DEF Ref
  <2> QED BY <2>1, <2>2
<1>6. "trim" \in Words /\ {} \in SUBSET Images
  BY DEF Words
<1>7. CASE WriteFailed(w)
  BY <1>2, <1>3, <1>4, <1>5, <1>7, WriteFailedIs
<1>8. CASE Write(w) /\ (Wrote(w, Msg(w), Ref(w)) \/ WroteUnsynced(w, Msg(w), Ref(w)))
  BY <1>2, <1>3, <1>4, <1>5, <1>8, WroteIs
<1>9. CASE Notice(w) /\ Wrote(w, "trim", {})
  BY <1>2, <1>3, <1>4, <1>5, <1>6, <1>9, WroteIs
<1> QED BY <1>7, <1>8, <1>9 DEF Write, Notice

\* Any other step writes, syncs, removes the directory, crashes or sweeps.
LEMMA StepKinds ==
  ASSUME LogTyped, [LogNext]_logVars
  PROVE  \/ Neutral
         \/ \E w \in Tasks : FinalSync(w) \/ Works(w)
         \/ RemoveDir \/ Crash \/ Sweep
<1>1. ASSUME NEW w \in Tasks, Write(w) \/ Notice(w) PROVE Works(w)
  <2>1. "trim" \in Words /\ {} \in SUBSET Images
    BY DEF Words
  <2> QED BY <1>1, <2>1, WritesIs DEF Works, Grows, Cuts
<1>2. ASSUME NEW w \in Tasks, AfterWrite(w) PROVE Works(w)
  <2>1. chan[w] = "open" /\ UNCHANGED chan /\ log[w].file \in Files
    BY Zenon, <1>2, WorkerIs DEF AfterWrite, Handling, chanVars
  <2>2. Rolls(w)
    BY Zenon, <1>2, AfterWriteIs DEF AfterWrite, Rolls
  <2> QED BY <2>1, <2>2 DEF Works
<1>3. ASSUME NEW w \in Tasks, ensure_log(w),
             ~(/\ Fault("open") /\ log' = [log EXCEPT ![w].gaveUp = TRUE]
               /\ UNCHANGED <<lines, synced, disk>>)
      PROVE  Works(w)
  <2>1. chan[w] = "open" /\ UNCHANGED chan /\ log[w].file = 0
    BY <1>3, WorkerIs DEF ensure_log, Working, chanVars
  <2>2. Opens(w)
    BY <1>3, <2>1, EnsureIs DEF Opens
  <2> QED BY <2>1, <2>2 DEF Works
<1>4. CASE UNCHANGED logVars
  BY <1>4, NeutralIs
<1>5. CASE LogNext
  <2>1. CASE \E w \in Tasks : ensure_log(w) \/ Write(w) \/ Notice(w) \/ AfterWrite(w) \/ FinalSync(w)
    BY <1>1, <1>2, <1>3, <2>1, NeutralIs
  <2>2. CASE RemoveDir \/ Crash \/ Sweep
    BY <2>2
  <2>3. CASE ~(\E w \in Tasks : ensure_log(w) \/ Write(w) \/ Notice(w) \/ AfterWrite(w) \/ FinalSync(w))
             /\ ~RemoveDir /\ ~Crash /\ ~Sweep
    BY <1>5, <2>3, NeutralIs DEF LogNext
  <2> QED BY <2>1, <2>2, <2>3
<1> QED BY <1>4, <1>5

----------------------------------------------------------------------------
(* The directory: no two names share a file, and a file nobody refers to is empty. *)

\* A file has a name or is free.
LEMMA NamedIs ==
  /\ \A f \in Files : Named(f) <=> f \notin FreeFiles
  /\ \A f \in Files : FreeFile(f) => ~Named(f)
BY DEF Named, FreeFiles, FreeFile

\* What is named keeps its contents, and what is not is empty.
LEMMA KeptNamed ==
  ASSUME NEW ls \in [Files -> Seq(LineType)], lines' = Kept(ls, disk', log')
  PROVE  \A f \in Files : /\ Named(f)' => lines'[f] = ls[f]
                          /\ ~Named(f)' => lines'[f] = <<>>
<1>1. \A f \in Files :
         Named(f)' <=> f \in {disk'.live} \cup {a.file : a \in disk'.arch} \cup {log'[w].file : w \in Tasks}
  BY DEF Named
<1> QED BY <1>1, KeptIs

\* The types of the files, as the proofs below need them.
LEMMA FilesIs ==
  ASSUME LogTyped
  PROVE  /\ disk.live \in Files \cup {0} /\ 0 \notin Files
         /\ \A a \in disk.arch : a \in SegType /\ a.file \in Files
         /\ \A w \in Tasks : log[w].file \in Files \cup {0}
         /\ lines \in [Files -> Seq(LineType)] /\ synced \in [Files -> Nat]
         /\ \A f \in Files : Len(lines[f]) \in Nat
         /\ disk \in DirType /\ IsFiniteSet(disk.arch) /\ log \in [Tasks -> FileType]
<1>1. /\ disk \in DirType /\ IsFiniteSet(disk.arch) /\ log \in [Tasks -> FileType]
      /\ lines \in [Files -> Seq(LineType)] /\ synced \in [Files -> Nat]
  BY DEF LogTyped, DiskOK, WritersOK
<1>2. disk.live \in Files \cup {0} /\ disk.arch \subseteq SegType
  BY <1>1 DEF DirType
<1>3. \A a \in SegType : a.file \in Files
  BY DEF SegType
<1>4. \A w \in Tasks : log[w].file \in Files \cup {0}
  BY <1>1 DEF FileType
<1> QED BY <1>1, <1>2, <1>3, <1>4, NamesApart

\* A step that names no new file and changes none but to forget it.
LEMMA DirShrinks ==
  ASSUME LogTyped, LogTyped', Dir, NEW ls \in [Files -> Seq(LineType)], lines' = Kept(ls, disk', log'),
         disk'.arch \subseteq disk.arch, disk'.live \in {disk.live, 0},
         \A w \in Tasks : log'[w].file \in {log[w].file, disk.live, 0},
         \A f \in Files : Named(f) => synced'[f] <= Len(ls[f])
  PROVE  Dir'
<1>1. /\ \A f \in Files : Named(f)' => lines'[f] = ls[f]
      /\ \A f \in Files : ~Named(f)' => lines'[f] = <<>>
  BY KeptNamed
<1>2. \A f \in Files : Named(f)' => Named(f)
  BY NamesApart DEF Named
<1>3. \A a \in disk'.arch : a.file # disk'.live
  BY FilesIs DEF Dir
<1> QED BY <1>1, <1>2, <1>3 DEF Dir

\* A sync changes nothing of what a writer knows of its file.
LEMMA CleanIs ==
  ASSUME log \in [Tasks -> FileType], NEW w \in Tasks,
         log' = log \/ log' = [log EXCEPT ![w].dirty = FALSE]
  PROVE  \A v \in Tasks : /\ log'[v].file = log[v].file /\ log'[v].next = log[v].next
                          /\ log'[v].bytes = log[v].bytes /\ log'[v].first = log[v].first
<1>1. CASE log' = log
  BY <1>1
<1>2. CASE log' = [log EXCEPT ![w].dirty = FALSE]
  BY <1>2 DEF FileType
<1> QED BY <1>1, <1>2

\* A segment renamed, some archived ones gone, and a new live one or none, keep the directory
\* in order.
LEMMA RenamedDir ==
  ASSUME LogTyped, LogTyped', Dir, NEW w \in Tasks, log[w].file \in Files, NEW G,
         lines' = Kept(lines, disk', log'), disk.live # 0,
         NEW g \in Files \cup {0},
         disk'.live = g /\ (g = 0 \/ FreeFile(g)),
         disk'.arch \subseteq Archived(w, Less(disk, G)).arch,
         \A v \in Tasks : log'[v].file = log[v].file \/ log'[v].file = g,
         \A x \in Files \ {g} : synced'[x] \in {synced[x], Durable(Len(lines[x]))},
         g # 0 => synced'[g] = 0
  PROVE  Dir'
<1>0. /\ disk.live \in Files \cup {0} /\ 0 \notin Files
      /\ lines \in [Files -> Seq(LineType)] /\ synced \in [Files -> Nat]
      /\ \A f \in Files : Len(lines[f]) \in Nat
  BY FilesIs
<1>1. /\ Less(disk, G).arch = disk.arch \ G /\ Less(disk, G).live = disk.live
      /\ Less(disk, G) \in DirType /\ IsFiniteSet(Less(disk, G).arch)
  BY FilesIs, LessIs
<1>9. log[w] \in FileType /\ log[w].next > 0
  BY NamesApart DEF LogTyped, WritersOK
<1>2. PICK x : x.file = disk.live /\ disk'.arch \subseteq disk.arch \cup {x}
  <2>1. PICK first \in Nat, final \in Nat :
              /\ final = log[w].next - 1
              /\ first = IF log[w].first = 0 THEN final ELSE log[w].first
              /\ Archived(w, Less(disk, G)).arch =
                   {a \in Less(disk, G).arch : a.first # first \/ a.last # final}
                   \cup {[first |-> first, last |-> final, file |-> Less(disk, G).live]}
    BY <1>1, <1>9, ArchivedIs
  <2> QED BY <1>1, <2>1
<1>3. g = 0 \/ ~Named(g)
  BY NamedIs
<1>4. \A a, b \in disk'.arch : a.file = b.file => a = b
  BY <1>2 DEF Dir
<1>5. \A a \in disk'.arch : a.file # disk'.live
  <2> SUFFICES ASSUME NEW a \in disk'.arch PROVE a.file # g
    OBVIOUS
  <2>1. a.file \in Files /\ (a.file = disk.live \/ a \in disk.arch)
    BY <1>0, <1>2, FilesIs
  <2> QED BY <1>0, <1>3, <2>1 DEF Named
<1>6. \A f \in Files : Named(f)' => Named(f) \/ f = g
  BY <1>2 DEF Named
<1>7. /\ \A f \in Files : Named(f)' => lines'[f] = lines[f]
      /\ \A f \in Files : ~Named(f)' => lines'[f] = <<>>
  BY <1>0, KeptNamed
<1>8. ASSUME NEW f \in Files, Named(f)' PROVE synced'[f] <= Len(lines'[f])
  <2>1. lines'[f] = lines[f] /\ Len(lines[f]) \in Nat
    BY <1>0, <1>7, <1>8
  <2>2. CASE f = g
    BY <1>0, <2>1, <2>2
  <2>3. CASE f # g
    <3>1. Named(f) /\ synced'[f] \in {synced[f], Durable(Len(lines[f]))}
      BY <1>6, <1>8, <2>3
    <3>2. Durable(Len(lines[f])) <= Len(lines[f]) /\ synced[f] <= Len(lines[f])
      BY <2>1, <3>1, DurableIs DEF Dir
    <3> QED BY <2>1, <3>1, <3>2
  <2> QED BY <2>2, <2>3
<1> QED BY <1>4, <1>5, <1>7, <1>8 DEF Dir

\* A writer's work keeps the directory in order.
LEMMA WorksDir == ASSUME LogTyped, LogTyped', Dir, NEW w \in Tasks, Works(w) PROVE Dir'
<1>0. /\ disk.live \in Files \cup {0} /\ 0 \notin Files
      /\ \A a \in disk.arch : a.file \in Files
      /\ lines \in [Files -> Seq(LineType)] /\ synced \in [Files -> Nat]
      /\ \A f \in Files : Len(lines[f]) \in Nat
      /\ disk \in DirType /\ log \in [Tasks -> FileType]
  BY FilesIs
<1>1. CASE Opens(w)
  <2>1. PICK f \in Files, s \in Seq(LineType) : Opened(w, f, s)
    BY <1>1 DEF Opens
  <2>2. /\ f = disk.live \/ (disk.live = 0 /\ ~Named(f))
        /\ lines' = [lines EXCEPT ![f] = s]
        /\ synced'[f] <= Len(s) /\ \A g \in Files \ {f} : synced'[g] = synced[g]
    BY <2>1, NamedIs DEF Opened
  <2>3. disk'.live = f /\ disk'.arch = disk.arch
    BY <1>0, <2>1 DEF Opened, DirType
  <2>4. log'[w].file = f /\ log[w].file = 0 /\ \A v \in Tasks \ {w} : log'[v] = log[v]
    BY <1>0, <1>1, <2>1 DEF Opens, Opened
  <2>5. \A g \in Files : Named(g)' <=> (Named(g) \/ g = f)
    BY <1>0, <2>2, <2>3, <2>4 DEF Named
  <2>6. lines'[f] = s /\ \A g \in Files \ {f} : lines'[g] = lines[g]
    BY <1>0, <2>2
  <2>7. \A a \in disk'.arch : a.file # disk'.live
    BY <2>2, <2>3 DEF Dir, Named
  <2> QED BY <2>2, <2>3, <2>5, <2>6, <2>7 DEF Dir
<1>2. CASE log[w].file \in Files /\ (Grows(w) \/ LeftTorn(w))
  <2>1. PICK f \in Files : f = log[w].file
    BY <1>2
  <2>2. /\ disk' = disk /\ \A v \in Tasks : log'[v].file = log[v].file
        /\ \A g \in Files \ {f} : lines'[g] = lines[g] /\ synced'[g] = synced[g]
        /\ synced'[f] \in {synced[f], Durable(Len(lines'[f]))}
        /\ Len(lines'[f]) >= Len(lines[f]) /\ Len(lines'[f]) \in Nat
    <3>1. CASE Grows(w)
      <4>1. PICK r \in Words, ref \in SUBSET Images : Grown(w, r, ref)
        BY <3>1 DEF Grows
      <4>2. /\ lines' = [lines EXCEPT ![f] = Appended(@, Line(log[w].next, r, ref))]
            /\ synced'[f] \in {synced[f], Durable(Len(lines'[f]))}
            /\ \A g \in Files \ {f} : synced'[g] = synced[g]
            /\ disk' = disk /\ \A v \in Tasks : log'[v].file = log[v].file
        BY <2>1, <4>1 DEF Grown
      <4>3. Line(log[w].next, r, ref) \in LineType
        BY <1>0, LineIs DEF FileType
      <4>4. /\ Appended(lines[f], Line(log[w].next, r, ref)) \in Seq(LineType)
            /\ Len(Appended(lines[f], Line(log[w].next, r, ref))) >= Len(lines[f])
        BY <1>0, <4>3, AppendedIs
      <4>5. lines'[f] = Appended(lines[f], Line(log[w].next, r, ref))
        BY <1>0, <4>2
      <4>6. Len(lines'[f]) \in Nat
        BY <4>4, <4>5
      <4> QED BY <1>0, <4>2, <4>4, <4>5, <4>6
    <3>2. CASE LeftTorn(w)
      <4>1. lines' = [lines EXCEPT ![f] = Torn(@)] /\ UNCHANGED <<disk, synced, log>>
        BY <2>1, <3>2 DEF LeftTorn
      <4>2. Torn(lines[f]) \in Seq(LineType) /\ Len(Torn(lines[f])) >= Len(lines[f])
        BY <1>0, TornIs
      <4>3. lines'[f] = Torn(lines[f])
        BY <1>0, <4>1
      <4>4. Len(lines'[f]) \in Nat
        BY <4>2, <4>3
      <4> QED BY <1>0, <4>1, <4>2, <4>3, <4>4
    <3> QED BY <1>2, <3>1, <3>2
  <2>3. \A g \in Files : Named(g)' <=> Named(g)
    BY <2>2 DEF Named
  <2>4. Named(f)
    BY <2>1 DEF Named
  <2>5. synced'[f] <= Len(lines'[f])
    <3>1. synced[f] <= Len(lines[f]) /\ synced[f] \in Nat /\ Len(lines[f]) \in Nat
      BY <1>0, <2>4 DEF Dir
    <3>2. Durable(Len(lines'[f])) <= Len(lines'[f])
      BY <2>2, DurableIs
    <3> QED BY <2>2, <3>1, <3>2
  <2> QED BY <2>2, <2>3, <2>4, <2>5 DEF Dir
<1>3. CASE log[w].file \in Files /\ Cuts(w)
  <2>1. PICK f \in Files, t \in Seq(LineType) : Realigned(w, f, t)
    BY <1>3 DEF Cuts
  <2>2. /\ f = disk.live \/ (disk.live = 0 /\ ~Named(f))
        /\ lines' = Kept([lines EXCEPT ![f] = t], disk', log')
        /\ synced'[f] <= Len(t) /\ \A g \in Files \ {f} : synced'[g] = synced[g]
    BY <2>1, NamedIs DEF Realigned
  <2>3. disk'.live = f /\ disk'.arch = disk.arch
    BY <1>0, <2>1 DEF Realigned, DirType
  <2>4. log'[w].file = f /\ \A v \in Tasks \ {w} : log'[v] = log[v]
    BY <1>0, <2>1 DEF Realigned, FileType
  <2>5. \A g \in Files : Named(g)' => (Named(g) \/ g = f)
    BY <1>0, <2>2, <2>3, <2>4 DEF Named
  <2>6. [lines EXCEPT ![f] = t] \in [Files -> Seq(LineType)]
    BY <1>0
  <2>7. /\ \A g \in Files : Named(g)' => lines'[g] = [lines EXCEPT ![f] = t][g]
        /\ \A g \in Files : ~Named(g)' => lines'[g] = <<>>
    BY <2>2, <2>6, KeptNamed
  <2>8. \A g \in Files : Named(g)' => synced'[g] <= Len(lines'[g])
    BY <1>0, <2>2, <2>5, <2>7 DEF Dir
  <2>9. \A a \in disk'.arch : a.file # disk'.live
    BY <2>2, <2>3 DEF Dir, Named
  <2> QED BY <2>3, <2>7, <2>8, <2>9 DEF Dir
<1>4. CASE log[w].file \in Files /\ Rolls(w)
  <2>1. PICK G : /\ Takes(disk, G)
                 /\ \/ Stayed(w, G)
                    \/ Stranded(w, G)
                    \/ \E g \in Files : \E H : Rotated(w, G, g, H)
    BY <1>4 DEF Rolls
  <2>2. /\ Less(disk, G).arch = disk.arch \ G /\ Less(disk, G).live = disk.live
        /\ Less(disk, G) \in DirType /\ IsFiniteSet(Less(disk, G).arch)
    BY FilesIs, LessIs
  <2>3. log[w] \in FileType /\ log[w].next > 0 /\ log[w].file # 0
    BY <1>0, <1>4 DEF LogTyped, WritersOK
  <2>4. \A f \in Files : /\ Durable(Len(lines[f])) <= Len(lines[f])
                         /\ Named(f) => synced[f] <= Len(lines[f])
    BY <1>0, DurableIs DEF Dir
  <2>5. CASE Stayed(w, G)
    <3>1. disk'.arch \subseteq disk.arch /\ disk'.live = disk.live
      BY <2>2, <2>5 DEF Stayed
    <3>2. \A v \in Tasks : log'[v].file = log[v].file
      BY <1>0, <2>5, CleanIs DEF Stayed
    <3>3. \A f \in Files : Named(f) => synced'[f] <= Len(lines[f])
      BY <2>4, <2>5 DEF Stayed, SyncedOr
    <3> QED BY <1>0, <1>4, <3>1, <3>2, <3>3, DirShrinks DEF Rolls
  <2>6. ASSUME disk.live # 0, NEW g \in Files \cup {0},
               /\ disk'.live = g /\ (g = 0 \/ FreeFile(g))
               /\ disk'.arch \subseteq Archived(w, Less(disk, G)).arch
               /\ \A v \in Tasks : log'[v].file = log[v].file \/ log'[v].file = g
               /\ \A x \in Files \ {g} : synced'[x] \in {synced[x], Durable(Len(lines[x]))}
               /\ g # 0 => synced'[g] = 0
        PROVE  Dir'
    BY <1>4, <2>6, RenamedDir DEF Rolls
  <2>7. CASE Stranded(w, G)
    <3>1. Archived(w, Less(disk, G)).live = 0
      BY <2>2, <2>3, <2>7, ArchivedIs DEF Stranded
    <3>2. \A v \in Tasks : log'[v].file = log[v].file
      BY <1>0, <2>7, CleanIs DEF Stranded
    <3>3. 0 \in Files \cup {0}
      OBVIOUS
    <3> QED BY <1>0, <2>6, <2>7, <3>1, <3>2, <3>3 DEF Stranded, SyncedOr
  <2>8. CASE \E g \in Files : \E H : Rotated(w, G, g, H)
    <3>0. PICK g \in Files : \E H : Rotated(w, G, g, H)
      BY <2>8
    <3>1. PICK H : Rotated(w, G, g, H)
      BY <3>0
    <3>2. /\ Turned(w, G, g) \in DirType /\ IsFiniteSet(Turned(w, G, g).arch)
          /\ Turned(w, G, g).live = g /\ Turned(w, G, g).arch = Archived(w, Less(disk, G)).arch
      BY <2>3, <3>1, TurnedIs DEF Rotated
    <3>3. disk'.live = g /\ disk'.arch \subseteq Archived(w, Less(disk, G)).arch
      BY <3>1, <3>2, LessIs DEF Rotated
    <3>4. \A v \in Tasks : log'[v].file = log[v].file \/ log'[v].file = g
      BY <1>0, <3>1 DEF Rotated, FileType
    <3> QED BY <2>6, <3>1, <3>3, <3>4 DEF Rotated, SyncedOr
  <2> QED BY <2>1, <2>5, <2>7, <2>8
<1> QED BY <1>1, <1>2, <1>3, <1>4 DEF Works

\* So does a crash.
LEMMA CrashDir == ASSUME LogTyped, LogTyped', Dir, Crash PROVE Dir'
<1>0. /\ disk.live \in Files \cup {0} /\ 0 \notin Files
      /\ lines \in [Files -> Seq(LineType)] /\ synced \in [Files -> Nat]
      /\ \A f \in Files : Len(lines[f]) \in Nat
  BY FilesIs
<1>1. \A w \in Tasks : log'[w].file = 0
  BY DEF Crash, Died, Closed
<1>4. CASE \E w \in Tasks : CutRotation(w)
  <2>1. PICK w \in Tasks : CutRotation(w)
    BY <1>4
  <2>2. PICK G : Halted(w, G)
    BY <2>1, HaltIs
  <2>3. log[w].file \in Files /\ log[w] \in FileType /\ log[w].next > 0
    BY <2>1, WorkerIs DEF CutRotation, Handling, LogTyped, WritersOK
  <2>4. disk'.live = 0 /\ disk'.arch \subseteq Archived(w, Less(disk, G)).arch
    <3>1. /\ Less(disk, G) \in DirType /\ IsFiniteSet(Less(disk, G).arch)
          /\ Less(disk, G).live # 0
      BY <2>2, FilesIs, LessIs DEF Halted
    <3> QED BY <2>2, <2>3, <3>1, ArchivedIs DEF Halted
  <2> QED BY <1>1, <2>2, <2>3, <2>4, RenamedDir DEF Halted, SyncedOr
<1>2. ASSUME disk' = disk, lines' = Kept(lines, disk, log') /\ UNCHANGED synced PROVE Dir'
  BY <1>0, <1>1, <1>2, DirShrinks DEF Dir
<1>3. ASSUME disk' = disk,
             \E f \in Files, k \in Nat, torn \in BOOLEAN :
              /\ f = disk.live /\ k \in synced[f]..Len(lines[f])
              /\ lines' = [Kept(lines, disk, log') EXCEPT ![f] = CutShort(f, k, torn)]
              /\ synced' = [synced EXCEPT ![f] = Durable(Len(lines'[f]))]
      PROVE  Dir'
  <2>1. PICK f \in Files, k \in Nat, torn \in BOOLEAN :
              /\ f = disk.live /\ k \in synced[f]..Len(lines[f])
              /\ lines' = [Kept(lines, disk, log') EXCEPT ![f] = CutShort(f, k, torn)]
              /\ synced' = [synced EXCEPT ![f] = Durable(Len(lines'[f]))]
    BY <1>3
  <2>2. k \in 0..Len(lines[f])
    BY <1>0, <2>1
  <2>3. CutShort(f, k, torn) \in Seq(LineType)
    BY <2>2, CutShortIs
  <2>4. Kept(lines, disk, log') \in [Files -> Seq(LineType)]
    BY <1>0, KeptIs
  <2>5. lines'[f] = CutShort(f, k, torn) /\ Len(lines'[f]) \in Nat
    BY <2>1, <2>3, <2>4
  <2>6. \A g \in Files \ {f} : /\ lines'[g] = Kept(lines, disk, log')[g]
                               /\ synced'[g] = synced[g]
    BY <1>0, <2>1, <2>4
  <2>7. \A g \in Files : Named(g)' => Named(g)
    BY <1>0, <1>1, <1>3 DEF Named
  <2>8. \A g \in Files : g # f => /\ Named(g)' => lines'[g] = lines[g]
                                  /\ ~Named(g)' => lines'[g] = <<>>
    <3>1. \A g \in Files :
             Named(g)' <=> g \in {disk.live} \cup {a.file : a \in disk.arch} \cup {log'[w].file : w \in Tasks}
      BY <1>1, <1>3 DEF Named
    <3>2. ASSUME NEW g \in Files
          PROVE  /\ Named(g)' => Kept(lines, disk, log')[g] = lines[g]
                 /\ ~Named(g)' => Kept(lines, disk, log')[g] = <<>>
      <4>1. Kept(lines, disk, log')[g] =
              IF g \in {disk.live} \cup {a.file : a \in disk.arch} \cup {log'[w].file : w \in Tasks}
              THEN lines[g] ELSE <<>>
        BY DEF Kept
      <4> QED BY <3>1, <4>1
    <3> QED BY <2>6, <3>2
  <2>9. synced'[f] <= Len(lines'[f])
    BY <1>0, <2>1, <2>5, DurableIs
  <2>10. Named(f)'
    BY <1>1, <1>3, <2>1 DEF Named
  <2> QED BY <1>1, <1>3, <2>6, <2>7, <2>8, <2>9, <2>10 DEF Dir
<1>5. CutWrite => disk' = disk
  BY DEF CutWrite
<1> QED BY <1>2, <1>3, <1>4, <1>5, CrashIs DEF Crash

\* And every step.
LEMMA NextDir == LogTyped /\ LogTyped' /\ Dir /\ [LogNext]_logVars => Dir'
<1> SUFFICES ASSUME LogTyped, LogTyped', Dir, [LogNext]_logVars PROVE Dir'
  OBVIOUS
<1>0. /\ disk.live \in Files \cup {0} /\ 0 \notin Files
      /\ lines \in [Files -> Seq(LineType)] /\ synced \in [Files -> Nat]
      /\ \A f \in Files : Len(lines[f]) \in Nat /\ Durable(Len(lines[f])) <= Len(lines[f])
      /\ disk \in DirType /\ log \in [Tasks -> FileType]
  BY FilesIs, DurableIs
<1>1. CASE Neutral
  <2>1. \A f \in Files : Named(f)' <=> Named(f)
    BY <1>1 DEF Neutral, Named
  <2>2. \A f \in Files : Named(f) => synced'[f] <= Len(lines[f])
    BY <1>0, <1>1 DEF Neutral, Dir
  <2> QED BY <1>1, <2>1, <2>2 DEF Neutral, Dir
<1>2. CASE \E w \in Tasks : FinalSync(w)
  <2>1. PICK w \in Tasks : FinalSync(w)
    BY <1>2
  <2>2. /\ disk' = disk /\ lines' = Kept(lines, disk', log')
        /\ log' = [log EXCEPT ![w] = Closed]
        /\ \/ synced' = synced
           \/ /\ log[w].file # 0
              /\ synced' = [synced EXCEPT ![log[w].file] = Durable(Len(lines[log[w].file]))]
    BY <2>1 DEF FinalSync
  <2>3. \A v \in Tasks : log'[v].file \in {log[v].file, disk.live, 0}
    BY <1>0, <2>2 DEF Closed
  <2>4. \A f \in Files : synced'[f] \in {synced[f], Durable(Len(lines[f]))}
    BY <1>0, <2>2
  <2>5. \A f \in Files : Named(f) => synced'[f] <= Len(lines[f])
    BY <1>0, <2>4 DEF Dir
  <2> QED BY <1>0, <2>2, <2>3, <2>5, DirShrinks
<1>3. CASE \E w \in Tasks : Works(w)
  BY <1>3, WorksDir
<1>4. CASE RemoveDir
  <2>1. /\ disk' = NoDir /\ lines' = Kept(lines, disk', log') /\ log' = log /\ synced' = synced
    BY <1>4 DEF RemoveDir, writerVars
  <2>2. disk'.live = 0 /\ disk'.arch = {}
    BY <2>1 DEF NoDir
  <2> QED BY <1>0, <2>1, <2>2, DirShrinks DEF Dir
<1>5. CASE Sweep
  <2>1. lines' = Kept(lines, disk', log') /\ log' = log /\ synced' = synced
    BY <1>5 DEF Sweep, writerVars
  <2>2. disk' = disk \/ (\E a : disk' = [disk EXCEPT !.arch = @ \ {a}]) \/ disk' = [disk EXCEPT !.live = 0]
    BY <1>5 DEF Sweep
  <2>3. disk'.arch \subseteq disk.arch /\ disk'.live \in {disk.live, 0}
    BY <1>0, <2>2 DEF DirType
  <2> QED BY <1>0, <2>1, <2>3, DirShrinks DEF Dir
<1> QED BY <1>1, <1>2, <1>3, <1>4, <1>5, CrashDir, StepKinds

\* The directory starts in order.
LEMMA InitDir == LogInit => Dir
<1> SUFFICES ASSUME LogInit PROVE Dir
  OBVIOUS
<1>1. disk.live = 0 /\ disk.arch = {} /\ \A w \in Tasks : log[w].file = 0
  BY DEF LogInit, NoDir, Closed
<1>2. \A f \in Files : lines[f] = <<>> /\ synced[f] = 0
  BY DEF LogInit
<1>3. \A f \in Files : ~Named(f)
  BY <1>1, NamesApart DEF Named
<1> QED BY <1>1, <1>2, <1>3 DEF Dir

\* What the runs check of the types follows.
LEMMA TypesHold == LogTyped /\ Dir => LogTypes
<1> SUFFICES ASSUME LogTyped, Dir PROVE LogTypes
  OBVIOUS
<1>1. /\ {up, started, swept, lost, hurt} \subseteq BOOLEAN
      /\ {crashes, faults, crashes + faults} \subseteq 0..MaxMishaps /\ deletes \in 0..1
      /\ spilled \subseteq Recs
  BY NamesApart DEF LogTyped, ProcOK, ServiceOK, RowsOK, DeleteOK
<1>2. /\ slot \in Tasks \cup {0} /\ dying \in Tasks \cup {0}
      /\ pc \in [Clients -> Over \cup {"held", "waiting", "closed", "reopen", "fresh", "waiting2"}]
      /\ hold \in [Clients -> Tasks \cup {0}]
      /\ dpc \in {"idle", "forget", "send", "wait", "remove"}
      /\ rows \in [Recs -> Nat]
  BY DEF LogTyped, ServiceOK, DeleteOK, ClientOK, RowsOK, Stops
<1>3. /\ chan \in [Tasks -> {"none", "open", "gone"}]
      /\ \A w \in Tasks : Len(queue[w]) <= Capacity /\ Len(batch[w]) <= MaxBatch
      /\ closing \in [Tasks -> BOOLEAN]
  BY DEF LogTyped, ChanOK, WritersOK
<1>4. mode \in [Tasks -> {"none", "wait", "work", "copied", "plain", "wrote", "trimmed",
                          "leave", "last", "exit"}]
  <2>1. WriterModes = {"none", "wait", "work", "copied", "plain", "wrote", "trimmed",
                 "leave", "last", "exit"}
    BY DEF WriterModes, Handling
  <2> QED BY <2>1 DEF LogTyped, WritersOK
<1>5. \A w \in Tasks : log[w].file \in Files \cup {0} /\ {log[w].next, log[w].bytes} \subseteq Nat
  BY DEF LogTyped, WritersOK, FileType
<1>6. disk.live \in Files \cup {0} /\ \A a \in disk.arch : a.file \in Files
  BY FilesIs
<1>7. \A f \in Files \ FreeFiles : synced[f] \in 0..Len(lines[f])
  BY FilesIs, NamedIs DEF Dir
<1> QED BY <1>1, <1>2, <1>3, <1>4, <1>5, <1>6, <1>7 DEF LogTypes

----------------------------------------------------------------------------
(* One writer takes messages, until the conversation is deleted. *)

\* One channel at most is open until the deletion, across closes, reopens, crashes and boots.
LEMMA NextSolo == LogTyped /\ Solo /\ [LogNext]_logVars => Solo'
<1> SUFFICES ASSUME LogTyped, Solo, [LogNext]_logVars PROVE Solo'
  OBVIOUS
<1> USE DEF logVars, procVars, serviceVars, deleteVars, chanVars, writerVars
<1>0. /\ slot \in Tasks \cup {0} /\ 0 \notin Tasks
      /\ chan \in [Tasks -> {"none", "open", "gone"}] /\ mode \in [Tasks -> WriterModes]
      /\ deletes \in 0..1
      /\ \A w \in Tasks : mode[w] = "none" => chan[w] # "open"
  BY NamesApart DEF LogTyped, ServiceOK, ChanOK, WritersOK, DeleteOK, ModesAgree, Agrees
<1>1. deletes' = 0 => dpc' = "idle" /\ dying' = 0
  <2>1. CASE UNCHANGED <<dpc, dying, deletes>>
    BY <2>1 DEF Solo
  <2>2. CASE DeleteRows \/ Forget \/ SendClose \/ ForgetTimesOut \/ RemoveDir
    BY <1>0, <2>2 DEF DeleteRows, Forget, SendClose, ForgetTimesOut, RemoveDir, Solo
  <2>3. CASE (\E w \in Tasks : FinalSync(w)) \/ Crash
    BY <2>3 DEF FinalSync, Crash, Died, Solo
  <2> QED
    BY ZenonT(40), <2>1, <2>2, <2>3 DEF LogNext, Open, Collect, Send, Tracked, Reopen, Take,
       TimerSync, Idle,
       DropRx, EndBatch, SyncMsg, CloseMsg, SkipMsg, ensure_log, Copy, Write, AfterWrite, Notice,
       Sweep, Boot
<1>2. \/ UNCHANGED <<chan, slot>>
      \/ ~Live(slot) /\ \E w \in Tasks : \E msgs : Spawned(w, msgs)
      \/ UNCHANGED slot /\ \E w \in Tasks : chan' = [chan EXCEPT ![w] = "gone"]
      \/ chan' = [w \in Tasks |-> "none"]
      \/ deletes # 0 /\ deletes' = deletes
  <2>1. CASE \E c \in Clients : Open(c) \/ Collect(c) \/ Send(c) \/ Tracked(c) \/ Reopen(c)
    BY <2>1 DEF Open, Collect, Send, Tracked, Reopen
  <2>2. CASE DeleteRows \/ Forget \/ SendClose \/ ForgetTimesOut \/ RemoveDir
    BY <2>2 DEF DeleteRows, Forget, SendClose, ForgetTimesOut, RemoveDir, Solo
  <2>3. CASE \E w \in Tasks : DropRx(w) \/ EndBatch(w)
    BY <2>3 DEF DropRx, EndBatch
  <2>4. CASE Crash
    BY <2>4 DEF Crash, Died
  <2>5. CASE UNCHANGED logVars
    BY <2>5
  <2>6. ASSUME NEW w \in Tasks,
               \/ Take(w) \/ TimerSync(w) \/ Idle(w) \/ FinalSync(w) \/ SyncMsg(w) \/ CloseMsg(w)
               \/ SkipMsg(w) \/ ensure_log(w) \/ Copy(w) \/ Write(w) \/ AfterWrite(w) \/ Notice(w)
        PROVE  UNCHANGED <<chan, slot>>
    BY Zenon, <2>6 DEF Take, TimerSync, Idle, FinalSync, SyncMsg, CloseMsg, SkipMsg, ensure_log,
       Copy,
       Write, AfterWrite, Notice
  <2>7. CASE Sweep \/ Boot
    BY <2>7 DEF Sweep, Boot
  <2> QED BY <2>1, <2>2, <2>3, <2>4, <2>5, <2>6, <2>7 DEF LogNext
<1>3. deletes' = 0 => \A w \in Tasks : chan'[w] = "open" => w = slot'
  <2> SUFFICES ASSUME deletes' = 0, NEW w \in Tasks, chan'[w] = "open" PROVE w = slot'
    OBVIOUS
  <2>1. \A v \in Tasks : chan[v] = "open" => v = slot
    BY NoWayBack DEF Solo
  <2>2. CASE ~Live(slot) /\ \E v \in Tasks : \E msgs : Spawned(v, msgs)
    <3>1. PICK v \in Tasks : slot' = v /\ chan' = [chan EXCEPT ![v] = "open"]
      BY <2>2 DEF Spawned
    <3>2. chan[w] # "open"
      BY <1>0, <2>1, <2>2 DEF Live
    <3> QED BY <1>0, <3>1, <3>2
  <2>3. CASE UNCHANGED <<chan, slot>>
    BY <2>1, <2>3
  <2>4. CASE UNCHANGED slot /\ \E v \in Tasks : chan' = [chan EXCEPT ![v] = "gone"]
    <3>1. PICK v \in Tasks : slot' = slot /\ chan' = [chan EXCEPT ![v] = "gone"]
      BY <2>4
    <3>2. chan[w] = "open"
      BY <1>0, <3>1
    <3> QED BY <2>1, <3>1, <3>2
  <2>5. CASE chan' = [v \in Tasks |-> "none"]
    BY <2>5
  <2>6. CASE deletes # 0 /\ deletes' = deletes
    BY <2>6
  <2> QED BY <1>2, <2>2, <2>3, <2>4, <2>5, <2>6
<1>4. ~up' => slot' = 0 /\ \A w \in Tasks : mode'[w] = "none"
  <2> SUFFICES ASSUME ~up' PROVE slot' = 0 /\ \A w \in Tasks : mode'[w] = "none"
    OBVIOUS
  <2>1. CASE Crash
    BY <2>1 DEF Crash, Died
  <2>2. CASE ~up
    <3>1. slot = 0 /\ \A w \in Tasks : mode[w] = "none"
      BY <2>2 DEF Solo
    <3>2. Handling = {"copied", "plain", "wrote", "trimmed"}
      BY DEF Handling
    <3>3. \A w \in Tasks : ~(\/ Take(w) \/ TimerSync(w) \/ Idle(w) \/ DropRx(w) \/ FinalSync(w)
                             \/ EndBatch(w) \/ SyncMsg(w) \/ CloseMsg(w) \/ SkipMsg(w)
                             \/ ensure_log(w) \/ Copy(w) \/ Write(w) \/ AfterWrite(w) \/ Notice(w))
      BY ZenonT(40), <3>1 DEF Take, TimerSync, Idle, DropRx, FinalSync, EndBatch, SyncMsg, CloseMsg,
         SkipMsg, ensure_log, Copy, Write, AfterWrite, Notice, Working
    <3>4. UNCHANGED <<slot, mode>>
      BY <2>2, <3>3 DEF LogNext, Open, Collect, Send, Tracked, Reopen, DeleteRows, Forget,
         SendClose,
         ForgetTimesOut, RemoveDir, Crash, Died, Sweep, Boot
    <3> QED BY <3>1, <3>4
  <2>3. ASSUME up PROVE Crash
    <3>1. up' # up
      BY <2>3
    <3> QED
      BY ZenonT(40), <2>3, <3>1 DEF LogNext, Open, Collect, Send, Tracked, Reopen, Take, TimerSync,
         Idle, DropRx,
         FinalSync, EndBatch, SyncMsg, CloseMsg, SkipMsg, ensure_log, Copy, Write, AfterWrite, Notice,
         DeleteRows, Forget, SendClose, ForgetTimesOut, RemoveDir, Sweep, Boot
  <2> QED BY <2>1, <2>2, <2>3
<1> QED BY <1>1, <1>3, <1>4 DEF Solo

\* No channel is open at first.
LEMMA InitSolo == LogInit => Solo
BY DEF LogInit, Solo

\* Before the deletion the one open writer is the slot's.
LEMMA OnlyOne ==
  ASSUME Solo, deletes = 0, NEW w \in Tasks, chan[w] = "open"
  PROVE  \A v \in Tasks \ {w} : chan[v] # "open"
BY DEF Solo

----------------------------------------------------------------------------
(* The archived segments, of which the oldest go and to which the live one is added. *)

\* Archived segments without their oldest still follow each other.
LEMMA OldestGone ==
  ASSUME NEW arch \in SUBSET SegType, NEW ls, Chained(arch, ls),
         NEW G, \A x \in G : \A y \in arch \ G : x.first <= y.first,
         NEW ls2, \A a \in arch \ G : ls2[a.file] = ls[a.file]
  PROVE  /\ Chained(arch \ G, ls2)
         /\ \A lead \in Nat : Leads(arch, lead) => Leads(arch \ G, lead)
<1>0. \A a \in arch : /\ a.first \in Nat /\ a.last \in Nat /\ a.first <= a.last
  BY DEF SegType, Chained
<1>1. ASSUME NEW x \in G \cap arch, NEW y \in arch \ G PROVE x.last < y.first
  <2>1. x.first <= y.first /\ x # y
    BY <1>1
  <2>2. x.last < y.first \/ y.last < x.first
    BY <1>1, <2>1 DEF Chained
  <2> QED BY <1>0, <1>1, <2>1, <2>2
<1>2. \A a \in arch \ G :
         /\ 1 <= a.first /\ a.first <= a.last /\ Len(ls2[a.file]) = a.last - a.first + 1
         /\ \A i \in 1..Len(ls2[a.file]) : ls2[a.file][i].seq = a.first + i - 1
  BY DEF Chained
<1>3. \A a, b \in arch \ G : a = b \/ a.last < b.first \/ b.last < a.first
  BY DEF Chained
<1>4. ASSUME NEW a \in arch \ G, NEW b \in arch \ G, NEW n \in a.first..b.last
      PROVE  \E c \in arch \ G : n \in c.first..c.last
  <2>1. PICK c \in arch : n \in c.first..c.last
    BY <1>4 DEF Chained
  <2>2. c \notin G
    <3> SUFFICES ASSUME c \in G PROVE FALSE
      OBVIOUS
    <3>1. c.last < a.first
      BY <1>1, <1>4
    <3> QED BY <1>0, <1>4, <2>1, <3>1
  <2> QED BY <2>1, <2>2
<1>5. ASSUME NEW lead \in Nat, Leads(arch, lead), arch \ G # {} PROVE \E a \in arch \ G : a.last = lead
  <2>1. PICK m \in arch : m.last = lead
    BY <1>5 DEF Leads
  <2>2. PICK y \in arch \ G : TRUE
    BY <1>5
  <2>3. m \notin G
    <3> SUFFICES ASSUME m \in G PROVE FALSE
      OBVIOUS
    <3>1. m.last < y.first
      BY <1>1, <2>2
    <3>2. y.last <= lead
      BY <1>5, <2>2 DEF Leads
    <3> QED BY <1>0, <2>1, <2>2, <3>1, <3>2
  <2> QED BY <2>1, <2>3
<1>6. Chained(arch \ G, ls2)
  BY <1>2, <1>3, <1>4 DEF Chained
<1>7. \A lead \in Nat : Leads(arch, lead) => Leads(arch \ G, lead)
  BY <1>5 DEF Leads
<1> QED BY <1>6, <1>7

\* Archived segments with the live one added still follow each other.
LEMMA NewestAdded ==
  ASSUME NEW arch \in SUBSET SegType, NEW ls \in [Files -> Seq(LineType)], Chained(arch, ls),
         NEW lead \in Nat, Leads(arch, lead),
         NEW x \in SegType, x.first = lead + 1, x.last = lead + Len(ls[x.file]), ls[x.file] # <<>>,
         \A i \in 1..Len(ls[x.file]) : ls[x.file][i].seq = lead + i
  PROVE  Chained(arch \cup {x}, ls) /\ Leads(arch \cup {x}, x.last)
<1>0. \A a \in arch : /\ a.first \in Nat /\ a.last \in Nat /\ a.first <= a.last /\ a.last <= lead
  BY DEF SegType, Chained, Leads
<1>1. /\ x.file \in Files /\ Len(ls[x.file]) \in Nat \ {0} /\ x.first \in Nat /\ x.last \in Nat
  BY EmptySeq DEF SegType
<1>2. \A a \in arch \cup {x} :
         /\ 1 <= a.first /\ a.first <= a.last /\ Len(ls[a.file]) = a.last - a.first + 1
         /\ \A i \in 1..Len(ls[a.file]) : ls[a.file][i].seq = a.first + i - 1
  <2>1. /\ 1 <= x.first /\ x.first <= x.last /\ Len(ls[x.file]) = x.last - x.first + 1
    BY <1>1
  <2>2. ASSUME NEW i \in 1..Len(ls[x.file]) PROVE ls[x.file][i].seq = x.first + i - 1
    BY <1>1, <2>2
  <2> QED BY <2>1, <2>2 DEF Chained
<1>3. \A a, b \in arch \cup {x} : a = b \/ a.last < b.first \/ b.last < a.first
  <2>1. \A a \in arch : a.last < x.first
    BY <1>0
  <2> QED BY <2>1 DEF Chained
<1>4. ASSUME NEW a \in arch \cup {x}, NEW b \in arch \cup {x}, NEW n \in a.first..b.last
      PROVE  \E c \in arch \cup {x} : n \in c.first..c.last
  <2>1. CASE a \in arch /\ n <= lead
    <3>1. PICK m \in arch : m.last = lead
      BY <2>1 DEF Leads
    <3>2. n \in a.first..m.last
      BY <1>0, <1>1, <1>4, <2>1, <3>1
    <3> QED BY <2>1, <3>1, <3>2 DEF Chained
  <2>2. CASE n > lead
    <3>1. b.last <= x.last
      BY <1>0, <1>1
    <3>2. b.last \in Nat /\ a.first \in Nat
      BY <1>0, <1>1
    <3>3. n \in x.first..x.last
      BY <1>1, <1>4, <2>2, <3>1, <3>2
    <3> QED BY <3>3
  <2>3. n \in Int /\ (a = x => n > lead)
    BY <1>0, <1>1, <1>4
  <2> QED BY <2>1, <2>2, <2>3
<1>5. Chained(arch \cup {x}, ls)
  BY <1>2, <1>3, <1>4 DEF Chained
<1>6. Leads(arch \cup {x}, x.last)
  BY <1>0, <1>1 DEF Leads
<1> QED BY <1>5, <1>6

----------------------------------------------------------------------------
(* The numbers: the archived segments, the live one after them, and what an open writer knows. *)

\* The writer at work is the open one: it has the live segment, and the rest keep out.
LEMMA OpenWriter ==
  ASSUME LogTyped, Solo, deletes = 0, Numbers, NEW w \in Tasks, chan[w] = "open", log[w].file # 0
  PROVE  /\ disk.live \in Files /\ log[w].file = disk.live
         /\ \A v \in Tasks \ {w} : chan[v] # "open"
         /\ \E lead \in Nat :
              /\ Leads(disk.arch, lead)
              /\ \A i \in 1..Len(lines[disk.live]) : /\ Parses(lines[disk.live][i])
                                                     /\ lines[disk.live][i].seq = lead + i
              /\ log[w].bytes = Len(lines[disk.live])
              /\ log[w].next = lead + Len(lines[disk.live]) + 1
              /\ log[w].first = IF lines[disk.live] = <<>> THEN 0 ELSE lead + 1
<1>1. disk.live # 0
  BY DEF Numbers
<1>2. PICK lead \in Nat : Ready(lead)
  BY <1>1 DEF Numbers
<1>3. \A v \in Tasks \ {w} : chan[v] # "open"
  BY OnlyOne
<1> QED BY <1>1, <1>2, <1>3, FilesIs DEF Ready

\* One writer leads on from lead in the state after a step.
LEMMA NumbersAt ==
  ASSUME LogTyped', NEW w \in Tasks, \A v \in Tasks \ {w} : chan'[v] # "open",
         Chained(disk'.arch, lines'), disk'.live \in Files,
         NEW lead \in Nat, Leads(disk'.arch, lead),
         \A i \in 1..Len(lines'[disk'.live]) : /\ Parses(lines'[disk'.live][i])
                                               /\ lines'[disk'.live][i].seq = lead + i,
         log'[w].file = disk'.live,
         log'[w].bytes = Len(lines'[disk'.live]),
         log'[w].next = lead + Len(lines'[disk'.live]) + 1,
         log'[w].first = IF lines'[disk'.live] = <<>> THEN 0 ELSE lead + 1
  PROVE  Numbers'
<1>1. Ready(lead)'
  BY DEF Ready
<1>2. disk'.live # 0
  BY NamesApart
<1> QED BY <1>1, <1>2 DEF Numbers

\* Who opens the live segment finds the number it goes on with.
LEMMA OpensNumbers ==
  ASSUME LogTyped, LogTyped', Solo, Dir, deletes = 0, Numbers,
         NEW w \in Tasks, chan[w] = "open", UNCHANGED chan, Opens(w)
  PROVE  Numbers'
<1>0. /\ disk.live \in Files \cup {0} /\ 0 \notin Files /\ disk \in DirType
      /\ lines \in [Files -> Seq(LineType)] /\ log \in [Tasks -> FileType]
      /\ \A f \in Files : Len(lines[f]) \in Nat
      /\ disk.arch \in SUBSET SegType
      /\ \A a \in disk.arch : a.file \in Files
  BY FilesIs
<1>1. PICK f \in Files, s \in Seq(LineType) : Opened(w, f, s)
  BY DEF Opens
<1>2. /\ disk'.live = f /\ disk'.arch = disk.arch
      /\ lines'[f] = s /\ \A g \in Files \ {f} : lines'[g] = lines[g]
  BY <1>0, <1>1 DEF Opened, DirType
<1>3. \A v \in Tasks \ {w} : chan'[v] # "open"
  BY OnlyOne
<1>4. \A a \in disk.arch : a.file # f
  BY <1>0, <1>1, NamedIs DEF Opened, Dir, Named
<1>5. Chained(disk'.arch, lines')
  <2>1. \A a \in disk.arch \ {} : lines'[a.file] = lines[a.file]
    BY <1>0, <1>2, <1>4
  <2> HIDE DEF Chained
  <2>2. Chained(disk.arch \ {}, lines')
    <3>1. \A x \in {} : \A y \in disk.arch \ {} : x.first <= y.first
      OBVIOUS
    <3>2. Chained(disk.arch, lines)
      BY DEF Numbers
    <3> QED BY <1>0, <2>1, <3>1, <3>2, OldestGone
  <2>3. disk.arch \ {} = disk'.arch
    BY <1>2
  <2> QED BY <2>2, <2>3
<1>6. PICK next \in Nat, first \in Nat :
          /\ next = (IF s = <<>> THEN archived_last_seq ELSE s[Len(s)].seq) + 1
          /\ first = head_seq(s)
          /\ log' = [log EXCEPT ![w] = [file |-> f, next |-> next, bytes |-> Len(s),
                       first |-> first, dirty |-> FALSE, gaveUp |-> FALSE]]
  BY <1>1 DEF Opened
<1>7. /\ log'[w].file = f /\ log'[w].next = next /\ log'[w].bytes = Len(s) /\ log'[w].first = first
  BY <1>0, <1>6
<1>8. CASE s = <<>>
  <2>1. archived_last_seq \in Nat /\ Leads(disk.arch, archived_last_seq)
    BY LastSeqIs DEF LogTyped, Leads
  <2>2. Len(lines'[disk'.live]) = 0 /\ lines'[disk'.live] = <<>>
    BY <1>2, <1>8
  <2>3. log'[w].next = archived_last_seq + 0 + 1 /\ log'[w].first = 0 /\ log'[w].bytes = 0
    BY <1>6, <1>7, <1>8, <2>1 DEF head_seq
  <2>4. \A i \in 1..Len(lines'[disk'.live]) : /\ Parses(lines'[disk'.live][i])
                                              /\ lines'[disk'.live][i].seq = archived_last_seq + i
    BY <2>2
  <2> QED BY <1>2, <1>3, <1>5, <1>7, <2>1, <2>2, <2>3, <2>4, NumbersAt
<1>9. CASE s # <<>>
  <2>1. disk.live # 0 /\ f = disk.live /\ s = repair_tail(lines[f])
    BY <1>1, <1>9 DEF Opened
  <2>2. PICK lead \in Nat : Ready(lead)
    BY <2>1 DEF Numbers
  <2>3. Len(s) \in 1..Len(lines[f]) /\ Len(s) = LastParsed(lines[f])
    BY <1>0, <1>9, <2>1, RepairIs, EmptySeq
  <2>4. ASSUME NEW i \in 1..Len(s) PROVE Parses(s[i]) /\ s[i].seq = lead + i
    <3>1. s[i] = lines[f][i] /\ i \in 1..Len(lines[f])
      <4>1. i \in 1..LastParsed(lines[f]) /\ i \in 1..Len(lines[f])
        BY <1>0, <2>3, <2>4
      <4>2. \A j \in 1..LastParsed(lines[f]) : repair_tail(lines[f])[j] = lines[f][j]
        BY <1>0, RepairIs
      <4> QED BY <2>1, <4>1, <4>2
    <3>2. Parses(lines[f][i])
      <4>1. CASE i = Len(s)
        <5>1. LastParsed(lines[f]) # 0 => Parses(lines[f][LastParsed(lines[f])])
          BY <1>0, RepairIs
        <5>2. LastParsed(lines[f]) # 0 /\ i = LastParsed(lines[f])
          BY <2>3, <2>4, <4>1
        <5> QED BY <5>1, <5>2
      <4>2. CASE i < Len(lines[f])
        BY <2>1, <2>2, <3>1, <4>2 DEF Ready
      <4> QED BY <1>0, <2>3, <2>4, <4>1, <4>2
    <3> QED BY <2>1, <2>2, <3>1, <3>2 DEF Ready
  <2>5. Leads(disk'.arch, lead)
    BY <1>2, <2>2 DEF Ready
  <2>6. 1 \in 1..Len(s) /\ Len(s) \in 1..Len(s)
    BY <2>3
  <2>7. s[1].seq = lead + 1 /\ s[Len(s)].seq = lead + Len(s)
    BY <2>4, <2>6
  <2>8. log'[w].next = lead + Len(s) + 1 /\ log'[w].first = lead + 1
    BY <1>6, <1>7, <1>9, <2>7 DEF head_seq
  <2> QED BY <1>2, <1>3, <1>5, <1>7, <1>9, <2>4, <2>5, <2>8, NumbersAt
<1> QED BY <1>8, <1>9

\* A record has the next number.
LEMMA GrowsNumbers ==
  ASSUME LogTyped, LogTyped', Solo, Dir, deletes = 0, Numbers,
         NEW w \in Tasks, chan[w] = "open", UNCHANGED chan, log[w].file # 0,
         NEW r \in Words, NEW ref \in SUBSET Images, Grown(w, r, ref)
  PROVE  Numbers'
<1>0. /\ 0 \notin Files /\ lines \in [Files -> Seq(LineType)] /\ log \in [Tasks -> FileType]
      /\ \A f \in Files : Len(lines[f]) \in Nat
      /\ disk.arch \in SUBSET SegType
      /\ \A a \in disk.arch : a.file \in Files
  BY FilesIs DEF DirType
<1>1. /\ disk.live \in Files /\ log[w].file = disk.live
      /\ \A v \in Tasks \ {w} : chan[v] # "open"
  BY OpenWriter
<1>2. PICK lead \in Nat :
        /\ Leads(disk.arch, lead)
        /\ \A i \in 1..Len(lines[disk.live]) : /\ Parses(lines[disk.live][i])
                                               /\ lines[disk.live][i].seq = lead + i
        /\ log[w].bytes = Len(lines[disk.live])
        /\ log[w].next = lead + Len(lines[disk.live]) + 1
        /\ log[w].first = IF lines[disk.live] = <<>> THEN 0 ELSE lead + 1
  BY OpenWriter
<1> DEFINE f == disk.live
           s == lines[f]
           l == Line(log[w].next, r, ref)
<1>3. s \in Seq(LineType) /\ Len(s) \in Nat /\ log[w].next \in Nat
  BY <1>0, <1>1, <1>2
<1>4. l \in LineType /\ l.seq = log[w].next /\ Parses(l)
  BY <1>2, <1>3, LineIs DEF Parses
<1>5. s = <<>> \/ s[Len(s)] # Cut
  <2>1. CASE s # <<>>
    <3>1. Len(s) \in 1..Len(s)
      BY <1>3, <2>1, EmptySeq
    <3> QED BY <1>2, <3>1, LineIs
  <2> QED BY <2>1
<1>6. lines'[f] = Append(s, l)
  <2>1. lines'[f] = Appended(s, l)
    BY <1>0, <1>1 DEF Grown
  <2> QED BY <1>3, <1>4, <1>5, <2>1, AppendedIs
<1>7. \A a \in disk.arch : lines'[a.file] = lines[a.file]
  BY <1>0, <1>1 DEF Grown, Dir
<1>8. /\ Len(lines'[f]) = Len(s) + 1 /\ lines'[f] # <<>>
      /\ \A i \in 1..Len(s) : lines'[f][i] = s[i]
      /\ lines'[f][Len(s) + 1] = l
  BY <1>3, <1>4, <1>6, AppendIs
<1>9. ASSUME NEW i \in 1..Len(lines'[f]) PROVE Parses(lines'[f][i]) /\ lines'[f][i].seq = lead + i
  <2>1. CASE i \in 1..Len(s)
    BY <1>2, <1>8, <2>1
  <2>2. CASE i = Len(s) + 1
    BY <1>2, <1>3, <1>4, <1>8, <2>2
  <2> QED BY <1>3, <1>8, <1>9, <2>1, <2>2
<1>10. disk' = disk /\ Chained(disk.arch, lines')
  <2>1. disk' = disk
    BY DEF Grown
  <2>2. Chained(disk.arch, lines)
    BY DEF Numbers
  <2>3. Chained(disk.arch \ {}, lines')
    BY <1>0, <1>7, <2>2, OldestGone
  <2>4. disk.arch \ {} = disk.arch
    OBVIOUS
  <2> QED BY <2>1, <2>3, <2>4
<1>11. /\ log'[w].file = f /\ log'[w].bytes = Len(lines'[f]) /\ log'[w].next = lead + Len(lines'[f]) + 1
       /\ log'[w].first = lead + 1
  <2>1. /\ log'[w].file = f /\ log'[w].bytes = log[w].bytes + 1 /\ log'[w].next = log[w].next + 1
        /\ log'[w].first = IF log[w].first = 0 THEN log[w].next ELSE log[w].first
    BY <1>1 DEF Grown
  <2>2. log'[w].first = lead + 1
    <3>1. CASE s = <<>>
      BY <1>2, <2>1, <3>1
    <3>2. CASE s # <<>>
      BY <1>2, <2>1, <3>2
    <3> QED BY <3>1, <3>2
  <2> QED BY <1>2, <1>3, <1>8, <2>1, <2>2
<1>12. \A v \in Tasks \ {w} : chan'[v] # "open"
  BY <1>1
<1> QED BY <1>1, <1>2, <1>8, <1>9, <1>10, <1>11, <1>12, NumbersAt

\* The segments are what they were: nothing was trimmed, and their files were not touched.
LEMMA ChainedStill ==
  ASSUME LogTyped, Chained(disk.arch, lines), disk'.arch = disk.arch,
         \A a \in disk.arch : lines'[a.file] = lines[a.file]
  PROVE  Chained(disk'.arch, lines')
<1>1. disk.arch \in SUBSET SegType
  BY FilesIs DEF DirType
<1>2. Chained(disk.arch \ {}, lines')
  BY <1>1, OldestGone
<1>3. disk.arch \ {} = disk'.arch
  OBVIOUS
<1> QED BY <1>2, <1>3

\* A line cut short, or a realigned file, leaves the numbers before it.
LEMMA CutsNumbers ==
  ASSUME LogTyped, LogTyped', Solo, Dir, deletes = 0, ~hurt, Numbers,
         NEW w \in Tasks, chan[w] = "open", UNCHANGED chan, log[w].file # 0, Cuts(w)
  PROVE  Numbers'
<1>0. /\ 0 \notin Files /\ lines \in [Files -> Seq(LineType)] /\ log \in [Tasks -> FileType]
      /\ disk \in DirType
      /\ \A a \in disk.arch : a.file \in Files
  BY FilesIs
<1>1. /\ disk.live \in Files /\ log[w].file = disk.live
      /\ \A v \in Tasks \ {w} : chan[v] # "open"
  BY OpenWriter
<1>2. PICK lead \in Nat :
        /\ Leads(disk.arch, lead)
        /\ \A i \in 1..Len(lines[disk.live]) : /\ Parses(lines[disk.live][i])
                                               /\ lines[disk.live][i].seq = lead + i
        /\ log[w].bytes = Len(lines[disk.live])
        /\ log[w].next = lead + Len(lines[disk.live]) + 1
        /\ log[w].first = IF lines[disk.live] = <<>> THEN 0 ELSE lead + 1
  BY OpenWriter
<1>3. PICK f \in Files, t \in Seq(LineType) : Realigned(w, f, t)
  BY DEF Cuts
<1>4. f = disk.live /\ t = lines[f]
  BY <1>0, <1>1, <1>2, <1>3 DEF Realigned
<1>5. /\ disk'.live = disk.live /\ disk'.arch = disk.arch
      /\ log'[w].file = log[w].file /\ log'[w].bytes = log[w].bytes /\ log'[w].next = log[w].next
      /\ log'[w].first = log[w].first
  BY <1>0, <1>1, <1>3, <1>4 DEF Realigned, DirType, FileType
<1>6. \A g \in Files : Named(g)' => lines'[g] = lines[g]
  <2>1. lines' = Kept([lines EXCEPT ![f] = t], disk', log')
    BY <1>3 DEF Realigned
  <2>2. [lines EXCEPT ![f] = t] = lines
    BY <1>0, <1>4
  <2> QED BY <1>0, <2>1, <2>2, KeptNamed
<1>7. lines'[disk'.live] = lines[disk.live] /\ \A a \in disk.arch : lines'[a.file] = lines[a.file]
  BY <1>0, <1>1, <1>5, <1>6 DEF Named
<1>8. Chained(disk'.arch, lines')
  BY <1>5, <1>7, ChainedStill DEF Numbers
<1>9. \A v \in Tasks \ {w} : chan'[v] # "open"
  BY <1>1
<1>10. Leads(disk'.arch, lead)
  BY <1>2, <1>5
<1> QED BY <1>1, <1>2, <1>5, <1>7, <1>8, <1>9, <1>10, NumbersAt

\* A rotation, the cap before it having taken the oldest segments G, archives the live segment
\* at the end of the numbers.
LEMMA RenamedNumbers ==
  ASSUME LogTyped, Solo, deletes = 0, Numbers, NEW w \in Tasks, chan[w] = "open",
         log[w].file # 0, disk.live # 0, log[w].bytes >= RotateBytes, NEW G, OldestOf(disk, G)
  PROVE  \E top \in Nat :
           LET A == Archived(w, Less(disk, G)).arch IN
           /\ A \in SUBSET SegType /\ Chained(A, lines) /\ Leads(A, top)
           /\ log[w].next = top + 1
           /\ \E a \in A : a.last = top /\ a.file = disk.live
           /\ \A a \in A : a.file = disk.live \/ a \in disk.arch
<1>0. /\ 0 \notin Files /\ lines \in [Files -> Seq(LineType)] /\ log \in [Tasks -> FileType]
      /\ \A f \in Files : Len(lines[f]) \in Nat
      /\ disk \in DirType /\ IsFiniteSet(disk.arch) /\ disk.arch \in SUBSET SegType
      /\ \A a \in disk.arch : a.file \in Files
      /\ RotateBytes \in Nat \ {0}
  BY FilesIs, SessionLogAssumption DEF DirType
<1>1. disk.live \in Files /\ log[w].file = disk.live
  BY OpenWriter
<1>2. PICK lead \in Nat :
        /\ Leads(disk.arch, lead)
        /\ \A i \in 1..Len(lines[disk.live]) : /\ Parses(lines[disk.live][i])
                                               /\ lines[disk.live][i].seq = lead + i
        /\ log[w].bytes = Len(lines[disk.live])
        /\ log[w].next = lead + Len(lines[disk.live]) + 1
        /\ log[w].first = IF lines[disk.live] = <<>> THEN 0 ELSE lead + 1
  BY OpenWriter
<1>5. Chained(disk.arch, lines)
  BY DEF Numbers
<1>7. /\ Less(disk, G).arch = disk.arch \ G /\ Less(disk, G).live = disk.live
      /\ Less(disk, G) \in DirType /\ IsFiniteSet(Less(disk, G).arch)
      /\ \A x \in G : \A y \in disk.arch \ G : x.first <= y.first
  BY <1>0, LessIs DEF OldestOf
<1> DEFINE s == lines[disk.live]
           n == Len(s)
<1>22. s \in Seq(LineType) /\ n \in Nat \ {0} /\ s # <<>>
  BY <1>0, <1>1, <1>2
<1>23. log[w].next = lead + n + 1 /\ log[w].first = lead + 1 /\ log[w].next > 0 /\ log[w] \in FileType
  BY <1>0, <1>2, <1>22
<1>24. PICK first \in Nat, final \in Nat :
        /\ final = log[w].next - 1
        /\ first = IF log[w].first = 0 THEN final ELSE log[w].first
        /\ Archived(w, Less(disk, G)).arch =
             {a \in Less(disk, G).arch : a.first # first \/ a.last # final}
             \cup {[first |-> first, last |-> final, file |-> Less(disk, G).live]}
  BY <1>1, <1>7, <1>23, <1>0, ArchivedIs
<1> DEFINE x == [first |-> first, last |-> final, file |-> disk.live]
           old == disk.arch \ G
<1>25. first = lead + 1 /\ final = lead + n
  BY <1>22, <1>23, <1>24
<1>26. x \in SegType /\ x.first = lead + 1 /\ x.last = lead + n /\ x.file = disk.live
  BY <1>1, <1>25 DEF SegType
<1>27. Chained(old, lines) /\ Leads(old, lead) /\ old \in SUBSET SegType
  BY <1>0, <1>2, <1>5, <1>7, OldestGone
<1>28. Archived(w, Less(disk, G)).arch = old \cup {x}
  <2>1. \A a \in old : a.last # final
    <3>1. \A a \in old : a.last <= lead /\ a.last \in Nat
      BY <1>27 DEF Leads, SegType
    <3> QED BY <1>22, <1>25, <3>1
  <2> QED BY <1>7, <1>24, <2>1
<1>29. Chained(old \cup {x}, lines) /\ Leads(old \cup {x}, lead + n) /\ old \cup {x} \in SUBSET SegType
  <2> HIDE DEF x, old, n, s
  <2>1. s = lines[x.file] /\ n = Len(lines[x.file])
    BY <1>26 DEF s, n
  <2>2. \A i \in 1..Len(lines[x.file]) : lines[x.file][i].seq = lead + i
    BY <1>2, <1>26
  <2>3. /\ old \in SUBSET SegType /\ Chained(old, lines) /\ Leads(old, lead)
        /\ x \in SegType /\ x.first = lead + 1 /\ x.last = lead + Len(lines[x.file])
        /\ lines[x.file] # <<>> /\ lines \in [Files -> Seq(LineType)]
    BY <1>0, <1>22, <1>26, <1>27, <2>1
  <2>4. Chained(old \cup {x}, lines) /\ Leads(old \cup {x}, x.last)
    BY <2>2, <2>3, NewestAdded
  <2> QED BY <1>26, <2>3, <2>4
<1>30. \A a \in old \cup {x} : a.file = disk.live \/ a \in disk.arch
  BY <1>26
<1>31. lead + n \in Nat /\ log[w].next = (lead + n) + 1 /\ x.last = lead + n /\ x.file = disk.live
  BY <1>22, <1>23, <1>26
<1> HIDE DEF x, old, n, s
<1> QED BY <1>28, <1>29, <1>30, <1>31

\* The cap and a rotation leave the numbers in order.
LEMMA TurnsNumbers ==
  ASSUME LogTyped, LogTyped', Solo, Dir, deletes = 0, ~hurt', Numbers,
         NEW w \in Tasks, chan[w] = "open", UNCHANGED chan, log[w].file # 0, Rolls(w)
  PROVE  Numbers'
<1>0. /\ 0 \notin Files /\ lines \in [Files -> Seq(LineType)] /\ log \in [Tasks -> FileType]
      /\ \A f \in Files : Len(lines[f]) \in Nat
      /\ disk \in DirType /\ IsFiniteSet(disk.arch) /\ disk.arch \in SUBSET SegType
      /\ \A a \in disk.arch : a.file \in Files
      /\ RotateBytes \in Nat \ {0}
  BY FilesIs, SessionLogAssumption DEF DirType
<1>1. /\ disk.live \in Files /\ log[w].file = disk.live
      /\ \A v \in Tasks \ {w} : chan[v] # "open"
  BY OpenWriter
<1>2. PICK lead \in Nat :
        /\ Leads(disk.arch, lead)
        /\ \A i \in 1..Len(lines[disk.live]) : /\ Parses(lines[disk.live][i])
                                               /\ lines[disk.live][i].seq = lead + i
        /\ log[w].bytes = Len(lines[disk.live])
        /\ log[w].next = lead + Len(lines[disk.live]) + 1
        /\ log[w].first = IF lines[disk.live] = <<>> THEN 0 ELSE lead + 1
  BY OpenWriter
<1>3. \A v \in Tasks \ {w} : chan'[v] # "open"
  BY <1>1
<1>4. \A g \in Files : /\ Named(g)' => lines'[g] = lines[g]
                       /\ ~Named(g)' => lines'[g] = <<>>
  BY <1>0, KeptNamed DEF Rolls
<1>5. Chained(disk.arch, lines)
  BY DEF Numbers
<1>6. PICK G : /\ Takes(disk, G)
               /\ \/ Stayed(w, G)
                  \/ Stranded(w, G)
                  \/ \E g \in Files : \E H : Rotated(w, G, g, H)
  BY DEF Rolls
<1>7. /\ Less(disk, G).arch = disk.arch \ G /\ Less(disk, G).live = disk.live
      /\ Less(disk, G) \in DirType /\ IsFiniteSet(Less(disk, G).arch)
      /\ \A x \in G : \A y \in disk.arch \ G : x.first <= y.first
  BY <1>0, <1>6, LessIs DEF Takes, OldestOf
<1>8. CASE Stayed(w, G)
  <2>1. disk'.arch = disk.arch \ G /\ disk'.live = disk.live
    BY <1>7, <1>8 DEF Stayed
  <2>2. /\ log'[w].file = log[w].file /\ log'[w].bytes = log[w].bytes /\ log'[w].next = log[w].next
        /\ log'[w].first = log[w].first
    BY <1>0, <1>8, CleanIs DEF Stayed
  <2>3. lines'[disk'.live] = lines[disk.live] /\ \A a \in disk.arch \ G : lines'[a.file] = lines[a.file]
    BY <1>0, <1>1, <1>4, <2>1 DEF Named
  <2>4. Chained(disk'.arch, lines') /\ Leads(disk'.arch, lead)
    <3>1. Chained(disk.arch \ G, lines') /\ Leads(disk.arch \ G, lead)
      BY <1>0, <1>2, <1>5, <1>7, <2>3, OldestGone
    <3> QED BY <2>1, <3>1
  <2> QED BY <1>1, <1>2, <1>3, <2>1, <2>2, <2>3, <2>4, NumbersAt
<1>9. CASE Stranded(w, G)
  BY <1>9 DEF Stranded, Fault
<1>10. CASE \E g \in Files : \E H : Rotated(w, G, g, H)
  <2>0. PICK g \in Files : \E H : Rotated(w, G, g, H)
    BY <1>10
  <2>1. PICK H : Rotated(w, G, g, H)
    BY <2>0
  <2> DEFINE A == Archived(w, Less(disk, G)).arch
  <2>2. OldestOf(disk, G) /\ OldestOf(Turned(w, G, g), H)
    BY <1>6, <2>1 DEF Takes, Rotated
  <2>3. disk.live # 0 /\ log[w].bytes >= RotateBytes
    BY <2>1 DEF Rotated
  <2>4. PICK top \in Nat :
          /\ A \in SUBSET SegType /\ Chained(A, lines) /\ Leads(A, top)
          /\ log[w].next = top + 1
          /\ \A a \in A : a.file = disk.live \/ a \in disk.arch
    BY <2>2, <2>3, RenamedNumbers
  <2>10. /\ Turned(w, G, g).arch = A /\ Turned(w, G, g).live = g
         /\ Turned(w, G, g) \in DirType /\ IsFiniteSet(Turned(w, G, g).arch)
    BY <1>1, <2>1, NamesApart, TurnedIs
  <2> HIDE DEF A
  <2>11. disk'.arch = A \ H /\ disk'.live = g
    <3>1. /\ Less(Turned(w, G, g), H).arch = Turned(w, G, g).arch \ H
          /\ Less(Turned(w, G, g), H).live = Turned(w, G, g).live
      BY <2>10, LessIs
    <3>2. disk' = Less(Turned(w, G, g), H)
      BY <2>1 DEF Rotated
    <3> QED BY <2>10, <3>1, <3>2
  <2>12. \A a \in A \ H : lines'[a.file] = lines[a.file]
    <3>1. \A a \in A \ H : a.file \in Files
      BY <1>0, <1>1, <2>4
    <3> QED BY <1>4, <2>11, <3>1 DEF Named
  <2>13. \A a \in H : \A b \in A \ H : a.first <= b.first
    BY <2>2, <2>10 DEF OldestOf
  <2>14. Chained(disk'.arch, lines') /\ Leads(disk'.arch, top)
    <3>1. Chained(A \ H, lines') /\ Leads(A \ H, top)
      BY <2>4, <2>12, <2>13, OldestGone
    <3> QED BY <2>11, <3>1
  <2>15. lines'[disk'.live] = <<>>
    <3>1. ~Named(g) /\ Named(g)'
      BY <2>1, <2>11, NamedIs DEF Rotated, Named
    <3> QED BY <1>4, <2>11, <3>1 DEF Dir
  <2>16. /\ log'[w].file = g /\ log'[w].bytes = 0 /\ log'[w].next = log[w].next /\ log'[w].first = 0
    BY <1>0, <2>1 DEF Rotated, FileType
  <2>17. Len(lines'[disk'.live]) = 0
    BY <2>15
  <2>18. log'[w].next = top + 0 + 1
    BY <2>4, <2>16
  <2>19. \A i \in 1..Len(lines'[disk'.live]) : /\ Parses(lines'[disk'.live][i])
                                               /\ lines'[disk'.live][i].seq = top + i
    BY <2>17
  <2> QED BY <1>3, <2>11, <2>14, <2>15, <2>16, <2>17, <2>18, <2>19, NumbersAt
<1> QED BY <1>6, <1>8, <1>9, <1>10

\* The end of the process inside a rotation leaves the numbers in order, and no live segment.
LEMMA HaltNumbers ==
  ASSUME LogTyped, LogTyped', Solo, Dir, deletes = 0, Numbers, Crash,
         NEW w \in Tasks, CutRotation(w)
  PROVE  Numbers'
<1>0. /\ 0 \notin Files /\ lines \in [Files -> Seq(LineType)]
      /\ disk \in DirType /\ IsFiniteSet(disk.arch) /\ \A a \in disk.arch : a.file \in Files
      /\ disk.live \in Files \cup {0}
  BY FilesIs
<1>1. \A v \in Tasks : chan'[v] # "open"
  BY DEF Crash, Died
<1>2. PICK G : Halted(w, G)
  BY HaltIs
<1>3. chan[w] = "open" /\ log[w].file # 0 /\ log[w] \in FileType /\ log[w].next > 0
  BY <1>0, WorkerIs DEF CutRotation, Handling, LogTyped, WritersOK
<1> DEFINE A == Archived(w, Less(disk, G)).arch
<1>4. PICK top \in Nat :
          /\ A \in SUBSET SegType /\ Chained(A, lines) /\ Leads(A, top)
          /\ \A a \in A : a.file = disk.live \/ a \in disk.arch
  BY <1>2, <1>3, RenamedNumbers DEF Halted
<1>5. disk'.live = 0 /\ disk'.arch = A
  <2>1. /\ Less(disk, G) \in DirType /\ IsFiniteSet(Less(disk, G).arch)
        /\ Less(disk, G).live # 0
    BY <1>0, <1>2, LessIs DEF Halted
  <2> QED BY <1>2, <1>3, <2>1, ArchivedIs DEF Halted
<1> HIDE DEF A
<1>6. \A g \in Files : Named(g)' => lines'[g] = lines[g]
  BY <1>0, <1>2, KeptNamed DEF Halted
<1>7. \A a \in A \ {} : lines'[a.file] = lines[a.file]
  <2>1. \A a \in A : a.file \in Files
    BY <1>0, <1>2, <1>4 DEF Halted
  <2> QED BY <1>5, <1>6, <2>1 DEF Named
<1>8. Chained(A \ {}, lines')
  BY <1>4, <1>7, OldestGone
<1>9. A \ {} = disk'.arch
  BY <1>5
<1> QED BY <1>1, <1>5, <1>8, <1>9 DEF Numbers

\* A step that trims the oldest segments at most, and under which no open writer moves.
LEMMA StillNumbers ==
  ASSUME LogTyped, Numbers, NEW G, \A x \in G : \A y \in disk.arch \ G : x.first <= y.first,
         disk'.arch = disk.arch \ G, \A a \in disk.arch \ G : lines'[a.file] = lines[a.file],
         \/ disk'.live = disk.live /\ (disk.live # 0 => lines'[disk.live] = lines[disk.live])
         \/ disk'.live = 0 /\ \A v \in Tasks : chan'[v] # "open",
         \A v \in Tasks : chan'[v] = "open" /\ log'[v].file # 0 =>
            /\ chan[v] = "open"
            /\ log'[v].file = log[v].file /\ log'[v].bytes = log[v].bytes
            /\ log'[v].next = log[v].next /\ log'[v].first = log[v].first
  PROVE  Numbers'
<1>1. disk.arch \in SUBSET SegType
  BY FilesIs DEF DirType
<1>2. /\ Chained(disk.arch \ G, lines')
      /\ \A lead \in Nat : Leads(disk.arch, lead) => Leads(disk.arch \ G, lead)
  BY ZenonT(30), <1>1, OldestGone DEF Numbers
<1>3. Chained(disk'.arch, lines')
  BY <1>2
<1>4. disk'.live # 0 => \E lead \in Nat : Ready(lead)'
  <2> SUFFICES ASSUME disk'.live # 0 PROVE \E lead \in Nat : Ready(lead)'
    OBVIOUS
  <2>1. disk'.live = disk.live /\ disk.live # 0 /\ lines'[disk'.live] = lines[disk.live]
    OBVIOUS
  <2>2. PICK lead \in Nat : Ready(lead)
    BY <2>1 DEF Numbers
  <2>3. Leads(disk'.arch, lead)
    BY <1>2, <2>2 DEF Ready
  <2>4. \A i \in 1..Len(lines'[disk'.live]) :
         /\ Parses(lines'[disk'.live][i]) => lines'[disk'.live][i].seq = lead + i
         /\ i < Len(lines'[disk'.live]) => Parses(lines'[disk'.live][i])
    BY <2>1, <2>2 DEF Ready
  <2>5. ASSUME NEW v \in Tasks, chan'[v] = "open", log'[v].file # 0
        PROVE  /\ log'[v].file = disk'.live
               /\ \A i \in 1..Len(lines'[disk'.live]) : Parses(lines'[disk'.live][i])
               /\ log'[v].bytes = Len(lines'[disk'.live])
               /\ log'[v].next = lead + Len(lines'[disk'.live]) + 1
               /\ log'[v].first = IF lines'[disk'.live] = <<>> THEN 0 ELSE lead + 1
    <3>1. /\ chan[v] = "open" /\ log'[v].file = log[v].file /\ log'[v].bytes = log[v].bytes
          /\ log'[v].next = log[v].next /\ log'[v].first = log[v].first
      BY <2>5
    <3> QED BY <2>1, <2>2, <2>5, <3>1 DEF Ready
  <2>6. Ready(lead)'
    BY <2>3, <2>4, <2>5 DEF Ready
  <2> QED BY <2>6
<1>5. disk'.live = 0 => \A v \in Tasks : chan'[v] = "open" => log'[v].file = 0
  BY DEF Numbers
<1> QED BY <1>3, <1>4, <1>5 DEF Numbers

\* What touches neither the segments nor an open writer leaves the numbers.
LEMMA UntouchedNumbers ==
  ASSUME LogTyped, Numbers, disk'.arch = disk.arch, disk'.live = disk.live,
         \A a \in disk.arch : lines'[a.file] = lines[a.file],
         disk.live # 0 => lines'[disk.live] = lines[disk.live],
         \A v \in Tasks : chan'[v] = "open" /\ log'[v].file # 0 =>
            /\ chan[v] = "open"
            /\ log'[v].file = log[v].file /\ log'[v].bytes = log[v].bytes
            /\ log'[v].next = log[v].next /\ log'[v].first = log[v].first
  PROVE  Numbers'
<1> DEFINE G == {}
<1>1. /\ \A x \in G : \A y \in disk.arch \ G : x.first <= y.first
      /\ disk'.arch = disk.arch \ G /\ \A a \in disk.arch \ G : lines'[a.file] = lines[a.file]
  OBVIOUS
<1> HIDE DEF G
<1> QED BY <1>1, StillNumbers

\* Where a crash leaves the files: the live one alone may be shorter, or end in half a line.
LEMMA CrashFiles ==
  ASSUME LogTyped, Crash, CutWrite
  PROVE  /\ disk' = disk /\ \A w \in Tasks : log'[w].file = 0 /\ chan'[w] = "none"
         /\ \/ \A g \in Files : Named(g)' => lines'[g] = lines[g]
            \/ \E k \in Nat, torn \in BOOLEAN :
                 /\ disk.live \in Files /\ k \in 0..Len(lines[disk.live])
                 /\ lines'[disk.live] = CutShort(disk.live, k, torn)
                 /\ k < Len(lines[disk.live]) => PowerLoss
                 /\ torn => \/ k < Len(lines[disk.live])
                            \/ \E w \in Tasks : log[w].file = disk.live /\ batch[w] # <<>>
                 /\ \A g \in Files \ {disk.live} : Named(g)' => lines'[g] = lines[g]
<1>0. /\ disk.live \in Files \cup {0} /\ 0 \notin Files
      /\ lines \in [Files -> Seq(LineType)] /\ synced \in [Files -> Nat]
      /\ \A f \in Files : Len(lines[f]) \in Nat
  BY FilesIs
<1>1. disk' = disk /\ \A w \in Tasks : log'[w].file = 0 /\ chan'[w] = "none"
  BY DEF Crash, Died, CutWrite, Closed
<1>2. CASE lines' = Kept(lines, disk, log') /\ UNCHANGED synced
  BY <1>0, <1>1, <1>2, KeptNamed
<1>3. CASE \E f \in Files, k \in Nat, torn \in BOOLEAN :
              /\ f = disk.live /\ k \in synced[f]..Len(lines[f])
              /\ lines' = [Kept(lines, disk, log') EXCEPT ![f] = CutShort(f, k, torn)]
              /\ k < Len(lines[f]) => PowerLoss
              /\ torn => k < Len(lines[f]) \/ \E w \in Tasks : log[w].file = f /\ batch[w] # <<>>
              /\ synced' = [synced EXCEPT ![f] = Durable(Len(lines'[f]))]
  <2>1. PICK f \in Files, k \in Nat, torn \in BOOLEAN :
              /\ f = disk.live /\ k \in synced[f]..Len(lines[f])
              /\ lines' = [Kept(lines, disk, log') EXCEPT ![f] = CutShort(f, k, torn)]
              /\ k < Len(lines[f]) => PowerLoss
              /\ torn => k < Len(lines[f]) \/ \E w \in Tasks : log[w].file = f /\ batch[w] # <<>>
    BY <1>3
  <2>2. Kept(lines, disk, log') \in [Files -> Seq(LineType)]
    BY <1>0, KeptIs
  <2>3. /\ lines'[f] = CutShort(f, k, torn) /\ k \in 0..Len(lines[f])
        /\ \A g \in Files \ {f} : lines'[g] = Kept(lines, disk, log')[g]
    BY <1>0, <2>1, <2>2
  <2>4. ASSUME NEW g \in Files, g # f, Named(g)' PROVE lines'[g] = lines[g]
    <3>1. g \in {disk.live} \cup {a.file : a \in disk.arch} \cup {log'[w].file : w \in Tasks}
      BY <1>1, <2>4 DEF Named
    <3>2. Kept(lines, disk, log')[g] = lines[g]
      BY <3>1 DEF Kept
    <3> QED BY <2>3, <2>4, <3>2
  <2> QED BY <1>1, <2>1, <2>3, <2>4
<1> QED BY <1>1, <1>2, <1>3, CrashIs

\* A crash cuts the end of the live segment and leaves no writer who knows it.
LEMMA CrashNumbers ==
  ASSUME LogTyped, LogTyped', Solo, Dir, deletes = 0, Numbers, Crash, CutWrite
  PROVE  Numbers'
<1>0. /\ disk.live \in Files \cup {0} /\ 0 \notin Files
      /\ \A f \in Files : Len(lines[f]) \in Nat
      /\ \A a \in disk.arch : a.file \in Files
  BY FilesIs
<1>1. disk' = disk /\ \A w \in Tasks : log'[w].file = 0 /\ chan'[w] = "none"
  BY CrashFiles
<1>2. CASE \A g \in Files : Named(g)' => lines'[g] = lines[g]
  <2>1. \A a \in disk.arch : lines'[a.file] = lines[a.file]
    BY <1>0, <1>1, <1>2 DEF Named
  <2>2. disk.live # 0 => lines'[disk.live] = lines[disk.live]
    BY <1>0, <1>1, <1>2 DEF Named
  <2> QED BY <1>1, <2>1, <2>2, UntouchedNumbers
<1>3. CASE \E k \in Nat, torn \in BOOLEAN :
             /\ disk.live \in Files /\ k \in 0..Len(lines[disk.live])
             /\ lines'[disk.live] = CutShort(disk.live, k, torn)
             /\ torn => \/ k < Len(lines[disk.live])
                        \/ \E w \in Tasks : log[w].file = disk.live /\ batch[w] # <<>>
             /\ \A g \in Files \ {disk.live} : Named(g)' => lines'[g] = lines[g]
  <2>1. PICK k \in Nat, torn \in BOOLEAN :
             /\ disk.live \in Files /\ k \in 0..Len(lines[disk.live])
             /\ lines'[disk.live] = CutShort(disk.live, k, torn)
             /\ torn => \/ k < Len(lines[disk.live])
                        \/ \E w \in Tasks : log[w].file = disk.live /\ batch[w] # <<>>
             /\ \A g \in Files \ {disk.live} : Named(g)' => lines'[g] = lines[g]
    BY <1>3
  <2> DEFINE s == lines[disk.live]
             t == lines'[disk.live]
  <2>2. disk.live # 0
    BY <1>0, <2>1
  <2>3. PICK lead \in Nat : Ready(lead)
    BY <2>2 DEF Numbers
  <2>4. /\ Len(t) = k + (IF torn THEN 1 ELSE 0)
        /\ \A i \in 1..k : t[i] = s[i]
        /\ torn => t[k + 1] = Cut
    BY <2>1, CutShortIs
  <2>5. k = Len(s) /\ torn => \A i \in 1..Len(s) : Parses(s[i])
    <3> SUFFICES ASSUME k = Len(s), torn PROVE \A i \in 1..Len(s) : Parses(s[i])
      OBVIOUS
    <3>1. PICK w \in Tasks : log[w].file = disk.live /\ batch[w] # <<>>
      BY <1>0, <2>1
    <3>2. mode[w] \in Handling \cup {"work"}
      BY <3>1 DEF LogTyped, ModesAgree, Agrees
    <3>3. chan[w] = "open"
      BY <3>2, WorkerIs
    <3> QED BY <2>2, <2>3, <3>1, <3>3 DEF Ready
  <2>6. ASSUME NEW i \in 1..Len(t)
        PROVE  (Parses(t[i]) => t[i].seq = lead + i) /\ (i < Len(t) => Parses(t[i]))
    <3>1. CASE i \in 1..k
      <4>1. t[i] = s[i] /\ i \in 1..Len(s)
        BY <1>0, <2>1, <2>4, <3>1
      <4>2. CASE i < Len(s)
        BY <2>3, <4>1, <4>2 DEF Ready
      <4>3. CASE i = Len(s)
        <5>1. k = Len(s)
          BY <1>0, <2>1, <3>1, <4>3
        <5>2. CASE torn
          BY <2>3, <2>5, <4>1, <5>1, <5>2 DEF Ready
        <5>3. CASE ~torn
          BY <2>3, <2>4, <4>1, <4>3, <5>1, <5>3 DEF Ready
        <5> QED BY <5>2, <5>3
      <4> QED BY <1>0, <2>1, <4>1, <4>2, <4>3
    <3>2. CASE i \notin 1..k
      <4>1. i = k + 1 /\ Len(t) = k + 1 /\ torn
        BY <2>1, <2>4, <2>6, <3>2
      <4> QED BY <2>4, <4>1, LineIs
    <3> QED BY <3>1, <3>2
  <2>7. Ready(lead)'
    BY <1>1, <2>3, <2>6 DEF Ready
  <2>8. Chained(disk'.arch, lines')
    <3>1. \A a \in disk.arch : lines'[a.file] = lines[a.file]
      BY <1>0, <1>1, <2>1 DEF Named, Dir
    <3> QED BY <1>1, <3>1, ChainedStill DEF Numbers
  <2> QED BY <1>1, <2>2, <2>7, <2>8 DEF Numbers
<1> QED BY <1>2, <1>3, CrashFiles

\* Every step keeps the numbers in order.
LEMMA NextNumbered ==
  LogTyped /\ LogTyped' /\ Solo /\ Dir /\ Numbered /\ [LogNext]_logVars => Numbered'
<1> SUFFICES ASSUME LogTyped, LogTyped', Solo, Dir, Numbered, [LogNext]_logVars, Sound'
             PROVE  Numbers'
  BY DEF Numbered
<1>0. /\ disk.live \in Files \cup {0} /\ 0 \notin Files /\ disk \in DirType
      /\ lines \in [Files -> Seq(LineType)] /\ log \in [Tasks -> FileType]
      /\ \A a \in disk.arch : a.file \in Files
  BY FilesIs
<1>1. deletes = 0 /\ ~hurt /\ deletes' = 0 /\ ~hurt' /\ Numbers
  BY NoWayBack DEF Sound, Numbered
<1>2. CASE Neutral
  BY <1>1, <1>2, UntouchedNumbers DEF Neutral
<1>3. CASE \E w \in Tasks : FinalSync(w)
  <2>1. PICK w \in Tasks : FinalSync(w)
    BY <1>3
  <2>2. /\ disk' = disk /\ lines' = Kept(lines, disk', log') /\ chan' = chan
        /\ log' = [log EXCEPT ![w] = Closed] /\ mode[w] = "last"
    BY <2>1 DEF FinalSync, chanVars
  <2>3. \A g \in Files : Named(g)' => lines'[g] = lines[g]
    BY <1>0, <2>2, KeptNamed
  <2>4. /\ \A a \in disk.arch : lines'[a.file] = lines[a.file]
        /\ disk.live # 0 => lines'[disk.live] = lines[disk.live]
    BY <1>0, <2>2, <2>3 DEF Named
  <2>5. \A v \in Tasks : log'[v].file # 0 => log'[v] = log[v]
    BY <1>0, <2>2 DEF Closed
  <2> QED BY <1>1, <2>2, <2>4, <2>5, UntouchedNumbers
<1>4. CASE \E w \in Tasks : Works(w)
  <2>1. PICK w \in Tasks : Works(w)
    BY <1>4
  <2>2. chan[w] = "open" /\ UNCHANGED chan
    BY <2>1 DEF Works
  <2>3. CASE Opens(w)
    BY <1>1, <2>2, <2>3, OpensNumbers
  <2>4. CASE log[w].file \in Files /\ Grows(w)
    BY <1>0, <1>1, <2>2, <2>4, GrowsNumbers DEF Grows
  <2>5. CASE LeftTorn(w)
    BY <1>1, <2>5 DEF LeftTorn, Fault
  <2>6. CASE log[w].file \in Files /\ Cuts(w)
    BY <1>0, <1>1, <2>2, <2>6, CutsNumbers
  <2>7. CASE log[w].file \in Files /\ Rolls(w)
    BY <1>0, <1>1, <2>2, <2>7, TurnsNumbers
  <2> QED BY <2>1, <2>3, <2>4, <2>5, <2>6, <2>7 DEF Works
<1>5. CASE RemoveDir
  BY <1>1, <1>5 DEF RemoveDir, Solo
<1>6. CASE Sweep
  <2>1. lines' = Kept(lines, disk', log') /\ log' = log /\ chan' = chan /\ ~up
    BY <1>6 DEF Sweep, writerVars, chanVars
  <2>2. \A v \in Tasks : chan'[v] # "open"
    BY <2>1 DEF Solo, LogTyped, ModesAgree, Agrees
  <2>3. \A g \in Files : Named(g)' => lines'[g] = lines[g]
    BY <1>0, <2>1, KeptNamed
  <2>4. PICK G : /\ \A x \in G : \A y \in disk.arch \ G : x.first <= y.first
                 /\ disk'.arch = disk.arch \ G /\ disk'.live \in {disk.live, 0}
    <3>1. CASE disk' = disk
      <4>1. disk'.arch = disk.arch \ {}
        BY <3>1
      <4> QED BY <3>1, <4>1
    <3>4. ASSUME NEW a \in disk.arch, Unlinked(beside # {} \/ \E x \in disk.arch : x.first < a.first)
          PROVE  \A x \in disk.arch : a.first <= x.first
      <4>1. ~\E x \in disk.arch : x.first < a.first
        BY <1>1, <3>4 DEF Unlinked, Fault
      <4>2. \A x \in disk.arch : x.first \in Nat
        BY FilesIs DEF SegType
      <4> QED BY <4>1, <4>2
    <3>2. CASE \E a \in disk.arch : /\ \A x \in disk.arch : a.first <= x.first
                                    /\ disk' = [disk EXCEPT !.arch = @ \ {a}]
      <4>1. PICK a \in disk.arch : /\ \A x \in disk.arch : a.first <= x.first
                                   /\ disk' = [disk EXCEPT !.arch = @ \ {a}]
        BY <3>2
      <4>2. disk'.arch = disk.arch \ {a} /\ disk'.live = disk.live
        BY <1>0, <4>1 DEF DirType
      <4> QED BY <4>1, <4>2
    <3>3. CASE disk' = [disk EXCEPT !.live = 0]
      <4>1. disk'.arch = disk.arch \ {} /\ disk'.live = 0
        BY <1>0, <3>3 DEF DirType
      <4> QED BY <4>1
    <3> QED BY <1>6, <3>1, <3>2, <3>3, <3>4 DEF Sweep
  <2>5. \A a \in disk.arch \ G : lines'[a.file] = lines[a.file]
    BY <1>0, <2>3, <2>4 DEF Named
  <2>6. disk'.live = disk.live => (disk.live # 0 => lines'[disk.live] = lines[disk.live])
    BY <1>0, <2>3 DEF Named
  <2> QED BY <1>1, <2>2, <2>4, <2>5, <2>6, StillNumbers
<1>7. CASE Crash
  BY <1>1, <1>7, CrashNumbers, HaltNumbers DEF Crash
<1> QED BY <1>1, <1>2, <1>3, <1>4, <1>5, <1>6, <1>7, StepKinds

\* There are none at first.
LEMMA InitNumbered == LogInit => Numbered
<1> SUFFICES ASSUME LogInit PROVE Numbers
  BY DEF Numbered
<1>1. disk.arch = {} /\ disk.live = 0 /\ \A w \in Tasks : log[w].file = 0
  BY DEF LogInit, NoDir, Closed
<1> QED BY <1>1 DEF Numbers, Chained

----------------------------------------------------------------------------
(* What a reader meets. *)

\* The places of the log and what is on them.
LEMMA PlacesAre ==
  ASSUME LogTyped
  PROVE  /\ Segments \subseteq Files
         /\ \A f \in Files : f \in Segments <=> f = disk.live \/ \E a \in disk.arch : a.file = f
         /\ \A p \in Places : /\ p = <<p[1], p[2]>>
                              /\ p[1] \in Segments /\ p[2] \in 1..Len(lines[p[1]])
                              /\ At(p) = lines[p[1]][p[2]] /\ At(p) \in OnDisk
         /\ \A f \in Segments : \A i \in 1..Len(lines[f]) :
              <<f, i>> \in Places /\ lines[f][i] \in OnDisk
         /\ \A l \in OnDisk : \E f \in Segments : \E i \in 1..Len(lines[f]) : l = lines[f][i]
<1>1. Segments \subseteq Files /\ \A f \in Files : DOMAIN lines[f] = 1..Len(lines[f])
  BY FilesIs DEF Segments
<1>2. \A f \in Files : f \in Segments <=> f = disk.live \/ \E a \in disk.arch : a.file = f
  BY FilesIs DEF Segments
<1>3. ASSUME NEW p \in Places
      PROVE  p = <<p[1], p[2]>> /\ p[1] \in Segments /\ p[2] \in 1..Len(lines[p[1]])
  <2>1. PICK f \in Segments : p \in {f} \X DOMAIN lines[f]
    BY <1>3 DEF Places
  <2> QED BY <1>1, <2>1
<1>4. ASSUME NEW f \in Segments, NEW i \in 1..Len(lines[f]) PROVE <<f, i>> \in Places
  <2>1. <<f, i>> \in {f} \X DOMAIN lines[f]
    BY <1>1
  <2> QED BY <2>1 DEF Places
<1>5. \A p \in Places : At(p) = lines[p[1]][p[2]] /\ At(p) \in OnDisk
  BY DEF At, OnDisk
<1>6. \A f \in Segments : \A i \in 1..Len(lines[f]) : lines[f][i] \in OnDisk
  <2> TAKE f \in Segments
  <2> TAKE i \in 1..Len(lines[f])
  <2>1. <<f, i>> \in Places /\ At(<<f, i>>) = lines[f][i]
    BY <1>4 DEF At
  <2> QED BY <1>5, <2>1
<1>7. \A l \in OnDisk : \E f \in Segments : \E i \in 1..Len(lines[f]) : l = lines[f][i]
  BY <1>3, <1>5 DEF OnDisk
<1> QED BY <1>1, <1>2, <1>3, <1>4, <1>5, <1>6, <1>7

\* Every number from a segment's first to a record of it is on disk.
LEMMA NumbersFound ==
  ASSUME LogTyped, Dir, Numbers
  PROVE  /\ \A a \in disk.arch : \A n \in a.first..a.last : \E l \in OnDisk : l.seq = n
         /\ \A lead \in Nat : Ready(lead) /\ disk.live # 0 =>
              \A i \in 1..Len(lines[disk.live]) :
                 Parses(lines[disk.live][i]) => \A j \in 1..i : lines[disk.live][j].seq = lead + j
<1>0. \A a \in disk.arch : a \in SegType /\ a.file \in Segments
  BY FilesIs, PlacesAre
<1>1. ASSUME NEW a \in disk.arch, NEW n \in a.first..a.last PROVE \E l \in OnDisk : l.seq = n
  <2>1. /\ a.first \in Nat /\ a.last \in Nat /\ Len(lines[a.file]) = a.last - a.first + 1
        /\ \A i \in 1..Len(lines[a.file]) : lines[a.file][i].seq = a.first + i - 1
    BY <1>0 DEF SegType, Numbers, Chained
  <2>2. PICK i \in 1..Len(lines[a.file]) : i = n - a.first + 1
    BY <2>1
  <2>3. lines[a.file][i].seq = a.first + i - 1
    BY <2>1
  <2>4. a.first + i - 1 = n
    BY <2>1, <2>2
  <2> QED BY <1>0, <2>3, <2>4, PlacesAre
<1>2. ASSUME NEW lead \in Nat, Ready(lead), disk.live # 0, NEW i \in 1..Len(lines[disk.live]),
             Parses(lines[disk.live][i]), NEW j \in 1..i
      PROVE  lines[disk.live][j].seq = lead + j
  <2>1. Len(lines[disk.live]) \in Nat
    BY <1>2, FilesIs
  <2>2. CASE j = i
    BY <1>2, <2>2 DEF Ready
  <2>3. CASE j < Len(lines[disk.live])
    BY <1>2, <2>1, <2>3 DEF Ready
  <2> QED BY <2>1, <2>2, <2>3
<1> QED BY <1>1, <1>2

\* Two lines of one segment are numbered upwards, with every number between them.
LEMMA WholeWithin ==
  ASSUME LogTyped, Dir, Numbers, NEW p \in Places, NEW q \in Places, p[1] = q[1], p[2] < q[2]
  PROVE  /\ Parses(At(p))
         /\ Parses(At(q)) => /\ At(p).seq < At(q).seq
                             /\ \A n \in At(p).seq..At(q).seq : \E l \in OnDisk : l.seq = n
<1>0. /\ p[1] \in Segments /\ p[1] \in Files /\ Len(lines[p[1]]) \in Nat
      /\ p[2] \in 1..Len(lines[p[1]]) /\ q[2] \in 1..Len(lines[p[1]])
      /\ At(p) = lines[p[1]][p[2]] /\ At(q) = lines[p[1]][q[2]]
  BY PlacesAre, FilesIs
<1>1. CASE \E a \in disk.arch : a.file = p[1]
  <2>1. PICK a \in disk.arch : a.file = p[1]
    BY <1>1
  <2>2. /\ a.first \in Nat /\ a.last \in Nat /\ 1 <= a.first
        /\ Len(lines[a.file]) = a.last - a.first + 1
        /\ \A i \in 1..Len(lines[a.file]) : lines[a.file][i].seq = a.first + i - 1
    BY FilesIs DEF SegType, Numbers, Chained
  <2>3. At(p).seq = a.first + p[2] - 1 /\ At(q).seq = a.first + q[2] - 1
    BY <1>0, <2>1, <2>2
  <2>4. /\ p[2] \in 1..(a.last - a.first + 1) /\ q[2] \in 1..(a.last - a.first + 1)
        /\ p[2] < q[2]
    BY <1>0, <2>1, <2>2
  <2>6. a.first + p[2] - 1 \in a.first..a.last /\ a.first + q[2] - 1 \in a.first..a.last
    BY <2>2, <2>4
  <2>7. \A n \in At(p).seq..At(q).seq : n \in a.first..a.last
    BY <2>2, <2>3, <2>6
  <2>5. Parses(At(p)) /\ At(p).seq < At(q).seq
    BY <1>0, <2>2, <2>3 DEF Parses
  <2> QED BY <2>5, <2>7, NumbersFound
<1>2. CASE p[1] = disk.live
  <2>1. disk.live # 0
    BY <1>0, <1>2, FilesIs
  <2>2. PICK lead \in Nat : Ready(lead)
    BY <2>1 DEF Numbers
  <2>3. Parses(At(p)) /\ At(p).seq = lead + p[2]
    BY <1>0, <1>2, <2>2 DEF Ready
  <2>4. ASSUME Parses(At(q))
        PROVE  /\ At(p).seq < At(q).seq
               /\ \A n \in At(p).seq..At(q).seq : \E l \in OnDisk : l.seq = n
    <3>1. \A j \in 1..q[2] : lines[disk.live][j].seq = lead + j
      BY <1>0, <1>2, <2>1, <2>2, <2>4, NumbersFound
    <3>2. At(q).seq = lead + q[2]
      BY <1>0, <1>2, <3>1
    <3>3. ASSUME NEW n \in At(p).seq..At(q).seq PROVE \E l \in OnDisk : l.seq = n
      <4>1. PICK j \in 1..q[2] : lead + j = n
        <5>1. n - lead \in 1..q[2] /\ lead + (n - lead) = n
          BY <1>0, <2>3, <3>2, <3>3
        <5> QED BY <5>1
      <4>2. j \in 1..Len(lines[disk.live])
        BY <1>0, <1>2
      <4> QED BY <1>0, <1>2, <3>1, <4>1, <4>2, PlacesAre
    <3> QED BY <1>0, <2>3, <3>2, <3>3
  <2> QED BY <2>3, <2>4
<1> QED BY <1>0, <1>1, <1>2, PlacesAre

\* So are two lines of different segments.
LEMMA WholeAcross ==
  ASSUME LogTyped, Dir, Numbers, NEW p \in Places, NEW q \in Places, ReadFirst(p[1], q[1])
  PROVE  /\ Parses(At(p))
         /\ Parses(At(q)) => /\ At(p).seq < At(q).seq
                             /\ \A n \in At(p).seq..At(q).seq : \E l \in OnDisk : l.seq = n
<1>0. /\ p[1] \in Files /\ Len(lines[p[1]]) \in Nat /\ q[1] \in Files /\ Len(lines[q[1]]) \in Nat
      /\ p[2] \in 1..Len(lines[p[1]]) /\ q[2] \in 1..Len(lines[q[1]])
      /\ At(p) = lines[p[1]][p[2]] /\ At(q) = lines[q[1]][q[2]]
  BY PlacesAre, FilesIs
<1>1. \A x \in disk.arch :
        /\ x.first \in Nat /\ x.last \in Nat /\ 1 <= x.first /\ x.first <= x.last
        /\ Len(lines[x.file]) = x.last - x.first + 1
        /\ \A i \in 1..Len(lines[x.file]) : lines[x.file][i].seq = x.first + i - 1
  BY FilesIs DEF SegType, Numbers, Chained
<1>2. PICK a \in disk.arch :
        a.file = p[1] /\ (q[1] = disk.live \/ \E b \in disk.arch : b.file = q[1] /\ a.first < b.first)
  BY DEF ReadFirst
<1>3. At(p).seq = a.first + p[2] - 1 /\ Parses(At(p)) /\ At(p).seq \in a.first..a.last
  <2>1. At(p).seq = a.first + p[2] - 1 /\ p[2] \in 1..(a.last - a.first + 1)
    BY <1>0, <1>1, <1>2
  <2>2. a.first + p[2] - 1 \in a.first..a.last /\ a.first + p[2] - 1 > 0
    BY <1>1, <2>1
  <2> QED BY <2>1, <2>2 DEF Parses
<1>4. CASE \E b \in disk.arch : b.file = q[1] /\ a.first < b.first
  <2>1. PICK b \in disk.arch : b.file = q[1] /\ a.first < b.first
    BY <1>4
  <2>2. a.last < b.first
    <3>1. a = b \/ a.last < b.first \/ b.last < a.first
      BY DEF Numbers, Chained
    <3> QED BY <1>1, <2>1, <3>1
  <2>3. At(q).seq = b.first + q[2] - 1 /\ At(q).seq \in b.first..b.last
    <3>1. At(q).seq = b.first + q[2] - 1 /\ q[2] \in 1..(b.last - b.first + 1)
      BY <1>0, <1>1, <2>1
    <3>2. b.first + q[2] - 1 \in b.first..b.last
      BY <1>1, <3>1
    <3> QED BY <3>1, <3>2
  <2>4. ASSUME NEW n \in At(p).seq..At(q).seq PROVE \E l \in OnDisk : l.seq = n
    <3>1. n \in a.first..b.last
      BY <1>1, <1>3, <2>3, <2>4
    <3>2. PICK c \in disk.arch : n \in c.first..c.last
      BY <3>1 DEF Numbers, Chained
    <3> QED BY <3>2, NumbersFound
  <2> QED BY <1>1, <1>3, <2>2, <2>3, <2>4
<1>5. CASE q[1] = disk.live
  <2>1. disk.live # 0
    BY <1>0, <1>5, FilesIs
  <2>2. PICK lead \in Nat : Ready(lead)
    BY <2>1 DEF Numbers
  <2>3. PICK m \in disk.arch : m.last = lead
    BY <2>2 DEF Ready, Leads
  <2>4. a.last <= lead
    BY <2>2 DEF Ready, Leads
  <2>5. ASSUME Parses(At(q))
        PROVE  /\ At(p).seq < At(q).seq
               /\ \A n \in At(p).seq..At(q).seq : \E l \in OnDisk : l.seq = n
    <3>1. \A j \in 1..q[2] : lines[disk.live][j].seq = lead + j
      <4>1. q[2] \in 1..Len(lines[disk.live]) /\ Parses(lines[disk.live][q[2]])
        BY <1>0, <1>5, <2>5
      <4> QED BY <2>1, <2>2, <4>1, NumbersFound
    <3>2. At(q).seq = lead + q[2]
      BY <1>0, <1>5, <3>1
    <3>3. ASSUME NEW n \in At(p).seq..At(q).seq PROVE \E l \in OnDisk : l.seq = n
      <4>1. CASE n > lead
        <5>1. PICK j \in 1..q[2] : lead + j = n
          <6>1. n - lead \in 1..q[2] /\ lead + (n - lead) = n
            BY <1>0, <3>2, <3>3, <4>1
          <6> QED BY <6>1
        <5>2. j \in 1..Len(lines[disk.live])
          BY <1>0, <1>5
        <5> QED BY <1>0, <1>5, <3>1, <5>1, <5>2, PlacesAre
      <4>2. CASE n <= lead
        <5>1. n \in a.first..m.last
          BY <1>1, <1>3, <2>3, <3>2, <3>3, <4>2
        <5>2. PICK c \in disk.arch : n \in c.first..c.last
          BY <5>1 DEF Numbers, Chained
        <5> QED BY <5>2, NumbersFound
      <4>3. n \in Int
        BY <1>1, <1>3, <3>2, <3>3
      <4> QED BY <4>1, <4>2, <4>3
    <3> QED BY <1>0, <1>1, <1>3, <2>4, <3>2, <3>3
  <2> QED BY <1>3, <2>5
<1> QED BY <1>2, <1>4, <1>5

\* The log of segments in order is whole.
LEMMA NumberedIsWhole == LogTyped /\ Dir /\ Numbered => NumberedWhole
<1> SUFFICES ASSUME LogTyped, Dir, Numbered, deletes = 0, ~hurt, NEW p \in Places, NEW q \in Places,
                    Before(p, q)
             PROVE  /\ Parses(At(p))
                    /\ Parses(At(q)) => /\ At(p).seq < At(q).seq
                                        /\ \A n \in At(p).seq..At(q).seq : \E l \in OnDisk : l.seq = n
  BY DEF NumberedWhole
<1>1. Numbers
  BY DEF Numbered, Sound
<1>2. CASE p[1] = q[1] /\ p[2] < q[2]
  BY <1>1, <1>2, WholeWithin
<1>3. CASE ReadFirst(p[1], q[1])
  BY <1>1, <1>3, WholeAcross
<1> QED BY <1>2, <1>3 DEF Before

----------------------------------------------------------------------------
(* Where the lines come from: a place holds what it held, a piece of a line, or a new record. *)

\* A line that does not parse is blank: it names nothing.
LEMMA BlankIs == Blank(Cut) /\ Blank(Bad)
BY NamesApart DEF Blank, Cut, Bad, Line, Parses, Clients

\* The steps that touch the files, one by one.
LEMMA StepsAre ==
  ASSUME LogTyped, [LogNext]_logVars
  PROVE  \/ Neutral
         \/ \E w \in Tasks : \/ FinalSync(w) \/ Write(w) \/ Notice(w) \/ AfterWrite(w)
                             \/ ensure_log(w) /\ Opens(w)
         \/ RemoveDir \/ Crash \/ Sweep
<1>1. ASSUME NEW w \in Tasks, ensure_log(w),
             ~(/\ Fault("open") /\ log' = [log EXCEPT ![w].gaveUp = TRUE]
               /\ UNCHANGED <<lines, synced, disk>>)
      PROVE  Opens(w)
  <2>1. log[w].file = 0
    BY <1>1 DEF ensure_log
  <2> QED BY <1>1, <2>1, EnsureIs DEF Opens
<1>2. CASE UNCHANGED logVars
  BY <1>2, NeutralIs
<1>3. CASE LogNext
  <2>1. CASE \E w \in Tasks : ensure_log(w) \/ Write(w) \/ Notice(w) \/ AfterWrite(w) \/ FinalSync(w)
    BY <1>1, <2>1, NeutralIs
  <2>2. CASE RemoveDir \/ Crash \/ Sweep
    BY <2>2
  <2>3. CASE ~(\E w \in Tasks : ensure_log(w) \/ Write(w) \/ Notice(w) \/ AfterWrite(w) \/ FinalSync(w))
             /\ ~RemoveDir /\ ~Crash /\ ~Sweep
    BY <1>3, <2>3, NeutralIs DEF LogNext
  <2> QED BY <2>1, <2>2, <2>3
<1> QED BY <1>2, <1>3

\* The segments after a step, and that they are named.
LEMMA SegmentsNext ==
  ASSUME LogTyped, LogTyped'
  PROVE  /\ Segments' \subseteq Files /\ Segments \subseteq Files
         /\ \A f \in Files : f \in Segments' <=> f = disk'.live \/ \E a \in disk'.arch : a.file = f
         /\ \A f \in Files : f \in Segments <=> f = disk.live \/ \E a \in disk.arch : a.file = f
         /\ \A f \in Files : f \in Segments' => Named(f)'
         /\ \A f \in Files : f \in Segments => Named(f)
<1>1. /\ disk.live \in Files \cup {0} /\ \A a \in disk.arch : a.file \in Files
  BY FilesIs
<1>2. disk'.live \in Files \cup {0} /\ \A a \in disk'.arch : a.file \in Files
  <2>1. disk' \in DirType
    BY DEF LogTyped, DiskOK
  <2> QED BY <2>1 DEF DirType, SegType
<1>3. 0 \notin Files
  BY NamesApart
<1>4. /\ Segments' \subseteq Files
      /\ \A f \in Files : f \in Segments' <=> f = disk'.live \/ \E a \in disk'.arch : a.file = f
  BY <1>2, <1>3 DEF Segments
<1>5. /\ Segments \subseteq Files
      /\ \A f \in Files : f \in Segments <=> f = disk.live \/ \E a \in disk.arch : a.file = f
  BY <1>1, <1>3 DEF Segments
<1> QED BY <1>4, <1>5 DEF Named

\* A step that gives no segment a line it did not have.
LEMMA NamedFewer ==
  ASSUME LogTyped, LogTyped',
         \A f \in Segments' : (f \in Segments /\ lines'[f] = lines[f]) \/ lines'[f] = <<>>
  PROVE  FewerLines
<1> SUFFICES ASSUME NEW f \in Segments', NEW i \in 1..Len(lines'[f])
             PROVE  Blank(lines'[f][i]) \/ Same(f, i)
  BY DEF FewerLines
<1>1. CASE f \in Segments /\ lines'[f] = lines[f]
  BY <1>1 DEF Same
<1>2. CASE lines'[f] = <<>>
  BY <1>2
<1> QED BY <1>1, <1>2

\* A record written is the one new line.
LEMMA GrownLines ==
  ASSUME LogTyped, LogTyped', NEW w \in Tasks, log[w].file \in Files, log[w].next \in Nat,
         NEW r \in Words, NEW ref \in SUBSET Images, Grown(w, r, ref)
  PROVE  /\ Segments' = Segments
         /\ \A f \in Segments' : \A i \in 1..Len(lines'[f]) :
              \/ Blank(lines'[f][i]) \/ Same(f, i)
              \/ /\ f = log[w].file /\ i = Len(lines[f]) + 1
                 /\ lines'[f][i] = Line(log[w].next, r, ref)
<1>0. lines \in [Files -> Seq(LineType)] /\ \A f \in Files : Len(lines[f]) \in Nat
  BY FilesIs
<1>1. disk' = disk /\ Segments' = Segments
  BY DEF Grown, Segments
<1> DEFINE g == log[w].file
           l == Line(log[w].next, r, ref)
<1>2. lines'[g] = Appended(lines[g], l) /\ \A f \in Files \ {g} : lines'[f] = lines[f]
  BY <1>0 DEF Grown
<1>3. l \in LineType
  BY LineIs
<1> HIDE DEF l
<1>4. ASSUME NEW i \in 1..Len(lines'[g]), g \in Segments
      PROVE  \/ Blank(lines'[g][i]) \/ Same(g, i)
             \/ i = Len(lines[g]) + 1 /\ lines'[g][i] = l
  <2>1. CASE lines[g] = <<>> \/ lines[g][Len(lines[g])] # Cut
    <3>1. lines'[g] = Append(lines[g], l)
      BY <1>0, <1>2, <1>3, <2>1, AppendedIs
    <3>2. /\ Len(lines'[g]) = Len(lines[g]) + 1
          /\ \A j \in 1..Len(lines[g]) : lines'[g][j] = lines[g][j]
          /\ lines'[g][Len(lines[g]) + 1] = l
      BY <1>0, <1>3, <3>1, AppendIs
    <3>3. i \in 1..Len(lines[g]) \/ i = Len(lines[g]) + 1
      <4>1. Len(lines[g]) \in Nat
        BY <1>0
      <4>2. i \in 1..(Len(lines[g]) + 1)
        BY <3>2
      <4> QED BY <4>1, <4>2
    <3> QED BY <1>4, <3>2, <3>3 DEF Same
  <2>2. CASE lines[g] # <<>> /\ lines[g][Len(lines[g])] = Cut
    <3>1. /\ Len(lines'[g]) = Len(lines[g]) /\ lines'[g][Len(lines[g])] = Bad
          /\ \A j \in 1..(Len(lines[g]) - 1) : lines'[g][j] = lines[g][j]
      <4>1. lines[g] \in Seq(LineType)
        BY <1>0
      <4>2. /\ Len(Appended(lines[g], l)) = Len(lines[g]) /\ Appended(lines[g], l)[Len(lines[g])] = Bad
            /\ \A j \in 1..(Len(lines[g]) - 1) : Appended(lines[g], l)[j] = lines[g][j]
        BY <1>3, <2>2, <4>1, AppendedIs
      <4> QED BY <1>2, <4>2
    <3>2. i \in 1..(Len(lines[g]) - 1) \/ i = Len(lines[g])
      <4>1. Len(lines[g]) \in Nat
        BY <1>0
      <4>2. i \in 1..Len(lines[g])
        BY <3>1
      <4> QED BY <4>1, <4>2
    <3> QED BY <1>0, <1>4, <3>1, <3>2, BlankIs DEF Same
  <2> QED BY <2>1, <2>2
<1>5. Segments \subseteq Files
  BY SegmentsNext
<1>6. \A f \in Segments' : \A i \in 1..Len(lines'[f]) :
        \/ Blank(lines'[f][i]) \/ Same(f, i)
        \/ f = log[w].file /\ i = Len(lines[f]) + 1 /\ lines'[f][i] = l
  <2> TAKE f \in Segments'
  <2> TAKE i \in 1..Len(lines'[f])
  <2>1. CASE f = g
    BY <1>1, <1>4, <2>1
  <2>2. CASE f # g
    BY <1>1, <1>2, <1>5, <2>2 DEF Same
  <2> QED BY <2>1, <2>2
<1> QED BY <1>1, <1>6 DEF l

\* A line cut short or a realigned file has no new record.
LEMMA CutLines ==
  ASSUME LogTyped, LogTyped', NEW w \in Tasks, log[w].file \in Files, LeftTorn(w) \/ Cuts(w)
  PROVE  FewerLines
<1>0. /\ lines \in [Files -> Seq(LineType)] /\ \A f \in Files : Len(lines[f]) \in Nat
      /\ disk \in DirType /\ 0 \notin Files /\ Segments \subseteq Files /\ Segments' \subseteq Files
  BY FilesIs, SegmentsNext
<1>1. CASE LeftTorn(w)
  <2>1. /\ lines' = [lines EXCEPT ![log[w].file] = Torn(@)] /\ Segments' = Segments
    BY <1>1 DEF LeftTorn, Segments
  <2> SUFFICES ASSUME NEW f \in Segments', NEW i \in 1..Len(lines'[f])
               PROVE  Blank(lines'[f][i]) \/ Same(f, i)
    BY DEF FewerLines
  <2>2. CASE f = log[w].file
    <3>1. lines'[f] = Torn(lines[f])
      BY <1>0, <2>1, <2>2
    <3>2. lines'[f][i] = Cut \/ (i <= Len(lines[f]) /\ lines'[f][i] = lines[f][i])
      BY <1>0, <3>1, TornIs
    <3>3. i \in Nat /\ i >= 1
      OBVIOUS
    <3> QED BY <1>0, <2>1, <3>2, <3>3, BlankIs DEF Same
  <2>3. CASE f # log[w].file
    BY <1>0, <2>1, <2>3 DEF Same
  <2> QED BY <2>2, <2>3
<1>2. CASE Cuts(w)
  <2>1. PICK f \in Files, t \in Seq(LineType) : Realigned(w, f, t)
    BY <1>2 DEF Cuts
  <2>2. /\ disk'.live = f /\ disk'.arch = disk.arch
        /\ lines' = Kept([lines EXCEPT ![f] = t], disk', log')
        /\ disk.live # 0 => f = disk.live
    BY <1>0, <2>1 DEF Realigned, DirType
  <2>3. [lines EXCEPT ![f] = t] \in [Files -> Seq(LineType)]
    BY <1>0
  <2>4. \A g \in Segments' : lines'[g] = [lines EXCEPT ![f] = t][g]
    BY <2>2, <2>3, KeptNamed, SegmentsNext
  <2>5. \A g \in Segments' : g = f \/ g \in Segments
    BY <1>0, <2>2, SegmentsNext
  <2> SUFFICES ASSUME NEW g \in Segments', NEW i \in 1..Len(lines'[g])
               PROVE  Blank(lines'[g][i]) \/ Same(g, i)
    BY DEF FewerLines
  <2>6. CASE g = f
    <3>1. lines'[g] = t
      BY <1>0, <2>4, <2>6
    <3>2. t[i] = Cut \/ (disk.live # 0 /\ i <= Len(lines[f]) /\ t[i] = lines[f][i])
      BY <2>1, <3>1 DEF Realigned
    <3>3. CASE t[i] = Cut
      BY <3>1, <3>3, BlankIs
    <3>4. CASE disk.live # 0 /\ i <= Len(lines[f]) /\ t[i] = lines[f][i]
      <4>1. f \in Segments
        BY <2>2, <3>4, SegmentsNext
      <4>2. i \in 1..Len(lines[f])
        BY <1>0, <3>4
      <4> QED BY <2>6, <3>1, <3>4, <4>1, <4>2 DEF Same
    <3> QED BY <3>2, <3>3, <3>4
  <2>7. CASE g # f
    BY <1>0, <2>4, <2>5, <2>7 DEF Same
  <2> QED BY <2>6, <2>7
<1> QED BY <1>1, <1>2

\* A file a segment references is named by a line of it.
LEMMA ReferencedIs ==
  ASSUME NEW s \in Seq(LineType), NEW x \in referenced_files_in(s)
  PROVE  \E i \in 1..Len(s) : x \in s[i].ref
<1> DEFINE bad == {i \in DOMAIN s : ~Parses(s[i])}
           end == IF bad = {} THEN Len(s) ELSE Min(bad) - 1
<1>0. Len(s) \in Nat /\ DOMAIN s = 1..Len(s)
  OBVIOUS
<1>1. end <= Len(s)
  <2>1. CASE bad = {}
    BY <1>0, <2>1
  <2>2. CASE bad # {}
    <3>1. bad \subseteq Nat
      BY <1>0
    <3>2. Min(bad) \in bad
      BY <2>2, <3>1, LeastIs
    <3>3. Min(bad) \in 1..Len(s)
      BY <1>0, <3>2
    <3> HIDE DEF bad
    <3> QED BY <1>0, <2>2, <3>3
  <2> QED BY <2>1, <2>2
<1>2. referenced_files_in(s) = UNION {s[i].ref : i \in 1..end}
  BY DEF referenced_files_in
<1> HIDE DEF end
<1>3. PICK i \in 1..end : x \in s[i].ref
  BY <1>2
<1>4. end \in Int => i \in 1..Len(s)
  BY <1>0, <1>1
<1>5. end \in Int
  <2>1. CASE bad = {}
    BY <1>0, <2>1 DEF end
  <2>2. CASE bad # {}
    <3>1. bad \subseteq Nat
      BY <1>0
    <3>2. Min(bad) \in Nat
      BY <2>2, <3>1, LeastIs
    <3> HIDE DEF bad
    <3> QED BY <2>2, <3>2 DEF end
  <2> QED BY <2>1, <2>2
<1> QED BY <1>3, <1>4, <1>5

\* What a file named by removed segments was: named by a line of one of them.
LEMMA SparedBy ==
  ASSUME LogTyped, NEW H, \A a \in H : a.file \in Files, NEW b, NEW x \in b \ Spared(b, H)
  PROVE  \E a \in H : \E i \in 1..Len(lines[a.file]) : x \in lines[a.file][i].ref
<1>1. PICK a \in H : x \in referenced_files_in(lines[a.file])
  BY DEF Spared
<1>2. lines[a.file] \in Seq(LineType)
  BY FilesIs
<1> QED BY <1>1, <1>2, ReferencedIs

\* The segments once the live one is renamed are those there were, without G.
LEMMA RenamedLines ==
  ASSUME LogTyped, LogTyped', Dir, NEW w \in Tasks, mode[w] = "wrote", disk.live # 0,
         NEW G \in SUBSET disk.arch
  PROVE  /\ Archived(w, Less(disk, G)).live = 0
         /\ \A a \in Archived(w, Less(disk, G)).arch :
              /\ a.file \in Files /\ a.file \in Segments /\ \A b \in G : a.file # b.file
         /\ \A a, b \in Archived(w, Less(disk, G)).arch : a.file = b.file => a = b
         /\ \E a \in Archived(w, Less(disk, G)).arch : a.file = disk.live
<1>0. /\ disk \in DirType /\ log[w] \in FileType /\ \A a \in disk.arch : a.file \in Files
      /\ IsFiniteSet(disk.arch)
  BY FilesIs
<1>1. log[w].next > 0 /\ log[w].file # 0
  <2>1. log[w].file \in Files /\ log[w].next \in Nat \ {0} /\ 0 \notin Files
    BY WorkerIs, FilesIs DEF Handling
  <2> QED BY <2>1
<1>2. /\ Less(disk, G).arch = disk.arch \ G /\ Less(disk, G).live = disk.live
      /\ Less(disk, G) \in DirType /\ IsFiniteSet(Less(disk, G).arch)
  BY <1>0, LessIs
<1>3. PICK first \in Nat, final \in Nat :
        /\ final = log[w].next - 1
        /\ first = IF log[w].first = 0 THEN final ELSE log[w].first
        /\ Archived(w, Less(disk, G)).arch =
             {a \in Less(disk, G).arch : a.first # first \/ a.last # final}
             \cup {[first |-> first, last |-> final, file |-> Less(disk, G).live]}
  BY <1>0, <1>1, <1>2, ArchivedIs
<1>4. Archived(w, Less(disk, G)).live = 0
  BY <1>0, <1>1, <1>2, ArchivedIs
<1>5. PICK x : /\ x.file = disk.live /\ x \in Archived(w, Less(disk, G)).arch
               /\ Archived(w, Less(disk, G)).arch \subseteq (disk.arch \ G) \cup {x}
  BY <1>2, <1>3
<1>6. disk.live \in Files /\ disk.live \in Segments
  BY FilesIs, SegmentsNext
<1>7. \A a \in (disk.arch \ G) \cup {x} :
        a.file \in Files /\ a.file \in Segments /\ \A b \in G : a.file # b.file
  <2>1. \A a \in disk.arch : a.file \in Files /\ a.file \in Segments /\ a.file # disk.live
    BY <1>0, SegmentsNext DEF Dir
  <2>2. \A a \in disk.arch \ G : \A b \in G : a.file # b.file
    BY DEF Dir
  <2> QED BY <1>5, <1>6, <2>1, <2>2
<1>8. \A a, b \in (disk.arch \ G) \cup {x} : a.file = b.file => a = b
  BY <1>5 DEF Dir
<1> QED BY <1>4, <1>5, <1>7, <1>8

\* A rename that is not followed by a new segment leaves no line that was not there.
LEMMA StrandedLines ==
  ASSUME LogTyped, LogTyped', Dir, NEW w \in Tasks, mode[w] = "wrote", disk.live # 0,
         NEW G \in SUBSET disk.arch, disk' = Archived(w, Less(disk, G)),
         beside' = Spared(beside, G), lines' = Kept(lines, disk', log')
  PROVE  /\ FewerLines /\ (\E Z : Trimmed(Z)) /\ \A f \in Segments' : lines'[f] = lines[f]
         /\ disk.live \in Segments'
<1>0. /\ lines \in [Files -> Seq(LineType)] /\ Segments' \subseteq Files
      /\ \A a \in G : a.file \in Files /\ a.file \in Segments
  BY FilesIs, SegmentsNext
<1>1. \A f \in Segments' : lines'[f] = lines[f]
  BY <1>0, KeptNamed, SegmentsNext
<1>2. \A f \in Segments' : f \in Segments /\ \A a \in G : f # a.file
  <2>1. /\ disk'.live = 0
        /\ \A a \in disk'.arch : a.file \in Segments /\ \A b \in G : a.file # b.file
    BY RenamedLines
  <2>2. SUFFICES ASSUME NEW f \in Segments' PROVE f \in Segments /\ \A a \in G : f # a.file
    OBVIOUS
  <2>3. f \in Files /\ f # 0
    BY <1>0, NamesApart
  <2>4. PICK a \in disk'.arch : a.file = f
    BY <2>1, <2>3, SegmentsNext
  <2> QED BY <2>1, <2>4
<1>3. FewerLines
  BY <1>1, <1>2, NamedFewer
<1>4. Trimmed({a.file : a \in G})
  <2>1. ASSUME NEW x \in beside \ beside'
        PROVE  \E f \in {a.file : a \in G} : \E i \in 1..Len(lines[f]) : x \in lines[f][i].ref
    BY <1>0, SparedBy
  <2>2. beside' \subseteq beside
    BY DEF Spared
  <2> QED BY <1>0, <1>2, <2>1, <2>2 DEF Trimmed
<1>5. disk.live \in Segments'
  BY RenamedLines, SegmentsNext, FilesIs
<1> QED BY <1>1, <1>3, <1>4, <1>5

\* So does an end inside a rotation.
LEMMA HaltLines ==
  ASSUME LogTyped, LogTyped', Dir, NEW w \in Tasks, CutRotation(w)
  PROVE  /\ FewerLines /\ (\E Z : Trimmed(Z)) /\ \A f \in Segments' : lines'[f] = lines[f]
         /\ disk.live \in Segments'
<1>1. mode[w] = "wrote" /\ \E G : Halted(w, G)
  BY HaltIs
<1>2. PICK G : Halted(w, G)
  BY <1>1
<1> QED BY <1>1, <1>2, StrandedLines DEF Halted, OldestOf

\* The cap and a rotation leave no line that was not there.
LEMMA TurnsLines ==
  ASSUME LogTyped, LogTyped', Dir, NEW w \in Tasks, AfterWrite(w)
  PROVE  /\ FewerLines /\ \E Z : Trimmed(Z)
         /\ \A f \in Segments' : lines'[f] = lines[f]
<1>0. /\ lines \in [Files -> Seq(LineType)] /\ \A f \in Files : Len(lines[f]) \in Nat
      /\ disk \in DirType /\ IsFiniteSet(disk.arch) /\ 0 \notin Files
      /\ Segments \subseteq Files /\ Segments' \subseteq Files
      /\ \A a \in disk.arch : a.file \in Files
      /\ log[w] \in FileType
  BY FilesIs, SegmentsNext
<1>1. lines' = Kept(lines, disk', log')
  BY Zenon DEF AfterWrite
<1>2. log[w].next > 0 /\ log[w].file # 0
  <2>1. mode[w] \in Handling
    BY Zenon DEF AfterWrite, Handling
  <2>2. log[w].file \in Files /\ log[w].next \in Nat \ {0}
    BY <2>1, WorkerIs
  <2> QED BY <1>0, <2>2
<1>3. \A f \in Segments' : lines'[f] = lines[f]
  BY <1>0, <1>1, KeptNamed, SegmentsNext
<1>4. PICK G : /\ Takes(disk, G)
               /\ \/ Stayed(w, G)
                  \/ Stranded(w, G)
                  \/ \E g \in Files : \E H : Rotated(w, G, g, H)
  BY AfterWriteIs
<1>5. /\ Less(disk, G).arch = disk.arch \ G /\ Less(disk, G).live = disk.live
      /\ G \subseteq disk.arch
  BY <1>0, <1>4, LessIs DEF Takes
<1>6. mode[w] = "wrote"
  BY Zenon DEF AfterWrite
<1>7. \A a \in G : a.file \in Files /\ a.file \in Segments /\ a.file # disk.live
  <2> TAKE a \in G
  <2>1. a \in disk.arch /\ a.file \in Files
    BY <1>0, <1>5
  <2>2. a.file \in Segments
    BY <2>1, SegmentsNext
  <2> QED BY <2>1, <2>2 DEF Dir
<1>8. CASE Stayed(w, G)
  <2>1. disk'.arch = disk.arch \ G /\ disk'.live = disk.live /\ beside' = Spared(beside, G)
    BY <1>5, <1>8 DEF Stayed
  <2>2. \A f \in Segments' : f \in Segments
    BY <1>0, <2>1, SegmentsNext
  <2>3. FewerLines
    BY <1>3, <2>2, NamedFewer
  <2>4. ASSUME NEW a \in G PROVE a.file \notin Segments'
    BY <1>5, <1>7, <2>1, SegmentsNext DEF Dir
  <2>5. Trimmed({a.file : a \in G})
    <3>1. ASSUME NEW x \in beside \ beside'
          PROVE  \E f \in {a.file : a \in G} : \E i \in 1..Len(lines[f]) : x \in lines[f][i].ref
      BY <1>7, <2>1, SparedBy
    <3>2. beside' \subseteq beside
      BY <2>1 DEF Spared
    <3> QED BY <1>7, <2>4, <3>1, <3>2 DEF Trimmed
  <2> QED BY <1>3, <2>3, <2>5
<1>9. CASE Stranded(w, G)
  <2>1. disk.live # 0 /\ disk' = Archived(w, Less(disk, G)) /\ beside' = Spared(beside, G)
    BY <1>9 DEF Stranded
  <2> QED BY <1>1, <1>5, <1>6, <2>1, StrandedLines
<1>10. CASE \E g \in Files : \E H : Rotated(w, G, g, H)
  <2>0. PICK g \in Files : \E H : Rotated(w, G, g, H)
    BY <1>10
  <2>1. PICK H : Rotated(w, G, g, H)
    BY <2>0
  <2>2. /\ disk.live # 0 /\ FreeFile(g) /\ Takes(Turned(w, G, g), H)
        /\ disk' = Less(Turned(w, G, g), H) /\ beside' = Spared(Spared(beside, G), H)
    BY <2>1 DEF Rotated
  <2>3. /\ Turned(w, G, g) \in DirType /\ IsFiniteSet(Turned(w, G, g).arch)
        /\ Turned(w, G, g).live = g /\ Turned(w, G, g).arch = Archived(w, Less(disk, G)).arch
    BY <1>2, <2>2, TurnedIs
  <2>4. disk'.live = g /\ disk'.arch = Archived(w, Less(disk, G)).arch \ H
    <3>1. /\ Less(Turned(w, G, g), H).arch = Turned(w, G, g).arch \ H
          /\ Less(Turned(w, G, g), H).live = Turned(w, G, g).live
      BY <2>3, LessIs
    <3> QED BY <2>2, <2>3, <3>1
  <2>5. ~Named(g) /\ g \notin Segments /\ lines[g] = <<>>
    BY <2>2, NamedIs, SegmentsNext DEF Dir
  <2>6. H \subseteq Archived(w, Less(disk, G)).arch
    BY <2>2, <2>3 DEF Takes
  <2>7. \A f \in Segments' : f = g \/ \E a \in disk'.arch : a.file = f
    BY <1>0, <2>4, SegmentsNext
  <2>8. \A f \in Segments' : f = g \/ f \in Segments
    BY <1>5, <1>6, <2>2, <2>4, <2>7, RenamedLines
  <2>9. FewerLines
    BY <1>3, <2>5, <2>8, NamedFewer
  <2>10. ASSUME NEW a \in G \cup H PROVE a.file \in Segments /\ a.file \in Files /\ a.file \notin Segments'
    <3>1. a.file \in Segments /\ a.file \in Files
      BY <1>5, <1>6, <1>7, <2>2, <2>6, RenamedLines
    <3>2. a.file # g
      BY <2>5, <3>1
    <3>3. \A b \in disk'.arch : b.file # a.file
      BY <1>5, <1>6, <2>2, <2>4, <2>6, RenamedLines
    <3> QED BY <2>7, <3>1, <3>2, <3>3
  <2>11. Trimmed({a.file : a \in G \cup H})
    <3>1. ASSUME NEW x \in beside \ beside'
          PROVE  \E f \in {a.file : a \in G \cup H} : \E i \in 1..Len(lines[f]) : x \in lines[f][i].ref
      <4>1. CASE x \in Spared(beside, G)
        <5>1. x \in Spared(beside, G) \ Spared(Spared(beside, G), H)
          BY <2>2, <3>1, <4>1
        <5>2. \A a \in H : a.file \in Files
          BY <2>10
        <5>3. \E a \in H : \E i \in 1..Len(lines[a.file]) : x \in lines[a.file][i].ref
          BY <5>1, <5>2, SparedBy
        <5> QED BY <5>3
      <4>2. CASE x \notin Spared(beside, G)
        BY <1>7, <3>1, <4>2, SparedBy
      <4> QED BY <4>1, <4>2
    <3>2. beside' \subseteq beside
      BY <2>2 DEF Spared
    <3> QED BY <2>10, <3>1, <3>2 DEF Trimmed
  <2> QED BY <1>3, <2>9, <2>11
<1> QED BY <1>3, <1>4, <1>8, <1>9, <1>10

\* A step adds no record to the log, or the one the writer has in hand.
LEMMA LinesFrom ==
  ASSUME LogTyped, LogTyped', Dir, [LogNext]_logVars
  PROVE  FewerLines \/ \E w \in Tasks, r \in Words, ref \in SUBSET Images : Added(w, r, ref)
<1>0. /\ lines \in [Files -> Seq(LineType)] /\ \A f \in Files : Len(lines[f]) \in Nat
      /\ disk \in DirType /\ log \in [Tasks -> FileType] /\ 0 \notin Files
      /\ Segments \subseteq Files /\ Segments' \subseteq Files
      /\ disk.live \in Files \cup {0}
  BY FilesIs, SegmentsNext
<1>1. CASE Neutral
  <2>1. Segments' = Segments /\ lines' = lines
    BY <1>1 DEF Neutral, Segments
  <2> QED BY <2>1, NamedFewer
<1>2. ASSUME NEW w \in Tasks, FinalSync(w) PROVE FewerLines
  <2>1. disk' = disk /\ lines' = Kept(lines, disk', log')
    BY <1>2 DEF FinalSync
  <2>2. Segments' = Segments
    BY <2>1 DEF Segments
  <2>3. \A f \in Segments' : lines'[f] = lines[f]
    BY <1>0, <2>1, KeptNamed, SegmentsNext
  <2> QED BY <2>2, <2>3, NamedFewer
<1>3. ASSUME NEW w \in Tasks, Opens(w) PROVE FewerLines
  <2>1. PICK f \in Files, s \in Seq(LineType) : Opened(w, f, s)
    BY <1>3 DEF Opens
  <2>2. /\ disk'.live = f /\ disk'.arch = disk.arch
        /\ lines'[f] = s /\ \A g \in Files \ {f} : lines'[g] = lines[g]
    BY <1>0, <2>1 DEF Opened, DirType
  <2> SUFFICES ASSUME NEW g \in Segments', NEW i \in 1..Len(lines'[g])
               PROVE  Blank(lines'[g][i]) \/ Same(g, i)
    BY DEF FewerLines
  <2>3. CASE g = f
    <3>1. s # <<>>
      BY <2>2, <2>3
    <3>2. disk.live # 0 /\ f = disk.live /\ s = repair_tail(lines[f])
      BY <2>1, <3>1 DEF Opened
    <3>3. Len(s) \in 0..Len(lines[f]) /\ \A j \in 1..Len(s) : s[j] = lines[f][j]
      BY <1>0, <3>2, RepairIs
    <3>4. i \in 1..Len(lines[f]) /\ s[i] = lines[f][i]
      BY <1>0, <2>2, <2>3, <3>3
    <3> QED BY <2>2, <2>3, <3>2, <3>4, SegmentsNext DEF Same
  <2>4. CASE g # f
    <3>1. g \in Segments
      BY <1>0, <2>2, <2>4, SegmentsNext
    <3> QED BY <1>0, <2>2, <2>4, <3>1 DEF Same
  <2> QED BY <2>3, <2>4
<1>4. ASSUME NEW w \in Tasks, Write(w) \/ Notice(w)
      PROVE  FewerLines \/ \E r \in Words, ref \in SUBSET Images : Added(w, r, ref)
  <2>1. /\ log[w].file \in Files /\ log[w].next \in Nat
        /\ Write(w) => Msg(w) \in Words /\ Ref(w) \in SUBSET Images
        /\ \/ Write(w) /\ Grown(w, Msg(w), Ref(w))
           \/ Notice(w) /\ Grown(w, "trim", {})
           \/ LeftTorn(w)
           \/ Cuts(w)
    BY <1>4, WritesIs DEF Cuts
  <2>2. CASE Notice(w) /\ Grown(w, "trim", {})
    <3>1. "trim" \in Words /\ {} \in SUBSET Images
      BY DEF Words
    <3> QED BY <2>2, <3>1 DEF Added
  <2>3. CASE LeftTorn(w) \/ Cuts(w)
    BY <2>1, <2>3, CutLines
  <2>4. CASE Write(w) /\ Grown(w, Msg(w), Ref(w))
    BY <2>1, <2>4 DEF Added
  <2> QED BY <2>1, <2>2, <2>3, <2>4
<1>5. CASE RemoveDir
  <2>1. Segments' = {}
    BY <1>5 DEF RemoveDir, NoDir, Segments
  <2> QED BY <2>1 DEF FewerLines
<1>6. ASSUME Crash, CutWrite PROVE FewerLines
  <2>1. /\ disk' = disk
        /\ \/ \A g \in Files : Named(g)' => lines'[g] = lines[g]
           \/ \E k \in Nat, torn \in BOOLEAN :
                /\ disk.live \in Files /\ k \in 0..Len(lines[disk.live])
                /\ lines'[disk.live] = CutShort(disk.live, k, torn)
                /\ \A g \in Files \ {disk.live} : Named(g)' => lines'[g] = lines[g]
    BY <1>6, CrashFiles
  <2>2. Segments' = Segments /\ \A g \in Segments' : Named(g)'
    BY <1>0, <2>1, SegmentsNext DEF Segments
  <2>3. CASE \A g \in Files : Named(g)' => lines'[g] = lines[g]
    BY <1>0, <2>2, <2>3, NamedFewer
  <2>4. CASE \E k \in Nat, torn \in BOOLEAN :
                /\ disk.live \in Files /\ k \in 0..Len(lines[disk.live])
                /\ lines'[disk.live] = CutShort(disk.live, k, torn)
                /\ \A g \in Files \ {disk.live} : Named(g)' => lines'[g] = lines[g]
    <3>1. PICK k \in Nat, torn \in BOOLEAN :
                /\ disk.live \in Files /\ k \in 0..Len(lines[disk.live])
                /\ lines'[disk.live] = CutShort(disk.live, k, torn)
                /\ \A g \in Files \ {disk.live} : Named(g)' => lines'[g] = lines[g]
      BY <2>4
    <3> SUFFICES ASSUME NEW g \in Segments', NEW i \in 1..Len(lines'[g])
                 PROVE  Blank(lines'[g][i]) \/ Same(g, i)
      BY DEF FewerLines
    <3>2. CASE g # disk.live
      BY <1>0, <2>2, <3>1, <3>2 DEF Same
    <3>3. CASE g = disk.live
      <4>1. /\ Len(lines'[g]) = k + (IF torn THEN 1 ELSE 0)
            /\ \A j \in 1..k : lines'[g][j] = lines[g][j]
            /\ torn => lines'[g][k + 1] = Cut
        BY <3>1, <3>3, CutShortIs
      <4>2. CASE i \in 1..k
        <5>1. i \in 1..Len(lines[g])
          BY <1>0, <3>1, <3>3, <4>2
        <5> QED BY <2>2, <4>1, <4>2, <5>1 DEF Same
      <4>3. CASE i \notin 1..k
        <5>1. i = k + 1 /\ torn
          BY <3>1, <4>1, <4>3
        <5> QED BY <4>1, <5>1, BlankIs
      <4> QED BY <4>2, <4>3
    <3> QED BY <3>2, <3>3
  <2> QED BY <2>1, <2>3, <2>4
<1>7. CASE Sweep
  <2>1. /\ lines' = Kept(lines, disk', log')
        /\ disk' = disk \/ (\E a : disk' = [disk EXCEPT !.arch = @ \ {a}])
           \/ disk' = [disk EXCEPT !.live = 0]
    BY <1>7 DEF Sweep, writerVars
  <2>2. disk'.arch \subseteq disk.arch /\ disk'.live \in {disk.live, 0}
    BY <1>0, <2>1 DEF DirType
  <2>3. \A f \in Segments' : f \in Segments
    BY <1>0, <2>2, SegmentsNext
  <2>4. \A f \in Segments' : lines'[f] = lines[f]
    BY <1>0, <2>1, KeptNamed, SegmentsNext
  <2> QED BY <2>3, <2>4, NamedFewer
<1>8. CASE Crash
  BY <1>6, <1>8, HaltLines DEF Crash
<1> QED BY <1>1, <1>2, <1>3, <1>4, <1>5, <1>7, <1>8, TurnsLines, StepsAre

\* A file comes by a copy, and goes by a failed record, a trim, a deletion or a sweep.
LEMMA BesideIs ==
  ASSUME LogTyped, [LogNext]_logVars
  PROVE  \/ beside' = beside
         \/ \E w \in Tasks :
              \/ /\ Copy(w) /\ beside' = beside \cup {Name(w, Msg(w))}
                 /\ Msg(w) \in spilled \/ Name(w, Msg(w)) \notin beside
              \/ /\ Write(w) /\ mode[w] = "copied" /\ beside' = beside \ {Name(w, Msg(w))}
                 /\ ~\E r : Grown(w, r, Ref(w))
              \/ AfterWrite(w)
              \/ Crash /\ CutRotation(w)
         \/ RemoveDir \/ Sweep
<1>1. ASSUME NEW w \in Tasks, Write(w), beside' # beside
      PROVE  /\ mode[w] = "copied" /\ beside' = beside \ {Name(w, Msg(w))}
             /\ ~\E r : Grown(w, r, Ref(w))
  <2>1. /\ WroteUnsynced(w, Msg(w), Ref(w)) \/ WriteFailed(w)
        /\ Msg(w) \in Snaps /\ beside' = beside \ {Name(w, Msg(w))}
    BY <1>1 DEF Write
  <2>2. mode[w] = "copied"
    <3>1. mode[w] \in {"copied", "plain"}
      BY <1>1, <2>1, NamesApart DEF Write, Clients, Callers
    <3>2. mode[w] # "plain"
      BY <2>1, NamesApart, WorkerIs DEF Handling
    <3> QED BY <3>1, <3>2
  <2>3. Msg(w) # "start"
    BY <2>1, NamesApart DEF Clients, Callers
  <2>4. LeftTorn(w) \/ \E f \in Files, t \in Seq(LineType) : Realigned(w, f, t)
    BY <2>1, <2>3, WriteFailedIs DEF WroteUnsynced
  <2>5. log'[w].next = log[w].next
    <3>1. log' = log \/ \E f \in Files : log' = [log EXCEPT ![w].file = f]
      BY <2>4 DEF LeftTorn, Realigned
    <3>2. log \in [Tasks -> FileType]
      BY FilesIs
    <3> QED BY <3>1, <3>2 DEF FileType
  <2>6. log[w].next \in Nat
    BY FilesIs DEF FileType
  <2>7. ~\E r : Grown(w, r, Ref(w))
    BY <2>5, <2>6 DEF Grown
  <2> QED BY <2>1, <2>2, <2>7
<1>2. CASE \E w \in Tasks : Copy(w)
  BY <1>2 DEF Copy
<1>3. CASE UNCHANGED logVars
  BY <1>3 DEF logVars, diskVars
<1>4. ASSUME LogNext, ~(\E w \in Tasks : Write(w) \/ Copy(w) \/ AfterWrite(w)), ~RemoveDir, ~Sweep,
             ~Crash
      PROVE  beside' = beside
  BY ZenonT(40), <1>4 DEF LogNext, Open, Collect, Send, Tracked, Reopen, Take, TimerSync, Idle,
     DropRx,
     FinalSync, EndBatch, SyncMsg, CloseMsg, SkipMsg, ensure_log, Notice,
     DeleteRows, Forget, SendClose, ForgetTimesOut, Boot, diskVars
<1>5. CASE Crash
  BY <1>5 DEF Crash, CutWrite
<1> QED BY <1>1, <1>2, <1>3, <1>4, <1>5

----------------------------------------------------------------------------
(* A result is recorded once: what a writer has still to write holds no record twice, and none *)
(* that is on disk. *)

\* Without its first, a list without repeated records has none, and not that one.
LEMMA DistinctTail ==
  ASSUME NEW s \in Seq(Messages), s # <<>>, Distinct(s)
  PROVE  Distinct(Tail(s)) /\ (Head(s) \in Recs => Head(s) \notin Range(Tail(s)))
<1>1. /\ Head(s) = s[1] /\ Tail(s) \in Seq(Messages) /\ Len(s) \in Nat /\ Len(s) > 0
      /\ Len(Tail(s)) = Len(s) - 1 /\ \A i \in 1..(Len(s) - 1) : Tail(s)[i] = s[i + 1]
  BY TailIs
<1>2. ASSUME NEW i \in 1..Len(Tail(s)), NEW j \in 1..Len(Tail(s)),
             Tail(s)[i] \in Recs, Tail(s)[i] = Tail(s)[j]
      PROVE  i = j
  <2>1. i + 1 \in 1..Len(s) /\ j + 1 \in 1..Len(s) /\ s[i + 1] \in Recs /\ s[i + 1] = s[j + 1]
    BY <1>1, <1>2
  <2>2. i + 1 = j + 1
    BY <2>1 DEF Distinct
  <2> QED BY <1>1, <2>2
<1>3. ASSUME Head(s) \in Recs, Head(s) \in Range(Tail(s)) PROVE FALSE
  <2>1. PICK i \in 1..Len(Tail(s)) : Tail(s)[i] = Head(s)
    BY <1>1, <1>3 DEF Range
  <2>2. 1 \in 1..Len(s) /\ i + 1 \in 1..Len(s) /\ s[1] \in Recs /\ s[1] = s[i + 1]
    BY <1>1, <1>3, <2>1
  <2>3. 1 = i + 1
    BY <2>2 DEF Distinct
  <2> QED BY <1>1, <2>3
<1> QED BY <1>2, <1>3 DEF Distinct

\* A new record at the end repeats none.
LEMMA DistinctAppend ==
  ASSUME NEW s \in Seq(Messages), Distinct(s), NEW m \in Messages, m \in Recs => m \notin Range(s)
  PROVE  Distinct(Append(s, m))
<1>1. /\ Len(s) \in Nat /\ Len(Append(s, m)) = Len(s) + 1
      /\ \A i \in 1..Len(s) : Append(s, m)[i] = s[i]
      /\ Append(s, m)[Len(s) + 1] = m
  BY AppendIs
<1>2. \A i \in 1..Len(s) : s[i] \in Range(s)
  BY DEF Range
<1> SUFFICES ASSUME NEW i \in 1..(Len(s) + 1), NEW j \in 1..(Len(s) + 1),
                    Append(s, m)[i] \in Recs, Append(s, m)[i] = Append(s, m)[j]
             PROVE  i = j
  BY <1>1 DEF Distinct
<1>3. (i \in 1..Len(s) \/ i = Len(s) + 1) /\ (j \in 1..Len(s) \/ j = Len(s) + 1)
  BY <1>1
<1>4. CASE i \in 1..Len(s) /\ j \in 1..Len(s)
  BY <1>1, <1>4 DEF Distinct
<1>5. CASE i = Len(s) + 1 /\ j = Len(s) + 1
  BY <1>5
<1>6. CASE i \in 1..Len(s) /\ j = Len(s) + 1
  BY <1>1, <1>2, <1>6
<1>7. CASE i = Len(s) + 1 /\ j \in 1..Len(s)
  BY <1>1, <1>2, <1>7
<1> QED BY <1>3, <1>4, <1>5, <1>6, <1>7

\* The end of such a list is such a list.
LEMMA DistinctLast ==
  ASSUME NEW s \in Seq(Messages), NEW t \in Seq(Messages), Distinct(s \o t)
  PROVE  Distinct(t)
<1>1. /\ Len(s) \in Nat /\ Len(t) \in Nat /\ Len(s \o t) = Len(s) + Len(t)
      /\ \A i \in 1..Len(t) : (s \o t)[Len(s) + i] = t[i]
  BY RangeCat
<1> SUFFICES ASSUME NEW i \in 1..Len(t), NEW j \in 1..Len(t), t[i] \in Recs, t[i] = t[j]
             PROVE  i = j
  BY DEF Distinct
<1>2. Len(s) + i \in 1..Len(s \o t) /\ Len(s) + j \in 1..Len(s \o t)
  BY <1>1
<1>3. Len(s) + i = Len(s) + j
  BY <1>1, <1>2 DEF Distinct
<1> QED BY <1>1, <1>3

\* Appending to the second is appending to both.
LEMMA CatAppend ==
  ASSUME NEW s \in Seq(Messages), NEW t \in Seq(Messages), NEW m \in Messages
  PROVE  s \o Append(t, m) = Append(s \o t, m)
<1>1. Append(t, m) = t \o <<m>> /\ <<m>> \in Seq(Messages) /\ s \o t \in Seq(Messages)
  BY AppendIsConcat, RangeCat
<1>2. Append(s \o t, m) = (s \o t) \o <<m>>
  BY <1>1, AppendIsConcat
<1> QED BY <1>1, <1>2, ConcatAssociative

\* Taking the first of both is taking it from the first.
LEMMA CatTail ==
  ASSUME NEW s \in Seq(Messages), NEW t \in Seq(Messages), s # <<>>
  PROVE  s \o t # <<>> /\ Tail(s \o t) = Tail(s) \o t /\ Head(s \o t) = Head(s)
<1>1. /\ Tail(s) \in Seq(Messages) /\ Len(Tail(s)) = Len(s) - 1 /\ Len(s) > 0 /\ Len(s) \in Nat
      /\ \A i \in 1..(Len(s) - 1) : Tail(s)[i] = s[i + 1]
      /\ Head(s) = s[1]
  BY TailIs
<1>2. /\ s \o t \in Seq(Messages) /\ Len(s \o t) = Len(s) + Len(t) /\ Len(t) \in Nat
      /\ \A i \in 1..Len(s) : (s \o t)[i] = s[i]
      /\ \A i \in 1..Len(t) : (s \o t)[Len(s) + i] = t[i]
  BY RangeCat
<1>3. s \o t # <<>>
  BY <1>1, <1>2
<1>4. /\ Tail(s \o t) \in Seq(Messages) /\ Len(Tail(s \o t)) = Len(s) + Len(t) - 1
      /\ \A i \in 1..(Len(s) + Len(t) - 1) : Tail(s \o t)[i] = (s \o t)[i + 1]
      /\ Head(s \o t) = (s \o t)[1]
  BY <1>2, <1>3, TailIs
<1>5. /\ Tail(s) \o t \in Seq(Messages) /\ Len(Tail(s) \o t) = Len(s) - 1 + Len(t)
      /\ \A i \in 1..(Len(s) - 1) : (Tail(s) \o t)[i] = Tail(s)[i]
      /\ \A i \in 1..Len(t) : (Tail(s) \o t)[Len(s) - 1 + i] = t[i]
  BY <1>1, RangeCat
<1>6. ASSUME NEW i \in 1..(Len(s) + Len(t) - 1) PROVE Tail(s \o t)[i] = (Tail(s) \o t)[i]
  <2>1. CASE i \in 1..(Len(s) - 1)
    BY <1>1, <1>2, <1>4, <1>5, <2>1
  <2>2. CASE i \notin 1..(Len(s) - 1)
    <3>1. PICK j \in 1..Len(t) : i = Len(s) - 1 + j
      <4> DEFINE j == i - (Len(s) - 1)
      <4>1. j \in 1..Len(t) /\ i = Len(s) - 1 + j
        BY <1>1, <1>2, <2>2
      <4> HIDE DEF j
      <4> QED BY <4>1
    <3>2. Tail(s \o t)[i] = (s \o t)[Len(s) + j]
      <4>1. i + 1 = Len(s) + j
        BY <1>1, <3>1
      <4> QED BY <1>4, <4>1
    <3> QED BY <1>2, <1>5, <3>1, <3>2
  <2> QED BY <2>1, <2>2
<1>7. Tail(s \o t) = Tail(s) \o t
  <2>1. Len(Tail(s \o t)) = Len(Tail(s) \o t)
    BY <1>1, <1>2, <1>4, <1>5
  <2> QED BY <1>4, <1>5, <1>6, <2>1, SeqEqual
<1> QED BY <1>1, <1>2, <1>3, <1>4, <1>7

\* What a writer has still to do: its batch without the message just written, and its channel.
LEMMA RestTyped ==
  ASSUME LogTyped, NEW v \in Tasks
  PROVE  /\ Rest(v) \in Seq(Messages) /\ queue[v] \in Seq(Messages) /\ batch[v] \in Seq(Messages)
         /\ Todo(v) \in Seq(Messages)
         /\ Range(Todo(v)) = Range(Rest(v)) \cup Range(queue[v])
         /\ mode[v] \in {"wrote", "trimmed"} => batch[v] # <<>> /\ Rest(v) = Tail(batch[v])
         /\ mode[v] \notin {"wrote", "trimmed"} => Rest(v) = batch[v]
         /\ mode[v] \notin Handling \cup {"work"} => batch[v] = <<>>
<1>1. queue[v] \in Seq(Messages) /\ batch[v] \in Seq(Messages)
  BY DEF LogTyped, ChanOK, WritersOK
<1>2. /\ mode[v] \in {"wrote", "trimmed"} => batch[v] # <<>>
      /\ mode[v] \notin Handling \cup {"work"} => batch[v] = <<>>
  BY DEF LogTyped, ModesAgree, Agrees, Handling
<1>3. Rest(v) \in Seq(Messages)
  BY <1>1, <1>2, TailIs DEF Rest
<1>4. Todo(v) = Rest(v) \o queue[v]
  BY DEF Todo
<1>5. Todo(v) \in Seq(Messages) /\ Range(Todo(v)) = Range(Rest(v)) \cup Range(queue[v])
  BY <1>1, <1>3, <1>4, RangeCat
<1>6. /\ mode[v] \in {"wrote", "trimmed"} => Rest(v) = Tail(batch[v])
      /\ mode[v] \notin {"wrote", "trimmed"} => Rest(v) = batch[v]
  BY DEF Rest
<1> QED BY <1>1, <1>2, <1>3, <1>5, <1>6

\* A task's step leaves what another has still to do.
LEMMA OthersRest ==
  ASSUME LogTyped, NEW w \in Tasks, NEW v \in Tasks, v # w,
         queue' = queue \/ \E q : queue' = [queue EXCEPT ![w] = q],
         batch' = batch \/ \E b : batch' = [batch EXCEPT ![w] = b],
         mode' = mode \/ \E m : mode' = [mode EXCEPT ![w] = m]
  PROVE  RestMoves(v)
<1>1. queue'[v] = queue[v] /\ batch'[v] = batch[v] /\ mode'[v] = mode[v]
  BY DEF LogTyped, ChanOK, WritersOK
<1> QED BY <1>1 DEF RestMoves, Rest

\* A client adds to what a writer has to do at most the record it sends.
LEMMA CallRest ==
  ASSUME LogTyped, NEW v \in Tasks, NEW c \in Clients,
         Open(c) \/ Collect(c) \/ Send(c) \/ Tracked(c) \/ Reopen(c)
  PROVE  RestMoves(v)
<1>0. queue \in [Tasks -> Seq(Messages)] /\ mode \in [Tasks -> WriterModes]
  BY DEF LogTyped, ChanOK, WritersOK
<1>1. batch' = batch
  BY DEF Open, Collect, Send, Tracked, Reopen, writerVars
<1>2. CASE UNCHANGED <<queue, mode>>
  BY <1>1, <1>2 DEF RestMoves, Rest
<1>3. CASE \E w \in Tasks, msgs \in {<<>>, <<"start">>} : Spawned(w, msgs)
  <2>1. PICK w \in Tasks, msgs \in {<<>>, <<"start">>} :
          /\ mode[w] \in {"none", "exit"}
          /\ queue' = [queue EXCEPT ![w] = msgs] /\ mode' = [mode EXCEPT ![w] = "wait"]
    BY <1>3 DEF Spawned, Unspawned
  <2>2. CASE v = w
    <3>1. batch[w] = <<>>
      BY <2>1, RestTyped DEF Handling
    <3>2. queue'[w] = msgs /\ mode'[w] = "wait"
      BY <1>0, <2>1
    <3> QED BY <1>1, <2>2, <3>1, <3>2 DEF RestMoves, Rest
  <2>3. CASE v # w
    BY <1>1, <2>1, <2>3, OthersRest
  <2> QED BY <2>2, <2>3
<1>4. CASE /\ mode' = mode
           /\ \E w \in Tasks, m \in Messages :
                /\ queue' = [queue EXCEPT ![w] = Append(@, m)]
                /\ m \in Recs => pc[m] \in {"held", "fresh"} /\ pc'[m] = "accepted"
  <2>1. PICK w \in Tasks, m \in Messages :
                /\ queue' = [queue EXCEPT ![w] = Append(@, m)]
                /\ m \in Recs => pc[m] \in {"held", "fresh"} /\ pc'[m] = "accepted"
    BY <1>4
  <2>2. CASE v = w
    <3>1. queue'[v] = Append(queue[v], m)
      BY <1>0, <2>1, <2>2
    <3> QED BY <1>1, <1>4, <2>1, <3>1 DEF RestMoves, Rest
  <2>3. CASE v # w
    BY <1>1, <1>4, <2>1, <2>3, OthersRest
  <2> QED BY <2>2, <2>3
<1>5. CASE Open(c)
  <2>1. CASE Live(slot)
    <3>1. slot \in Tasks /\ mode' = mode
      BY <1>5, <2>1 DEF Open, Live, LogTyped, ServiceOK
    <3>2. queue' = queue \/ queue' = [queue EXCEPT ![slot] = Append(@, "start")]
      BY <1>5, <2>1 DEF Open
    <3>3. "start" \in Messages /\ "start" \notin Recs
      BY NamesApart DEF Messages, Clients
    <3> QED BY <1>2, <1>4, <3>1, <3>2, <3>3
  <2>2. CASE ~Live(slot)
    BY <1>3, <1>5, <2>2 DEF Open
  <2> QED BY <2>1, <2>2
<1>6. CASE Send(c)
  <2>1. mode' = mode /\ pc[c] \in {"held", "fresh"} /\ c \in Messages
    BY <1>6 DEF Send, writerVars, Messages
  <2>2. \/ queue' = queue
        \/ /\ queue' = [queue EXCEPT ![hold[c]] = Append(@, c)]
           /\ c \in Recs => pc'[c] = "accepted"
    <3>1. pc \in [Clients -> Stops]
      BY DEF LogTyped, ClientOK
    <3> QED BY <1>6, <3>1 DEF Send
  <2>3. CASE hold[c] \in Tasks
    BY <1>2, <1>4, <2>1, <2>2, <2>3
  <2>4. CASE hold[c] \notin Tasks
    <3>1. queue' = queue
      BY <1>0, <2>2, <2>4
    <3> QED BY <1>2, <2>1, <3>1
  <2> QED BY <2>3, <2>4
<1>7. CASE Collect(c) \/ Tracked(c)
  BY <1>2, <1>7 DEF Collect, Tracked, chanVars, writerVars
<1>8. CASE Reopen(c)
  BY <1>2, <1>3, <1>8 DEF Reopen, chanVars
<1> QED BY <1>5, <1>6, <1>7, <1>8

\* A writer's step takes from what it has to do, or leaves it.
LEMMA TaskRest ==
  ASSUME LogTyped, NEW v \in Tasks, NEW w \in Tasks,
         \/ Take(w) \/ TimerSync(w) \/ Idle(w) \/ DropRx(w) \/ FinalSync(w) \/ EndBatch(w)
         \/ SyncMsg(w) \/ CloseMsg(w) \/ SkipMsg(w) \/ ensure_log(w) \/ Copy(w) \/ Write(w)
         \/ AfterWrite(w) \/ Notice(w)
  PROVE  RestMoves(v)
<1>0. /\ queue \in [Tasks -> Seq(Messages)] /\ mode \in [Tasks -> WriterModes]
      /\ batch \in [Tasks -> Seq(Messages)]
  BY DEF LogTyped, ChanOK, WritersOK
<1>1. CASE Take(w)
  <2>1. /\ mode[w] = "wait" /\ queue[w] = batch'[w] \o queue'[w]
        /\ mode' = [mode EXCEPT ![w] = "work"]
        /\ \A u \in Tasks \ {w} : batch'[u] = batch[u] /\ queue'[u] = queue[u]
    BY <1>1, TakeIs DEF Take
  <2>2. CASE v = w
    <3>1. batch[w] = <<>> /\ mode'[w] = "work"
      BY <1>0, <2>1, RestTyped DEF Handling
    <3> QED BY <2>1, <2>2, <3>1 DEF RestMoves, Rest
  <2>3. CASE v # w
    BY <1>0, <2>1, <2>3 DEF RestMoves, Rest
  <2> QED BY <2>2, <2>3
<1>2. CASE TimerSync(w) \/ ensure_log(w)
  <2>1. UNCHANGED <<queue, batch, mode>>
    BY <1>2 DEF TimerSync, ensure_log, chanVars
  <2> QED BY <2>1 DEF RestMoves, Rest
<1>3. CASE Idle(w) \/ FinalSync(w) \/ DropRx(w) \/ EndBatch(w)
  <2>1. /\ mode[w] \in {"wait", "last", "leave", "work"} /\ batch' = batch
        /\ mode[w] = "work" => batch[w] = <<>>
        /\ queue' = queue \/ queue' = [queue EXCEPT ![w] = <<>>]
        /\ \E m \in {"leave", "exit", "last", "wait"} : mode' = [mode EXCEPT ![w] = m]
    BY <1>3 DEF Idle, FinalSync, DropRx, EndBatch, chanVars
  <2>2. CASE v = w
    <3>1. batch[w] = <<>> /\ mode'[w] \in {"leave", "exit", "last", "wait"}
      BY <1>0, <2>1, RestTyped DEF Handling
    <3>2. queue'[w] \in {queue[w], <<>>}
      BY <1>0, <2>1
    <3> QED BY <2>1, <2>2, <3>1, <3>2 DEF RestMoves, Rest
  <2>3. CASE v # w
    BY <2>1, <2>3, OthersRest
  <2> QED BY <2>2, <2>3
<1>4. CASE CloseMsg(w)
  <2>1. mode[w] = "work" /\ batch' = [batch EXCEPT ![w] = <<>>] /\ UNCHANGED <<queue, mode>>
    BY <1>4 DEF CloseMsg, Working, chanVars
  <2>2. CASE v = w
    BY <1>0, <2>1, <2>2 DEF RestMoves, Rest
  <2>3. CASE v # w
    BY <2>1, <2>3, OthersRest
  <2> QED BY <2>2, <2>3
<1>5. ASSUME mode[w] \in {"work", "copied", "plain"}, batch[w] # <<>>, queue' = queue,
             \/ Pop(w)
             \/ batch' = batch /\ \E m \in {"copied", "plain", "wrote"} : mode' = [mode EXCEPT ![w] = m]
      PROVE  RestMoves(v)
  <2>1. CASE Pop(w)
    <3>1. batch' = [batch EXCEPT ![w] = Tail(@)] /\ mode' = [mode EXCEPT ![w] = "work"]
      BY <2>1 DEF Pop
    <3>2. CASE v = w
      <4>1. batch'[w] = Tail(batch[w]) /\ mode'[w] = "work"
        BY <1>0, <3>1
      <4> QED BY <1>5, <3>2, <4>1 DEF RestMoves, Rest
    <3>3. CASE v # w
      BY <1>5, <3>1, <3>3, OthersRest
    <3> QED BY <3>2, <3>3
  <2>2. CASE batch' = batch /\ \E m \in {"copied", "plain", "wrote"} : mode' = [mode EXCEPT ![w] = m]
    <3>1. CASE v = w
      <4>1. mode'[w] \in {"copied", "plain", "wrote"} /\ batch'[w] = batch[w]
        BY <1>0, <2>2
      <4> QED BY <1>5, <3>1, <4>1 DEF RestMoves, Rest
    <3>2. CASE v # w
      BY <1>5, <2>2, <3>2, OthersRest
    <3> QED BY <3>1, <3>2
  <2> QED BY <1>5, <2>1, <2>2
<1>6. CASE SyncMsg(w) \/ SkipMsg(w)
  BY <1>5, <1>6 DEF SyncMsg, SkipMsg, Working, chanVars
<1>7. CASE Copy(w)
  BY <1>5, <1>7 DEF Copy, NotCopied, Working, chanVars
<1>8. CASE Write(w)
  <2>1. mode[w] \in {"work", "copied", "plain"} /\ batch[w] # <<>>
    BY <1>8, RestTyped, WorkerIs DEF Write, Working, Handling
  <2> QED BY <1>5, <1>8, <2>1 DEF Write, chanVars
<1>9. CASE AfterWrite(w) \/ Notice(w)
  <2>1. mode[w] \in {"wrote", "trimmed"} /\ queue' = queue
    BY Zenon, <1>9 DEF AfterWrite, Notice, chanVars
  <2>2. \/ batch' = batch /\ mode' = [mode EXCEPT ![w] = "trimmed"]
        \/ batch' = [batch EXCEPT ![w] = Tail(@)] /\ mode' = [mode EXCEPT ![w] = "work"]
    <3>1. Answered(w) \/ \E trimmed : Paid(w, trimmed)
      BY Zenon, <1>9, AfterWriteIs DEF Notice, Stayed, Stranded, Rotated
    <3> QED BY <3>1 DEF Paid, Answered, Pop
  <2>3. CASE v = w
    <3>1. \/ batch'[w] = batch[w] /\ mode'[w] = "trimmed"
          \/ batch'[w] = Tail(batch[w]) /\ mode'[w] = "work"
      BY <1>0, <2>2
    <3> QED BY <2>1, <2>3, <3>1 DEF RestMoves, Rest
  <2>4. CASE v # w
    BY <2>1, <2>2, <2>4, OthersRest
  <2> QED BY <2>3, <2>4
<1> QED BY <1>1, <1>2, <1>3, <1>4, <1>6, <1>7, <1>8, <1>9

\* So does every step.
LEMMA RestNext == ASSUME LogTyped, [LogNext]_logVars, NEW v \in Tasks PROVE RestMoves(v)
<1>0. queue \in [Tasks -> Seq(Messages)]
  BY DEF LogTyped, ChanOK
<1>1. CASE UNCHANGED <<mode, batch, queue>>
  BY <1>1 DEF RestMoves, Rest
<1>2. CASE Crash
  BY <1>2 DEF Crash, Died, RestMoves, Rest
<1>3. CASE SendClose
  <2>1. UNCHANGED <<mode, batch>>
    BY <1>3 DEF SendClose, writerVars
  <2>2. CASE queue' = [queue EXCEPT ![dying] = Append(@, "close")]
    <3>1. "close" \in Messages /\ "close" \notin Recs
      BY NamesApart DEF Messages, Clients
    <3>2. queue'[v] = queue[v] \/ queue'[v] = Append(queue[v], "close")
      BY <1>0, <2>2
    <3> QED BY <2>1, <3>1, <3>2 DEF RestMoves, Rest
  <2> QED BY <1>1, <1>3, <2>1, <2>2 DEF SendClose
<1>4. CASE UNCHANGED logVars \/ DeleteRows \/ Forget \/ ForgetTimesOut \/ RemoveDir \/ Sweep \/ Boot
  BY <1>1, <1>4 DEF logVars, DeleteRows, Forget, ForgetTimesOut, RemoveDir, Sweep, Boot, chanVars,
     writerVars
<1> QED BY <1>2, <1>3, <1>4, CallRest, TaskRest DEF LogNext

\* What is left to write after a step was left before it, but for one message just accepted.
LEMMA TodoNext ==
  ASSUME LogTyped, LogTyped', [LogNext]_logVars, NEW v \in Tasks
  PROVE  \/ /\ Range(Todo(v))' \subseteq Range(Todo(v)) \cup {"start"}
            /\ Distinct(Todo(v)) => Distinct(Todo(v))'
         \/ \E m \in Messages :
              /\ m \in Recs => pc[m] \in {"held", "fresh"} /\ pc'[m] = "accepted"
              /\ Range(Todo(v))' \subseteq Range(Todo(v)) \cup {m}
              /\ Distinct(Todo(v)) /\ (m \in Recs => m \notin Range(Todo(v))) => Distinct(Todo(v))'
<1>0. /\ Rest(v) \in Seq(Messages) /\ queue[v] \in Seq(Messages) /\ Todo(v) \in Seq(Messages)
      /\ Todo(v) = Rest(v) \o queue[v]
      /\ Range(Todo(v)) = Range(Rest(v)) \cup Range(queue[v])
  BY RestTyped DEF Todo
<1>1. /\ Rest(v)' \in Seq(Messages) /\ queue'[v] \in Seq(Messages) /\ Todo(v)' = Rest(v)' \o queue'[v]
      /\ Todo(v)' \in Seq(Messages) /\ Range(Todo(v)') = Range(Rest(v)') \cup Range(queue'[v])
  <2>1. batch'[v] \in Seq(Messages) /\ queue'[v] \in Seq(Messages)
    BY DEF LogTyped, ChanOK, WritersOK
  <2>2. mode'[v] \in {"wrote", "trimmed"} => batch'[v] # <<>>
    BY DEF LogTyped, ModesAgree, Agrees, Handling
  <2>3. Rest(v)' \in Seq(Messages)
    BY <2>1, <2>2, TailIs DEF Rest
  <2>4. Todo(v)' = Rest(v)' \o queue'[v]
    BY DEF Todo
  <2> QED BY <2>1, <2>3, <2>4, RangeCat
<1>2. Range(<<>>) = {} /\ Range(<<"start">>) = {"start"} /\ Distinct(<<>>) /\ Distinct(<<"start">>)
      /\ <<>> \in Seq(Messages) /\ <<"start">> \in Seq(Messages)
  BY DEF Range, Distinct, Messages
<1>3. CASE Rest(v)' = Rest(v) /\ queue'[v] = queue[v]
  BY <1>0, <1>1, <1>3
<1>4. CASE Rest(v)' = <<>> /\ queue'[v] \in {<<>>, <<"start">>, queue[v]}
  <2>1. Todo(v)' = queue'[v] /\ Range(Todo(v)') \subseteq Range(Todo(v)) \cup {"start"}
    BY <1>0, <1>1, <1>2, <1>4, ConcatEmptySeq
  <2>2. Distinct(Todo(v)) => Distinct(queue[v])
    BY <1>0, DistinctLast
  <2> QED BY <1>2, <1>4, <2>1, <2>2
<1>5. CASE /\ Rest(v)' = Rest(v)
           /\ \E m \in Messages : /\ queue'[v] = Append(queue[v], m)
                                  /\ m \in Recs => pc[m] \in {"held", "fresh"} /\ pc'[m] = "accepted"
  <2>1. PICK m \in Messages : /\ queue'[v] = Append(queue[v], m)
                              /\ m \in Recs => pc[m] \in {"held", "fresh"} /\ pc'[m] = "accepted"
    BY <1>5
  <2>2. Todo(v)' = Append(Todo(v), m)
    BY <1>0, <1>1, <1>5, <2>1, CatAppend
  <2>3. Range(Append(Todo(v), m)) = Range(Todo(v)) \cup {m}
    <3> DEFINE s == Todo(v)
    <3>1. s \in Seq(Messages) /\ m \in Messages
      BY <1>0
    <3> HIDE DEF s
    <3>2. Range(Append(s, m)) = Range(s) \cup {m}
      BY <3>1, AppendIs
    <3> QED BY <3>2 DEF s
  <2>4. Distinct(Todo(v)) /\ (m \in Recs => m \notin Range(Todo(v))) => Distinct(Append(Todo(v), m))
    BY <1>0, DistinctAppend
  <2> QED BY <2>1, <2>2, <2>3, <2>4
<1>6. CASE Rest(v) = <<>> /\ queue[v] = Rest(v)' \o queue'[v]
  <2>1. Todo(v)' = Todo(v)
    BY <1>0, <1>1, <1>6, ConcatEmptySeq
  <2> QED BY <2>1
<1>7. CASE Rest(v) # <<>> /\ Rest(v)' = Tail(Rest(v)) /\ queue'[v] = queue[v]
  <2>1. Todo(v) # <<>> /\ Todo(v)' = Tail(Todo(v))
    BY <1>0, <1>1, <1>7, CatTail
  <2>2. Range(Tail(Todo(v))) \subseteq Range(Todo(v))
    BY <1>0, <2>1, TailIs
  <2>3. Distinct(Todo(v)) => Distinct(Tail(Todo(v)))
    BY <1>0, <2>1, DistinctTail
  <2> QED BY <2>1, <2>2, <2>3
<1> QED BY <1>3, <1>4, <1>5, <1>6, <1>7, RestNext DEF RestMoves

\* An accepted record stays accepted.
LEMMA AcceptedStays ==
  ASSUME LogTyped, [LogNext]_logVars, NEW r \in Recs, pc[r] = "accepted"
  PROVE  pc'[r] = "accepted"
<1>0. /\ pc \in [Clients -> Stops] /\ r \in Clients /\ r \notin Callers
      /\ \A S : Abandoned(S)[r] = "accepted"
  BY NamesApart, AbandonedIs DEF LogTyped, ClientOK, Clients
<1>1. ASSUME NEW c \in Clients, Open(c) \/ Collect(c) \/ Send(c) \/ Tracked(c) \/ Reopen(c)
      PROVE  pc'[r] = "accepted"
  <2>1. c # r
    BY <1>0, <1>1 DEF Open, Collect, Send, Tracked, Reopen, Callers
  <2>2. \E x : pc' = [pc EXCEPT ![c] = x]
    BY <1>1 DEF Open, Collect, Send, Tracked, Reopen, Undelivered
  <2> QED BY <1>0, <2>1, <2>2
<1>2. ASSUME NEW w \in Tasks, DropRx(w) \/ EndBatch(w) \/ CloseMsg(w) \/ SkipMsg(w) \/ Write(w)
      PROVE  pc'[r] = "accepted"
  <2>1. pc' = pc \/ \E S : pc' = Abandoned(S)
    BY <1>2 DEF DropRx, EndBatch, CloseMsg, SkipMsg, Write
  <2> QED BY <1>0, <2>1
<1>3. ASSUME NEW w \in Tasks, SyncMsg(w) \/ Copy(w) \/ AfterWrite(w) \/ Notice(w)
      PROVE  pc'[r] = "accepted"
  <2>1. pc' = pc \/ \E c \in Callers : \E x : pc' = [pc EXCEPT ![c] = x]
    <3>1. Msg(w) \in Flushes \cup Snaps => Msg(w) \in Callers
      BY DEF Callers
    <3>2. CASE SyncMsg(w) \/ Copy(w)
      BY <3>1, <3>2 DEF SyncMsg, Copy, NotCopied
    <3>3. CASE AfterWrite(w) \/ Notice(w)
      <4>1. Answered(w) \/ \E trimmed : Paid(w, trimmed)
        BY Zenon, <3>3, AfterWriteIs DEF Notice, Stayed, Stranded, Rotated
      <4> QED BY <3>1, <4>1 DEF Paid, Answered
    <3> QED BY <1>3, <3>2, <3>3
  <2> QED BY <1>0, <2>1
<1>4. CASE Crash
  BY <1>0, <1>4 DEF Crash, Died, Over, Callers
<1>5. ASSUME NEW w \in Tasks, Take(w) \/ TimerSync(w) \/ Idle(w) \/ FinalSync(w) \/ ensure_log(w)
      PROVE  pc'[r] = "accepted"
  BY <1>5 DEF Take, TimerSync, Idle, FinalSync, ensure_log, clientVars
<1>6. CASE UNCHANGED logVars \/ DeleteRows \/ Forget \/ SendClose \/ ForgetTimesOut \/ RemoveDir \/ Sweep \/ Boot
  BY <1>6 DEF logVars, DeleteRows, Forget, SendClose, ForgetTimesOut, RemoveDir, Sweep, Boot,
     clientVars
<1> QED BY <1>1, <1>2, <1>3, <1>4, <1>5, <1>6 DEF LogNext

\* A writer that takes no messages has none.
LEMMA NothingTodo ==
  ASSUME LogTyped, NEW v \in Tasks, chan[v] # "open"
  PROVE  Todo(v) = <<>> /\ Range(Todo(v)) = {}
<1>1. /\ queue[v] = <<>> /\ batch[v] = <<>> /\ mode[v] \notin {"wrote", "trimmed"}
  BY DEF LogTyped, ModesAgree, Agrees, Handling
<1>2. Todo(v) = <<>> \o <<>>
  BY <1>1 DEF Todo, Rest
<1>3. <<>> \o <<>> = <<>>
  OBVIOUS
<1> QED BY <1>2, <1>3 DEF Range

\* The message a writer works on is one it has still to write.
LEMMA MessageTodo ==
  ASSUME LogTyped, NEW v \in Tasks, mode[v] \notin {"wrote", "trimmed"}, batch[v] # <<>>
  PROVE  /\ Todo(v) # <<>> /\ Head(Todo(v)) = Msg(v) /\ Msg(v) \in Range(Todo(v))
         /\ Tail(Todo(v)) = Tail(batch[v]) \o queue[v]
<1>1. /\ batch[v] \in Seq(Messages) /\ queue[v] \in Seq(Messages) /\ Todo(v) = batch[v] \o queue[v]
      /\ Todo(v) \in Seq(Messages)
  BY RestTyped DEF Todo
<1>2. Todo(v) # <<>> /\ Head(Todo(v)) = Msg(v) /\ Tail(Todo(v)) = Tail(batch[v]) \o queue[v]
  BY <1>1, CatTail DEF Msg
<1> QED BY <1>1, <1>2, TailIs

\* A record that reached its file: the writer goes on to pay for it.
LEMMA RecordWritten ==
  ASSUME LogTyped, NEW w \in Tasks, Write(w), Grown(w, Msg(w), Ref(w)), Msg(w) # "start"
  PROVE  /\ mode' = [mode EXCEPT ![w] = "wrote"] /\ UNCHANGED <<batch, queue, pc, beside, chan>>
         /\ mode[w] \notin {"wrote", "trimmed"} /\ batch[w] # <<>> /\ chan[w] = "open"
<1>1. /\ chan[w] = "open" /\ batch[w] # <<>> /\ UNCHANGED <<queue, chan>>
      /\ log[w].file \in Files /\ log[w].next \in Nat
  BY WritesIs DEF Write, chanVars
<1>2. mode[w] \notin {"wrote", "trimmed"}
  BY DEF Write, Working
<1>3. ~WriteFailed(w)
  <2> SUFFICES ASSUME WriteFailed(w) PROVE FALSE
    OBVIOUS
  <2>1. LeftTorn(w) \/ \E f \in Files, t \in Seq(LineType) : Realigned(w, f, t)
    BY WriteFailedIs
  <2>2. log' = log \/ \E f \in Files : log' = [log EXCEPT ![w].file = f]
    BY <2>1 DEF LeftTorn, Realigned
  <2>3. log \in [Tasks -> FileType]
    BY FilesIs
  <2>4. log'[w].next = log[w].next
    BY <2>2, <2>3 DEF FileType
  <2> QED BY <1>1, <2>4 DEF Grown
<1>4. ~WroteUnsynced(w, Msg(w), Ref(w))
  BY DEF WroteUnsynced
<1> QED BY <1>1, <1>2, <1>3, <1>4 DEF Write

\* What is still to be written was accepted.
LEMMA NextSent == LogTyped /\ LogTyped' /\ Sent /\ [LogNext]_logVars => Sent'
<1> SUFFICES ASSUME LogTyped, LogTyped', Sent, [LogNext]_logVars,
                    NEW w \in Tasks, NEW r \in Recs, r \in Range(Todo(w))'
             PROVE  pc'[r] = "accepted"
  BY DEF Sent
<1>1. CASE r \in Range(Todo(w))
  BY <1>1, AcceptedStays DEF Sent
<1>2. CASE r \notin Range(Todo(w))
  <2>1. r # "start"
    BY NamesApart DEF Clients
  <2>2. \/ Range(Todo(w))' \subseteq Range(Todo(w)) \cup {"start"}
        \/ \E m \in Messages :
              /\ m \in Recs => pc[m] \in {"held", "fresh"} /\ pc'[m] = "accepted"
              /\ Range(Todo(w))' \subseteq Range(Todo(w)) \cup {m}
    BY TodoNext
  <2> QED BY <1>2, <2>1, <2>2
<1> QED BY <1>1, <1>2

\* What is written was accepted and is not still to be written.
LEMMA NextOnce ==
  LogTyped /\ LogTyped' /\ Dir /\ Solo /\ Sent /\ Once /\ [LogNext]_logVars => Once'
<1> SUFFICES ASSUME LogTyped, LogTyped', Dir, Solo, Sent, Once, [LogNext]_logVars, deletes' = 0
             PROVE  /\ \A w \in Tasks : Distinct(Todo(w))'
                    /\ \A f \in Segments' : \A i \in 1..Len(lines'[f]) : lines'[f][i].rec \in Recs =>
                         /\ pc'[lines'[f][i].rec] = "accepted"
                         /\ \A w \in Tasks : lines'[f][i].rec \notin Range(Todo(w))'
  BY DEF Once
<1>1. deletes = 0
  BY NoWayBack
<1>2. /\ \A w \in Tasks : Distinct(Todo(w))
      /\ \A f \in Segments : \A i \in 1..Len(lines[f]) : lines[f][i].rec \in Recs =>
           /\ pc[lines[f][i].rec] = "accepted"
           /\ \A w \in Tasks : lines[f][i].rec \notin Range(Todo(w))
  BY <1>1 DEF Once
<1>3. ASSUME NEW w \in Tasks PROVE Distinct(Todo(w))'
  <2>1. CASE /\ Range(Todo(w))' \subseteq Range(Todo(w)) \cup {"start"}
             /\ Distinct(Todo(w)) => Distinct(Todo(w))'
    BY <1>2, <2>1
  <2>2. CASE \E m \in Messages :
              /\ m \in Recs => pc[m] \in {"held", "fresh"} /\ pc'[m] = "accepted"
              /\ Range(Todo(w))' \subseteq Range(Todo(w)) \cup {m}
              /\ Distinct(Todo(w)) /\ (m \in Recs => m \notin Range(Todo(w))) => Distinct(Todo(w))'
    BY <1>2, <2>2 DEF Sent
  <2> QED BY <2>1, <2>2, TodoNext
<1>4. ASSUME NEW f \in Segments', NEW i \in 1..Len(lines'[f]), lines'[f][i].rec \in Recs
      PROVE  /\ pc'[lines'[f][i].rec] = "accepted"
             /\ \A w \in Tasks : lines'[f][i].rec \notin Range(Todo(w))'
  <2>1. CASE Same(f, i)
    <3> DEFINE r == lines[f][i].rec
    <3>1. lines'[f][i].rec = r /\ r \in Recs /\ pc[r] = "accepted" /\ \A w \in Tasks : r \notin Range(Todo(w))
      BY <1>2, <1>4, <2>1 DEF Same
    <3> HIDE DEF r
    <3>2. pc'[r] = "accepted"
      BY <3>1, AcceptedStays
    <3>3. ASSUME NEW w \in Tasks PROVE r \notin Range(Todo(w))'
      <4>1. r # "start"
        BY <3>1, NamesApart DEF Clients
      <4>2. \/ Range(Todo(w))' \subseteq Range(Todo(w)) \cup {"start"}
            \/ \E m \in Messages :
                  /\ m \in Recs => pc[m] \in {"held", "fresh"} /\ pc'[m] = "accepted"
                  /\ Range(Todo(w))' \subseteq Range(Todo(w)) \cup {m}
        BY TodoNext
      <4> QED BY <3>1, <4>1, <4>2
    <3> QED BY <3>1, <3>2, <3>3
  <2>2. ASSUME NEW w \in Tasks, NEW m \in Words, NEW ref \in SUBSET Images, Added(w, m, ref),
               ~Blank(lines'[f][i]), ~Same(f, i)
        PROVE  /\ pc'[lines'[f][i].rec] = "accepted"
               /\ \A v \in Tasks : lines'[f][i].rec \notin Range(Todo(v))'
    <3>1. lines'[f][i] = Line(log[w].next, m, ref)
      BY <2>2, WritesIs, GrownLines DEF Added
    <3> DEFINE r == Msg(w)
    <3>2. /\ lines'[f][i].rec = r /\ r \in Recs /\ r # "start"
          /\ Write(w) /\ Grown(w, Msg(w), Ref(w))
      <4>1. lines'[f][i].rec = m /\ m \in Recs /\ m \notin {"start", "trim"}
        BY <1>4, <3>1, NamesApart DEF Line, Clients
      <4> QED BY <2>2, <4>1 DEF Added
    <3>3. /\ mode' = [mode EXCEPT ![w] = "wrote"] /\ UNCHANGED <<batch, queue, chan>>
          /\ mode[w] \notin {"wrote", "trimmed"} /\ batch[w] # <<>> /\ chan[w] = "open"
      BY <2>2, <3>2, RecordWritten
    <3>4. r \in Range(Todo(w)) /\ r \notin Range(Tail(Todo(w)))
      BY <1>2, <3>2, <3>3, MessageTodo, DistinctTail, RestTyped
    <3>5. pc'[r] = "accepted"
      BY <3>2, <3>4, AcceptedStays DEF Sent
    <3>6. Todo(w)' = Tail(Todo(w))
      <4>1. mode'[w] = "wrote"
        BY <3>3 DEF LogTyped, WritersOK
      <4>2. Todo(w)' = Tail(batch[w]) \o queue[w]
        BY <3>3, <4>1 DEF Todo, Rest
      <4> QED BY <3>3, <4>2, MessageTodo
    <3>7. ASSUME NEW v \in Tasks, v # w PROVE Range(Todo(v))' = {}
      <4>1. chan[v] # "open"
        BY <1>1, <3>3, <3>7, OnlyOne
      <4>2. mode'[v] = mode[v]
        BY <3>3, <3>7 DEF LogTyped, WritersOK
      <4>3. Todo(v)' = Todo(v)
        BY <3>3, <4>2 DEF Todo, Rest
      <4> QED BY <4>1, <4>3, NothingTodo
    <3> HIDE DEF r
    <3> QED BY <3>2, <3>4, <3>5, <3>6, <3>7
  <2>3. ~Blank(lines'[f][i])
    BY <1>4 DEF Blank
  <2>4. CASE FewerLines
    BY <2>1, <2>3, <2>4 DEF FewerLines
  <2> QED BY <2>1, <2>2, <2>3, <2>4, LinesFrom
<1> QED BY <1>3, <1>4

----------------------------------------------------------------------------
(* A record's file is there, and is no other record's. *)

\* A step of another task leaves a writer alone.
LEMMA LeavesAlone ==
  ASSUME LogTyped, NEW v \in Tasks, NEW w \in Tasks, w # v,
         \/ Take(w) \/ TimerSync(w) \/ Idle(w) \/ DropRx(w) \/ FinalSync(w) \/ EndBatch(w)
         \/ SyncMsg(w) \/ CloseMsg(w) \/ SkipMsg(w) \/ ensure_log(w) \/ Copy(w) \/ Write(w)
         \/ AfterWrite(w) \/ Notice(w)
  PROVE  mode'[v] = mode[v] /\ batch'[v] = batch[v] /\ log'[v] = log[v]
<1>0. /\ mode \in [Tasks -> WriterModes] /\ batch \in [Tasks -> Seq(Messages)]
      /\ log \in [Tasks -> FileType]
  BY DEF LogTyped, WritersOK
<1>1. AfterWrite(w) => \E trimmed : Paid(w, trimmed)
  BY Zenon, AfterWriteIs DEF Stayed, Stranded, Rotated
<1>2. mode' = mode \/ \E m : mode' = [mode EXCEPT ![w] = m]
  <2>1. CASE AfterWrite(w)
    BY <1>1, <2>1 DEF Paid, Answered, Pop
  <2>2. CASE ~AfterWrite(w)
    BY <2>2 DEF Take, TimerSync, Idle, DropRx, FinalSync, EndBatch, SyncMsg, CloseMsg,
       SkipMsg, ensure_log, Copy, NotCopied, Write, Notice, Answered, Pop
  <2> QED BY <2>1, <2>2
<1>3. batch' = batch \/ \E b : batch' = [batch EXCEPT ![w] = b]
  <2>1. CASE AfterWrite(w)
    BY <1>1, <2>1 DEF Paid, Answered, Pop
  <2>2. CASE ~AfterWrite(w)
    BY <2>2 DEF Take, TimerSync, Idle, DropRx, FinalSync, EndBatch, SyncMsg, CloseMsg,
       SkipMsg, ensure_log, Copy, NotCopied, Write, Notice, Answered, Pop
  <2> QED BY <2>1, <2>2
<1>4. log'[v] = log[v]
  <2>1. CASE AfterWrite(w)
    <3>1. \/ log' = log \/ log' = [log EXCEPT ![w].dirty = FALSE]
          \/ \E g \in Files : log' = [log EXCEPT ![w].file = g, ![w].bytes = 0, ![w].first = 0,
                                                ![w].dirty = FALSE]
      BY Zenon, <2>1, AfterWriteIs DEF Stayed, Stranded, Rotated
    <3> QED BY <1>0, <3>1
  <2>2. CASE Write(w) \/ Notice(w)
    <3>1. \/ \E r, ref : Grown(w, r, ref)
          \/ LeftTorn(w)
          \/ \E f \in Files, t \in Seq(LineType) : Realigned(w, f, t)
      BY <2>2, WritesIs
    <3> QED BY <1>0, <3>1 DEF Grown, LeftTorn, Realigned
  <2>3. CASE ensure_log(w) \/ FinalSync(w)
    <3>1. \E g : log' = [log EXCEPT ![w] = g]
      BY <2>3 DEF ensure_log, FinalSync
    <3> QED BY <1>0, <3>1
  <2>4. CASE TimerSync(w) \/ SyncMsg(w)
    BY <1>0, <2>4 DEF TimerSync, SyncMsg, Synced
  <2>5. CASE Take(w) \/ Idle(w) \/ DropRx(w) \/ EndBatch(w) \/ CloseMsg(w) \/ SkipMsg(w) \/ Copy(w)
    BY <2>5 DEF Take, Idle, DropRx, EndBatch, CloseMsg, SkipMsg, Copy, writerVars
  <2> QED BY <2>1, <2>2, <2>3, <2>4, <2>5
<1> QED BY <1>0, <1>2, <1>3, <1>4

\* How a writer came to where it is with the message in hand.
LEMMA HandlingFrom ==
  ASSUME LogTyped, [LogNext]_logVars, NEW v \in Tasks, mode'[v] \in {"copied", "wrote", "trimmed"}
  PROVE  /\ batch'[v] = batch[v]
         /\ \/ HeldOn(v)
            \/ HasCopied(v)
            \/ HasWritten(v)
            \/ AfterWrite(v) /\ mode'[v] = "trimmed"
<1>0. /\ mode \in [Tasks -> WriterModes] /\ batch \in [Tasks -> Seq(Messages)]
      /\ log \in [Tasks -> FileType]
  BY DEF LogTyped, WritersOK
<1> DEFINE Comes == /\ batch'[v] = batch[v]
                    /\ \/ mode'[v] = mode[v] /\ log'[v] = log[v]
                       \/ HasCopied(v)
                       \/ HasWritten(v)
                       \/ AfterWrite(v) /\ mode'[v] = "trimmed"
<1>1. ASSUME Copy(v) PROVE Comes
  <2>1. UNCHANGED log /\ mode[v] = "work"
    BY <1>1 DEF Copy, Working
  <2>2. ~NotCopied(v)
    BY <1>0, <2>1 DEF NotCopied, Pop
  <2>3. /\ mode' = [mode EXCEPT ![v] = "copied"] /\ UNCHANGED batch
        /\ beside' = beside \cup {Name(v, Msg(v))}
        /\ Msg(v) \in spilled \/ Name(v, Msg(v)) \notin beside
    BY <1>1, <2>2 DEF Copy
  <2> QED BY <1>0, <1>1, <2>1, <2>3 DEF HasCopied
<1>2. ASSUME Write(v) PROVE Comes
  <2>1. ~Pop(v)
    BY <1>0 DEF Pop
  <2>2. Wrote(v, Msg(v), Ref(v)) /\ mode' = [mode EXCEPT ![v] = "wrote"] /\ UNCHANGED <<batch, beside>>
    BY <1>2, <2>1 DEF Write
  <2>3. log[v].file \in Files /\ Msg(v) \in Words /\ Ref(v) \in SUBSET Images
    BY <1>2, WritesIs
  <2>4. Grown(v, Msg(v), Ref(v))
    BY <2>2, <2>3, WroteIs
  <2> QED BY <1>0, <1>2, <2>2, <2>4 DEF HasWritten
<1>3. ASSUME AfterWrite(v) PROVE Comes
  <2>1. PICK trimmed : Paid(v, trimmed)
    BY Zenon, <1>3, AfterWriteIs DEF Stayed, Stranded, Rotated
  <2>2. ~Pop(v)
    BY <1>0 DEF Pop
  <2>3. mode' = [mode EXCEPT ![v] = "trimmed"] /\ UNCHANGED batch
    BY <2>1, <2>2 DEF Paid, Answered
  <2> QED BY <1>0, <1>3, <2>3
<1>4. ASSUME \/ Take(v) \/ TimerSync(v) \/ Idle(v) \/ DropRx(v) \/ FinalSync(v) \/ EndBatch(v)
             \/ SyncMsg(v) \/ CloseMsg(v) \/ SkipMsg(v) \/ ensure_log(v) \/ Notice(v)
      PROVE  FALSE
  <2>1. CASE SkipMsg(v) \/ SyncMsg(v) \/ Notice(v)
    BY <1>0, <2>1 DEF SkipMsg, SyncMsg, Notice, Answered, Pop
  <2>2. CASE TimerSync(v) \/ ensure_log(v) \/ CloseMsg(v)
    BY <1>0, <2>2 DEF TimerSync, ensure_log, CloseMsg, Working
  <2>3. CASE Take(v) \/ Idle(v) \/ DropRx(v) \/ FinalSync(v) \/ EndBatch(v)
    BY <1>0, <2>3 DEF Take, Idle, DropRx, FinalSync, EndBatch
  <2> QED BY <1>4, <2>1, <2>2, <2>3
<1>5. ASSUME NEW c \in Clients, Open(c) \/ Collect(c) \/ Send(c) \/ Tracked(c) \/ Reopen(c)
      PROVE  Comes
  <2>1. CASE UNCHANGED <<mode, batch, log>>
    BY <2>1
  <2>2. CASE \E w \in Tasks : \E msgs : Spawned(w, msgs) /\ batch' = batch
    <3>0. PICK w \in Tasks : \E msgs : Spawned(w, msgs) /\ batch' = batch
      BY <2>2
    <3>1. PICK msgs : Spawned(w, msgs) /\ batch' = batch
      BY <3>0
    <3>2. w # v
      BY <1>0, <3>1 DEF Spawned
    <3> QED BY <1>0, <3>1, <3>2 DEF Spawned
  <2> QED BY <1>5, <2>1, <2>2 DEF Open, Collect, Send, Tracked, Reopen, writerVars, chanVars
<1>6. ~Crash
  BY DEF Crash, Died
<1>7. ASSUME \/ UNCHANGED logVars \/ DeleteRows \/ Forget \/ SendClose \/ ForgetTimesOut
             \/ RemoveDir \/ Sweep \/ Boot
      PROVE  Comes
  BY <1>7 DEF logVars, DeleteRows, Forget, SendClose, ForgetTimesOut, RemoveDir, Sweep, Boot,
     writerVars
<1> HIDE DEF Comes
<1>8. ASSUME NEW w \in Tasks,
             \/ Take(w) \/ TimerSync(w) \/ Idle(w) \/ DropRx(w) \/ FinalSync(w) \/ EndBatch(w)
             \/ SyncMsg(w) \/ CloseMsg(w) \/ SkipMsg(w) \/ ensure_log(w) \/ Copy(w) \/ Write(w)
             \/ AfterWrite(w) \/ Notice(w)
      PROVE  Comes
  <2>1. CASE w # v
    <3>1. mode'[v] = mode[v] /\ batch'[v] = batch[v] /\ log'[v] = log[v]
      BY <1>8, <2>1, LeavesAlone
    <3> QED BY <3>1 DEF Comes
  <2>2. CASE w = v
    <3>1. \/ Take(v) \/ TimerSync(v) \/ Idle(v) \/ DropRx(v) \/ FinalSync(v) \/ EndBatch(v)
          \/ SyncMsg(v) \/ CloseMsg(v) \/ SkipMsg(v) \/ ensure_log(v) \/ Copy(v) \/ Write(v)
          \/ AfterWrite(v) \/ Notice(v)
      BY <1>8, <2>2, Zenon
    <3>2. ~(\/ Take(v) \/ TimerSync(v) \/ Idle(v) \/ DropRx(v) \/ FinalSync(v) \/ EndBatch(v)
            \/ SyncMsg(v) \/ CloseMsg(v) \/ SkipMsg(v) \/ ensure_log(v) \/ Notice(v))
      BY <1>4
    <3>3. Copy(v) \/ Write(v) \/ AfterWrite(v)
      BY <3>1, <3>2, Zenon
    <3> QED BY <1>1, <1>2, <1>3, <3>3
  <2> QED BY <2>1, <2>2
<1>9. Comes
  <2>1. CASE \E c \in Clients : Open(c) \/ Collect(c) \/ Send(c) \/ Tracked(c) \/ Reopen(c)
    BY <1>5, <2>1
  <2>2. CASE \E w \in Tasks :
               \/ Take(w) \/ TimerSync(w) \/ Idle(w) \/ DropRx(w) \/ FinalSync(w) \/ EndBatch(w)
               \/ SyncMsg(w) \/ CloseMsg(w) \/ SkipMsg(w) \/ ensure_log(w) \/ Copy(w) \/ Write(w)
               \/ AfterWrite(w) \/ Notice(w)
    BY <1>8, <2>2
  <2>3. CASE \/ UNCHANGED logVars \/ DeleteRows \/ Forget \/ SendClose \/ ForgetTimesOut
             \/ RemoveDir \/ Sweep \/ Boot
    BY <1>7, <2>3
  <2> QED BY <1>6, <2>1, <2>2, <2>3 DEF LogNext
<1>10. AfterWrite(v) => mode[v] # mode'[v] /\ mode'[v] = "trimmed"
  <2> SUFFICES ASSUME AfterWrite(v) PROVE mode[v] # mode'[v] /\ mode'[v] = "trimmed"
    OBVIOUS
  <2>1. PICK trimmed : Paid(v, trimmed)
    BY Zenon, AfterWriteIs DEF Stayed, Stranded, Rotated
  <2>2. mode'[v] \in {"trimmed", "work"}
    BY <1>0, <2>1 DEF Paid, Answered, Pop
  <2> QED BY Zenon, <2>2 DEF AfterWrite
<1>11. ~Notice(v)
  BY <1>0 DEF Notice, Answered, Pop
<1>12. Write(v) => mode'[v] # mode[v] /\ mode'[v] = "wrote"
  BY <1>0 DEF Write, Working, Pop
<1> QED BY <1>9, <1>10, <1>11, <1>12 DEF Comes, HeldOn

\* A writer that has put a file beside the log has done so in this step, or was there before it.
LEMMA CopiedFrom ==
  ASSUME LogTyped, [LogNext]_logVars, NEW v \in Tasks, mode'[v] = "copied"
  PROVE  /\ batch'[v] = batch[v] /\ log'[v].next = log[v].next
         /\ \/ mode[v] = "copied"
            \/ /\ Copy(v) /\ beside' = beside \cup {Name(v, Msg(v))}
               /\ Msg(v) \in spilled \/ Name(v, Msg(v)) \notin beside
BY HandlingFrom DEF HeldOn, HasCopied, HasWritten

\* Where no record is added, the references hold on.
LEMMA FewerRefs ==
  ASSUME LogTyped, LogTyped', Dir, Solo, Once, RefsHold, [LogNext]_logVars, FewerNames,
         deletes = 0, deletes' = 0, ~swept'
  PROVE  RefsHold'
<1>1. ASSUME NEW v \in Tasks, NEW w \in Tasks, mode[v] \in {"work", "copied"}, chan[w] = "open"
      PROVE  v = w
  BY <1>1, OnlyOne, WorkerIs DEF Handling
<1>2. ASSUME NEW f \in Segments', NEW i \in 1..Len(lines'[f]), NEW x \in lines'[f][i].ref
      PROVE  /\ Same(f, i) /\ x \in lines[f][i].ref
             /\ x \in beside /\ x[2] = lines[f][i].rec /\ x[2] = lines'[f][i].rec
  <2>1. Same(f, i)
    BY <1>2 DEF FewerNames
  <2> QED BY <1>2, <2>1 DEF RefsHold, Same
<1>3. ~RemoveDir /\ ~Sweep
  BY DEF RemoveDir, Sweep, Solo
<1>4. ASSUME NEW w \in Tasks, Write(w) PROVE chan[w] = "open" /\ mode'[w] # "copied"
  <2>1. chan[w] = "open"
    BY <1>4, WritesIs
  <2> QED BY <1>4, <2>1 DEF Write, Pop, LogTyped, WritersOK
<1>5. ASSUME NEW w \in Tasks, AfterWrite(w) PROVE chan[w] = "open" /\ mode[w] = "wrote"
  BY Zenon, <1>5, WorkerIs DEF AfterWrite, Handling
<1>6. ASSUME NEW f \in Segments', NEW i \in 1..Len(lines'[f]), NEW x \in lines'[f][i].ref
      PROVE  x \in beside'
  <2>1. CASE \E w \in Tasks : Write(w) /\ mode[w] = "copied" /\ beside' = beside \ {Name(w, Msg(w))}
    BY <1>2, <1>6, <2>1 DEF RefsHold, Unnamed, Same
  <2>2. ASSUME NEW w \in Tasks, AfterWrite(w) \/ CutRotation(w) PROVE x \in beside'
    <3>1. PICK Z : Trimmed(Z)
      BY <2>2, TurnsLines, HaltLines
    <3>2. SUFFICES ASSUME x \in beside \ beside' PROVE FALSE
      BY <1>2, <1>6
    <3>3. PICK g \in Z : \E j \in 1..Len(lines[g]) : x \in lines[g][j].ref
      BY <3>1, <3>2 DEF Trimmed
    <3>4. g \in Segments /\ f \notin Z
      BY <3>1, <3>3 DEF Trimmed
    <3>5. f = g
      BY <1>2, <1>6, <3>3, <3>4 DEF RefsHold, Same
    <3> QED BY <3>3, <3>4, <3>5
  <2> QED BY <1>2, <1>3, <1>6, <2>1, <2>2, BesideIs
<1>7. ASSUME NEW f \in Segments', NEW g \in Segments',
             NEW i \in 1..Len(lines'[f]), NEW j \in 1..Len(lines'[g]),
             NEW x \in lines'[f][i].ref, x \in lines'[g][j].ref
      PROVE  f = g /\ i = j
  <2>1. Same(f, i) /\ x \in lines[f][i].ref /\ Same(g, j) /\ x \in lines[g][j].ref
    BY <1>2, <1>7
  <2> QED BY <2>1 DEF RefsHold, Same
<1>8. ASSUME NEW v \in Tasks, mode'[v] = "copied"
      PROVE  Name(v, Msg(v))' \in beside' /\ Unnamed(Name(v, Msg(v)))'
  <2>1. PICK n : n = Name(v, Msg(v))
    OBVIOUS
  <2>2. Name(v, Msg(v))' = n /\ Msg(v)' = Msg(v)
    BY <1>8, <2>1, CopiedFrom DEF Name, Msg
  <2>3. CASE mode[v] = "copied"
    <3>1. n \in beside /\ Unnamed(n)
      BY <2>1, <2>3 DEF RefsHold
    <3>2. n \in beside'
      <4>1. ASSUME NEW w \in Tasks, Write(w) \/ AfterWrite(w) PROVE FALSE
        BY <1>1, <1>4, <1>5, <1>8, <2>3, <4>1
      <4>2. ~Crash
        BY <1>8 DEF Crash, Died
      <4> QED BY <1>3, <3>1, <4>1, <4>2, BesideIs
    <3>3. Unnamed(n)'
      BY <1>2, <3>1 DEF Unnamed, Same
    <3> QED BY <2>2, <3>2, <3>3
  <2>4. CASE /\ Copy(v) /\ beside' = beside \cup {Name(v, Msg(v))}
             /\ Msg(v) \in spilled \/ Name(v, Msg(v)) \notin beside
    <3>1. n \in beside'
      BY <2>1, <2>4
    <3>2. CASE n \notin beside
      <4>1. Unnamed(n)'
        BY <1>2, <3>2 DEF Unnamed
      <4> QED BY <2>2, <3>1, <4>1
    <3>3. CASE Msg(v) \in spilled
      <4>1. Msg(v) \in Recs /\ n[2] = Msg(v)
        BY <2>1, <3>3 DEF LogTyped, RowsOK, Name
      <4>2. Msg(v) \in Range(Todo(v))
        BY <2>4, MessageTodo DEF Copy, Working
      <4>3. Unnamed(n)'
        BY <1>2, <4>1, <4>2 DEF Unnamed, Once, Same
      <4> QED BY <2>2, <3>1, <4>3
    <3> QED BY <2>1, <2>4, <3>2, <3>3
  <2> QED BY <1>8, <2>3, <2>4, CopiedFrom
<1> QED BY <1>2, <1>6, <1>7, <1>8 DEF RefsHold

\* Every step keeps a record's files beside the log, but for the boot's eviction.
LEMMA NextRefs ==
  LogTyped /\ LogTyped' /\ Dir /\ Solo /\ Once /\ Refs /\ [LogNext]_logVars => Refs'
<1> SUFFICES ASSUME LogTyped, LogTyped', Dir, Solo, Once, Refs, [LogNext]_logVars,
                    deletes' = 0, ~swept'
             PROVE  RefsHold'
  BY DEF Refs
<1>1. deletes = 0 /\ ~swept /\ RefsHold
  BY NoWayBack DEF Refs
<1>2. ASSUME NEW w \in Tasks, NEW r \in Words, NEW ref \in SUBSET Images, Added(w, r, ref),
             ~FewerNames
      PROVE  RefsHold'
  <2>0. /\ chan[w] = "open" /\ log[w].file \in Files /\ log[w].next \in Nat
        /\ mode[w] = "copied" => Msg(w) \in Recs \cup Snaps
    BY <1>2, WritesIs, WorkerIs DEF Handling, Added
  <2>1. /\ Segments' = Segments
        /\ \A f \in Segments' : \A i \in 1..Len(lines'[f]) :
              \/ Blank(lines'[f][i]) \/ Same(f, i)
              \/ /\ f = log[w].file /\ i = Len(lines[f]) + 1
                 /\ lines'[f][i] = Line(log[w].next, r, ref)
    BY <1>2, <2>0, GrownLines DEF Added
  <2>2. ref # {}
    BY <1>2, <2>1 DEF FewerNames, Blank, Line
  <2>3. /\ Write(w) /\ r = Msg(w) /\ ref = Ref(w) /\ Grown(w, Msg(w), Ref(w)) /\ Msg(w) # "start"
    BY <1>2, <2>0, <2>2, NamesApart DEF Added, Ref, Clients, Callers
  <2>4. mode' = [mode EXCEPT ![w] = "wrote"] /\ beside' = beside
    BY <2>3, RecordWritten
  <2>5. ASSUME NEW x \in Ref(w)
        PROVE  x \in beside /\ Unnamed(x) /\ x[2] = Msg(w)
    <3>1. mode[w] = "copied" /\ x = Name(w, Msg(w))
      BY <2>5 DEF Ref
    <3> QED BY <1>1, <3>1 DEF RefsHold, Name
  <2>6. ASSUME NEW f \in Segments', NEW i \in 1..Len(lines'[f]), NEW x \in lines'[f][i].ref
        PROVE  \/ Same(f, i) /\ x \in lines[f][i].ref
               \/ /\ f = log[w].file /\ i = Len(lines[f]) + 1
                  /\ lines'[f][i].rec = Msg(w) /\ x \in Ref(w)
    <3>1. CASE Same(f, i)
      BY <2>6, <3>1 DEF Same
    <3>2. CASE /\ f = log[w].file /\ i = Len(lines[f]) + 1
               /\ lines'[f][i] = Line(log[w].next, r, ref)
      BY <2>6, <2>3, <3>2 DEF Line
    <3>3. ~Blank(lines'[f][i])
      BY <2>6 DEF Blank
    <3> QED BY <2>1, <3>1, <3>2, <3>3
  <2>7. ASSUME NEW f \in Segments', NEW i \in 1..Len(lines'[f]), NEW x \in lines'[f][i].ref
        PROVE  x \in beside' /\ x[2] = lines'[f][i].rec
    <3>1. CASE Same(f, i) /\ x \in lines[f][i].ref
      BY <1>1, <2>4, <3>1 DEF RefsHold, Same
    <3>2. CASE x \in Ref(w) /\ lines'[f][i].rec = Msg(w)
      BY <2>4, <2>5, <3>2
    <3> QED BY <2>6, <2>7, <3>1, <3>2
  <2>8. ASSUME NEW f \in Segments', NEW g \in Segments',
               NEW i \in 1..Len(lines'[f]), NEW j \in 1..Len(lines'[g]),
               NEW x \in lines'[f][i].ref, x \in lines'[g][j].ref
        PROVE  f = g /\ i = j
    <3>1. CASE Same(f, i) /\ x \in lines[f][i].ref /\ Same(g, j) /\ x \in lines[g][j].ref
      BY <1>1, <3>1 DEF RefsHold, Same
    <3>2. CASE x \in Ref(w)
      <4>1. ~(Same(f, i) /\ x \in lines[f][i].ref) /\ ~(Same(g, j) /\ x \in lines[g][j].ref)
        BY <2>5, <3>2 DEF Unnamed, Same
      <4>2. f = log[w].file /\ i = Len(lines[f]) + 1 /\ g = log[w].file /\ j = Len(lines[g]) + 1
        BY <2>6, <2>8, <4>1
      <4> QED BY <4>2
    <3> QED BY <2>6, <2>8, <3>1, <3>2
  <2>9. ASSUME NEW v \in Tasks, mode'[v] = "copied" PROVE FALSE
    <3>1. mode[v] \in {"copied", "work"}
      BY <2>9, CopiedFrom DEF Copy, Working
    <3>2. v = w
      BY <1>1, <2>0, <3>1, OnlyOne, WorkerIs DEF Handling
    <3> QED BY <2>4, <2>9, <3>2 DEF LogTyped, WritersOK
  <2> QED BY <2>7, <2>8, <2>9 DEF RefsHold
<1>3. FewerLines => FewerNames
  BY DEF FewerLines, FewerNames, Blank
<1> QED BY <1>1, <1>2, <1>3, FewerRefs, LinesFrom

----------------------------------------------------------------------------
(* The log reads whole. *)

\* There are no records at first.
LEMMA InitRecords == LogInit => Sent /\ Once /\ Refs
<1> SUFFICES ASSUME LogInit PROVE Sent /\ Once /\ Refs
  OBVIOUS
<1>1. \A w \in Tasks : Todo(w) = <<>> \o <<>> /\ mode[w] = "none"
  BY DEF LogInit, Todo, Rest
<1>2. <<>> \o <<>> = <<>> /\ Range(<<>>) = {} /\ Distinct(<<>>)
  BY DEF Range, Distinct
<1>3. Segments = {}
  BY DEF LogInit, NoDir, Segments
<1> QED BY <1>1, <1>2, <1>3 DEF Sent, Once, Refs, RefsHold

\* What the run checks of the references follows.
LEMMA RefsFound == LogTyped /\ Refs => RefsResolve
<1> SUFFICES ASSUME LogTyped, Refs, ~swept, deletes = 0, NEW l \in OnDisk PROVE l.ref \subseteq beside
  BY DEF RefsResolve
<1>1. PICK f \in Segments : \E i \in 1..Len(lines[f]) : l = lines[f][i]
  BY PlacesAre
<1> QED BY <1>1 DEF Refs, RefsHold

\* Across idle closes, rotations, trims, failed appends, crashes, reopens and respawned writers,
\* the log of a conversation nobody deleted reads whole: its records are numbered upwards with no
\* number left out and no reader stops before the last one, and until the boot sweep evicts it
\* every file a record names is there.
THEOREM LogReadsWholeAlways == LogSpec => []LogReadsWhole
<1>1. LogInit => WholeLog
  BY InitTyped, InitDir, InitSolo, InitNumbered, InitRecords DEF WholeLog
<1>2. WholeLog /\ [LogNext]_logVars => WholeLog'
  BY NextTyped, NextDir, NextSolo, NextNumbered, NextSent, NextOnce, NextRefs DEF WholeLog
<1>3. WholeLog => LogReadsWhole
  BY TypesHold, NumberedIsWhole, RefsFound DEF WholeLog, LogReadsWhole
<1> QED BY <1>1, <1>2, <1>3, PTL DEF LogSpec

----------------------------------------------------------------------------
(* What stays where it is: a segment under another's steps, a line under any, and the last line *)
(* under the cap. *)

\* The numbers on disk are below the open writer's next one, and the one before it is last.
LEMMA OpenPlaces ==
  ASSUME LogTyped, Dir, Solo, deletes = 0, Numbers,
         NEW w \in Tasks, chan[w] = "open", log[w].file # 0,
         NEW f \in Segments, NEW i \in 1..Len(lines[f])
  PROVE  /\ Parses(lines[f][i]) /\ lines[f][i].seq < log[w].next
         /\ lines[disk.live] # <<>> /\ lines[f][i].seq = log[w].next - 1 =>
              f = disk.live /\ i = Len(lines[f])
<1>0. /\ lines \in [Files -> Seq(LineType)] /\ \A g \in Files : Len(lines[g]) \in Nat
      /\ f \in Files /\ (f = disk.live \/ \E a \in disk.arch : a.file = f)
      /\ \A a \in disk.arch : a \in SegType
  BY FilesIs, PlacesAre
<1>1. PICK lead \in Nat :
         /\ Leads(disk.arch, lead)
         /\ \A k \in 1..Len(lines[disk.live]) : /\ Parses(lines[disk.live][k])
                                                /\ lines[disk.live][k].seq = lead + k
         /\ log[w].next = lead + Len(lines[disk.live]) + 1
  BY OpenWriter
<1>2. disk.live \in Files /\ Len(lines[disk.live]) \in Nat
  BY <1>0, OpenWriter
<1>3. CASE f = disk.live
  <2>1. /\ Parses(lines[f][i]) /\ lines[f][i].seq = lead + i
        /\ log[w].next = lead + Len(lines[f]) + 1 /\ Len(lines[f]) \in Nat
    BY <1>1, <1>2, <1>3
  <2> QED BY <1>3, <2>1
<1>4. CASE f # disk.live
  <2>1. PICK a \in disk.arch : a.file = f
    BY <1>0, <1>4
  <2>2. /\ a.first \in Nat /\ a.last \in Nat /\ 1 <= a.first
        /\ Len(lines[f]) = a.last - a.first + 1 /\ lines[f][i].seq = a.first + i - 1
    BY <1>0, <2>1 DEF SegType, Numbers, Chained
  <2>3. a.last <= lead
    BY <1>1 DEF Leads
  <2>4. lines[f][i].seq <= lead /\ lines[f][i].seq > 0
    BY <2>2, <2>3
  <2>5. lines[f][i].seq < log[w].next
    <3>1. \A k \in Nat : log[w].next = lead + k + 1 => log[w].next > lead
      OBVIOUS
    <3>2. log[w].next > lead
      BY <1>1, <1>2, <3>1
    <3>3. log[w].next = lead + Len(lines[disk.live]) + 1
      BY <1>1
    <3>4. lines[f][i].seq \in Nat
      BY <2>2
    <3> QED BY <1>2, <2>4, <3>2, <3>3, <3>4
  <2>6. ASSUME lines[disk.live] # <<>> PROVE lines[f][i].seq # log[w].next - 1
    <3>1. Len(lines[disk.live]) > 0
      BY <1>0, <1>2, <2>6, TailIs
    <3> QED BY <1>1, <1>2, <2>2, <2>4, <3>1
  <2> QED BY <2>4, <2>5, <2>6 DEF Parses
<1> QED BY <1>3, <1>4

\* What a writer handles a record for is left alone by everybody else.
LEMMA OthersLeave ==
  ASSUME LogTyped, LogTyped', Dir, Solo, [LogNext]_logVars, deletes' = 0,
         NEW w \in Tasks, mode[w] \in Handling, ~Crash, ~Write(w), ~AfterWrite(w), ~Notice(w)
  PROVE  /\ disk'.live = disk.live /\ disk'.arch = disk.arch /\ Segments' = Segments
         /\ \A f \in Segments : lines'[f] = lines[f]
         /\ beside \subseteq beside'
<1>1. deletes = 0 /\ chan[w] = "open"
  BY NoWayBack, WorkerIs
<1>2. \A v \in Tasks : chan[v] = "open" => v = w
  BY <1>1, OnlyOne
<1>3. ASSUME NEW v \in Tasks, Write(v) \/ Notice(v) \/ AfterWrite(v) \/ (ensure_log(v) /\ Opens(v))
      PROVE  FALSE
  <2>1. chan[v] = "open"
    <3>1. CASE Write(v) \/ Notice(v)
      BY <3>1, WritesIs
    <3>2. CASE AfterWrite(v)
      BY Zenon, <3>2, WorkerIs DEF AfterWrite, Handling
    <3>3. CASE ensure_log(v)
      BY <3>3, WorkerIs DEF ensure_log, Working
    <3> QED BY <1>3, <3>1, <3>2, <3>3
  <2>2. v = w /\ mode[v] # "work"
    BY <1>2, <2>1 DEF Handling
  <2> QED BY <1>3, <2>2 DEF ensure_log, Working
<1>4. ~RemoveDir /\ ~Sweep
  <2>1. dpc = "idle"
    BY <1>1 DEF Solo
  <2>2. up
    BY DEF Solo, Handling
  <2> QED BY <2>1, <2>2 DEF RemoveDir, Sweep
<1>5. /\ disk'.live = disk.live /\ disk'.arch = disk.arch
      /\ lines' = lines \/ lines' = Kept(lines, disk', log')
  <2>1. CASE Neutral
    BY <2>1 DEF Neutral
  <2>2. CASE \E v \in Tasks : FinalSync(v)
    BY <2>2 DEF FinalSync
  <2> QED BY <1>3, <1>4, <2>1, <2>2, StepsAre
<1>6. Segments' = Segments
  BY <1>5 DEF Segments
<1>7. \A f \in Segments : lines'[f] = lines[f]
  <2>1. lines \in [Files -> Seq(LineType)]
    BY FilesIs
  <2> QED BY <1>5, <1>6, <2>1, KeptNamed, SegmentsNext
<1>8. beside \subseteq beside'
  BY <1>3, <1>4, BesideIs
<1> QED BY <1>5, <1>6, <1>7, <1>8

\* A record on disk stays at its place, unless the cap, the sweep or the machine takes it.
LEMMA LinesStay ==
  ASSUME LogTyped, LogTyped', Dir, Solo, Numbered, [LogNext]_logVars, Sound',
         ~Sweep, Crash => CutWrite /\ ~PowerLoss, \A w \in Tasks : ~AfterWrite(w),
         NEW f \in Segments, NEW i \in 1..Len(lines[f]), Parses(lines[f][i])
  PROVE  f \in Segments' /\ i \in 1..Len(lines'[f]) /\ lines'[f][i] = lines[f][i]
<1>0. /\ lines \in [Files -> Seq(LineType)] /\ \A g \in Files : Len(lines[g]) \in Nat
      /\ disk \in DirType /\ 0 \notin Files /\ f \in Files /\ disk.live \in Files \cup {0}
      /\ f = disk.live \/ \E a \in disk.arch : a.file = f
  BY FilesIs, PlacesAre
<1>1. deletes = 0 /\ Sound /\ Numbers
  BY NoWayBack DEF Sound, Numbered
<1> DEFINE Stays == f \in Segments' /\ lines'[f] = lines[f]
<1>2. Stays => f \in Segments' /\ i \in 1..Len(lines'[f]) /\ lines'[f][i] = lines[f][i]
  OBVIOUS
<1>3. ASSUME disk'.live = disk.live, disk'.arch = disk.arch,
             lines' = lines \/ lines' = Kept(lines, disk', log')
      PROVE  Stays
  <2>1. Segments' = Segments
    BY <1>3 DEF Segments
  <2> QED BY <1>0, <1>3, <2>1, KeptNamed, SegmentsNext
<1>4. ASSUME NEW w \in Tasks, Opens(w)
      PROVE  f \in Segments' /\ i \in 1..Len(lines'[f]) /\ lines'[f][i] = lines[f][i]
  <2>1. PICK g \in Files, s \in Seq(LineType) : Opened(w, g, s)
    BY <1>4 DEF Opens
  <2>2. /\ disk'.live = g /\ disk'.arch = disk.arch
        /\ lines'[g] = s /\ \A h \in Files \ {g} : lines'[h] = lines[h]
    BY <1>0, <2>1 DEF Opened, DirType
  <2>3. CASE disk.live = 0
    <3>1. ~Named(g)
      BY <2>1, <2>3, NamedIs DEF Opened
    <3>2. f # g
      BY <3>1, SegmentsNext, <1>0
    <3>3. f \in Segments'
      BY <1>0, <2>2, <2>3, SegmentsNext
    <3> QED BY <1>0, <2>2, <3>2, <3>3
  <2>4. CASE disk.live # 0
    <3>1. g = disk.live /\ s = repair_tail(lines[g])
      BY <2>1, <2>4 DEF Opened
    <3>2. f \in Segments'
      BY <1>0, <2>2, <3>1, SegmentsNext
    <3>3. CASE f = g
      <4>1. /\ i <= LastParsed(lines[f]) /\ Len(s) = LastParsed(lines[f])
            /\ \A j \in 1..Len(s) : s[j] = lines[f][j]
            /\ LastParsed(lines[f]) \in 0..Len(lines[f])
        BY <1>0, <3>1, <3>3, RepairIs
      <4>2. i \in 1..Len(s)
        BY <1>0, <4>1
      <4> QED BY <2>2, <3>2, <3>3, <4>1, <4>2
    <3>4. CASE f # g
      BY <1>0, <2>2, <3>2, <3>4
    <3> QED BY <3>3, <3>4
  <2> QED BY <2>3, <2>4
<1>5. ASSUME NEW w \in Tasks, Write(w) \/ Notice(w)
      PROVE  f \in Segments' /\ i \in 1..Len(lines'[f]) /\ lines'[f][i] = lines[f][i]
  <2>1. /\ chan[w] = "open" /\ log[w].file \in Files /\ log[w].next \in Nat
        /\ Write(w) => Msg(w) \in Words /\ Ref(w) \in SUBSET Images
        /\ \/ Write(w) /\ Grown(w, Msg(w), Ref(w))
           \/ Notice(w) /\ Grown(w, "trim", {})
           \/ LeftTorn(w)
           \/ \E g \in Files, t \in Seq(LineType) : Realigned(w, g, t)
    BY <1>5, WritesIs
  <2>2. /\ log[w].file = disk.live /\ disk.live \in Files
        /\ \A k \in 1..Len(lines[disk.live]) : Parses(lines[disk.live][k])
        /\ log[w].bytes = Len(lines[disk.live])
    BY <1>0, <1>1, <2>1, OpenWriter
  <2>3. ~LeftTorn(w)
    BY DEF LeftTorn, Fault, Sound
  <2>4. ASSUME NEW r \in Words, NEW ref \in SUBSET Images, Grown(w, r, ref)
        PROVE  f \in Segments' /\ i \in 1..Len(lines'[f]) /\ lines'[f][i] = lines[f][i]
    <3> DEFINE l == Line(log[w].next, r, ref)
    <3>1. l \in LineType
      BY <2>1, LineIs
    <3>2. Segments' = Segments
      BY <2>4 DEF Grown, Segments
    <3>3. /\ lines'[disk.live] = Appended(lines[disk.live], l)
          /\ \A g \in Files \ {disk.live} : lines'[g] = lines[g]
      BY <1>0, <2>2, <2>4 DEF Grown
    <3>4. CASE f = disk.live
      <4>1. lines[f] # <<>> => Len(lines[f]) \in 1..Len(lines[f])
        BY <1>0, TailIs
      <4>2. lines[f] # <<>> => lines[f][Len(lines[f])] # Cut
        BY <2>2, <3>4, <4>1, LineIs
      <4>3. lines'[f] = Append(lines[f], l)
        BY <1>0, <3>1, <3>3, <3>4, <4>2, AppendedIs
      <4>4. lines[f] \in Seq(LineType)
        BY <1>0
      <4> HIDE DEF l
      <4> QED BY <3>1, <3>2, <4>3, <4>4
    <3>5. CASE f # disk.live
      BY <1>0, <3>2, <3>3, <3>5
    <3> QED BY <3>4, <3>5
  <2>5. ASSUME NEW g \in Files, NEW t \in Seq(LineType), Realigned(w, g, t) PROVE Stays
    <3>1. disk.live # 0
      BY <1>0, <2>2
    <3>2. g = disk.live /\ disk' = [disk EXCEPT !.live = g] /\ t = lines[g]
      BY <1>1, <2>2, <2>5, <3>1 DEF Realigned, Sound
    <3>3. disk'.live = disk.live /\ disk'.arch = disk.arch
      BY <1>0, <3>2 DEF DirType
    <3>4. lines' = Kept([lines EXCEPT ![g] = t], disk', log')
      BY <2>5 DEF Realigned
    <3>5. [lines EXCEPT ![g] = t] = lines
      BY <1>0, <3>2
    <3> QED BY <1>3, <3>3, <3>4, <3>5
  <2>6. "trim" \in Words /\ {} \in SUBSET Images
    BY DEF Words
  <2> HIDE DEF Stays
  <2> QED BY <1>2, <2>1, <2>3, <2>4, <2>5, <2>6
<1>6. ~RemoveDir
  BY <1>1 DEF Solo, RemoveDir
<1>7. ASSUME Crash
      PROVE  f \in Segments' /\ i \in 1..Len(lines'[f]) /\ lines'[f][i] = lines[f][i]
  <2>1. /\ disk' = disk
        /\ \/ \A g \in Files : Named(g)' => lines'[g] = lines[g]
           \/ \E k \in Nat, torn \in BOOLEAN :
                /\ disk.live \in Files /\ k \in 0..Len(lines[disk.live])
                /\ lines'[disk.live] = CutShort(disk.live, k, torn)
                /\ k < Len(lines[disk.live]) => PowerLoss
                /\ \A g \in Files \ {disk.live} : Named(g)' => lines'[g] = lines[g]
    BY <1>7, CrashFiles
  <2>2. Segments' = Segments /\ Named(f)'
    BY <1>0, <2>1, SegmentsNext DEF Segments
  <2>3. CASE \A g \in Files : Named(g)' => lines'[g] = lines[g]
    BY <1>0, <2>2, <2>3
  <2>4. ASSUME NEW k \in Nat, NEW torn \in BOOLEAN,
               disk.live \in Files, k \in 0..Len(lines[disk.live]),
               lines'[disk.live] = CutShort(disk.live, k, torn),
               k < Len(lines[disk.live]) => PowerLoss,
               \A g \in Files \ {disk.live} : Named(g)' => lines'[g] = lines[g]
        PROVE  f \in Segments' /\ i \in 1..Len(lines'[f]) /\ lines'[f][i] = lines[f][i]
    <3>1. CASE f = disk.live
      <4>1. k = Len(lines[f])
        BY <1>0, <1>7, <2>4, <3>1
      <4>2. /\ Len(lines'[f]) = k + (IF torn THEN 1 ELSE 0)
            /\ \A j \in 1..k : lines'[f][j] = lines[f][j]
        <5>1. f \in Files /\ k \in 0..Len(lines[f]) /\ lines'[f] = CutShort(f, k, torn)
          BY <2>4, <3>1
        <5>2. /\ Len(CutShort(f, k, torn)) = k + (IF torn THEN 1 ELSE 0)
              /\ \A j \in 1..k : CutShort(f, k, torn)[j] = lines[f][j]
          BY <5>1, CutShortIs
        <5> QED BY <5>1, <5>2
      <4> QED BY <1>0, <2>2, <4>1, <4>2
    <3>2. CASE f # disk.live
      BY <1>0, <2>2, <2>4, <3>2
    <3> QED BY <3>1, <3>2
  <2> QED BY <2>1, <2>3, <2>4
<1>8. CASE Neutral
  BY <1>2, <1>3, <1>8 DEF Neutral
<1>9. CASE \E w \in Tasks : FinalSync(w)
  BY <1>2, <1>3, <1>9 DEF FinalSync
<1> HIDE DEF Stays
<1> QED BY <1>4, <1>5, <1>6, <1>7, <1>8, <1>9, StepsAre

\* The segment that was live when the cap was enforced is still there.
LEMMA LastStays ==
  ASSUME LogTyped, LogTyped', Dir, Solo, Numbered, Sound', CapLeavesSome', [LogNext]_logVars,
         NEW w \in Tasks, AfterWrite(w), lines[disk.live] # <<>>
  PROVE  disk.live \in Segments'
<1>0. /\ lines \in [Files -> Seq(LineType)] /\ \A g \in Files : Len(lines[g]) \in Nat
      /\ disk \in DirType /\ IsFiniteSet(disk.arch) /\ 0 \notin Files
      /\ \A a \in disk.arch : a \in SegType
      /\ log[w] \in FileType /\ mode \in [Tasks -> WriterModes]
  BY FilesIs DEF LogTyped, WritersOK
<1>1. deletes = 0 /\ Sound /\ Numbers
  BY NoWayBack DEF Sound, Numbered
<1>2. chan[w] = "open" /\ log[w].file \in Files /\ log[w].next \in Nat \ {0}
  BY Zenon, WorkerIs DEF AfterWrite, Handling
<1>3. PICK lead \in Nat :
         /\ Leads(disk.arch, lead)
         /\ log[w].next = lead + Len(lines[disk.live]) + 1
         /\ log[w].first = lead + 1
  BY <1>0, <1>1, <1>2, OpenWriter
<1>4. disk.live \in Files /\ disk.live # 0
  BY <1>0, <1>1, <1>2, OpenWriter
<1>5. PICK G : /\ Takes(disk, G)
               /\ \/ Stayed(w, G)
                  \/ Stranded(w, G)
                  \/ \E g \in Files : \E H : Rotated(w, G, g, H)
  BY AfterWriteIs
<1>6. /\ Less(disk, G).arch = disk.arch \ G /\ Less(disk, G).live = disk.live
      /\ Less(disk, G) \in DirType /\ IsFiniteSet(Less(disk, G).arch)
  BY <1>0, LessIs
<1>7. CASE Stayed(w, G)
  <2>1. disk'.live = disk.live
    BY <1>6, <1>7 DEF Stayed
  <2> QED BY <1>4, <2>1, SegmentsNext
<1>8. ~Stranded(w, G)
  BY DEF Stranded, Fault, Sound
<1>9. CASE \E g \in Files : \E H : Rotated(w, G, g, H)
  <2>0. PICK g \in Files : \E H : Rotated(w, G, g, H)
    BY <1>9
  <2>1. PICK H : Rotated(w, G, g, H)
    BY <2>0
  <2>2. /\ FreeFile(g) /\ Takes(Turned(w, G, g), H)
        /\ disk' = Less(Turned(w, G, g), H) /\ Paid(w, G # {} \/ H # {})
    BY <2>1 DEF Rotated
  <2>3. /\ Turned(w, G, g) \in DirType /\ IsFiniteSet(Turned(w, G, g).arch)
        /\ Turned(w, G, g).live = g /\ Turned(w, G, g).arch = Archived(w, Less(disk, G)).arch
    BY <1>0, <1>2, <1>4, <1>5, TurnedIs
  <2>4. disk'.live = g /\ disk'.arch = Turned(w, G, g).arch \ H
    <3>1. /\ Less(Turned(w, G, g), H).arch = Turned(w, G, g).arch \ H
          /\ Less(Turned(w, G, g), H).live = Turned(w, G, g).live
      BY <2>3, LessIs
    <3> QED BY <2>2, <2>3, <3>1
  <2>5. PICK first \in Nat, final \in Nat :
          /\ final = log[w].next - 1
          /\ first = IF log[w].first = 0 THEN final ELSE log[w].first
          /\ Archived(w, Less(disk, G)).arch =
               {a \in Less(disk, G).arch : a.first # first \/ a.last # final}
               \cup {[first |-> first, last |-> final, file |-> Less(disk, G).live]}
    <3>1. /\ log[w] \in FileType /\ log[w].next > 0
          /\ Less(disk, G) \in DirType /\ IsFiniteSet(Less(disk, G).arch)
          /\ Less(disk, G).live # 0
      BY <1>0, <1>2, <1>4, <1>6
    <3> QED BY <3>1, ArchivedIs
  <2>6. PICK x : /\ x.first = lead + 1 /\ x.file = disk.live /\ x \in Turned(w, G, g).arch
                 /\ Turned(w, G, g).arch \subseteq disk.arch \cup {x}
    <3> DEFINE y == [first |-> first, last |-> final, file |-> Less(disk, G).live]
    <3>1. y.first = lead + 1 /\ y.file = disk.live
      BY <1>3, <1>6, <2>5
    <3>2. y \in Turned(w, G, g).arch /\ Turned(w, G, g).arch \subseteq disk.arch \cup {y}
      BY <1>6, <2>3, <2>5
    <3> HIDE DEF y
    <3> QED BY <3>1, <3>2
  <2>7. CASE x \notin H
    <3>1. x \in disk'.arch
      BY <2>4, <2>6, <2>7
    <3> QED BY <1>4, <2>6, <3>1, SegmentsNext
  <2>8. CASE x \in H
    <3>1. ASSUME NEW y \in disk'.arch PROVE FALSE
      <4>1. y \in Turned(w, G, g).arch \ H
        BY <2>4
      <4>2. x.first <= y.first
        BY <2>2, <2>8, <4>1 DEF Takes, OldestOf, Sound
      <4>3. y \in disk.arch
        BY <2>6, <2>8, <4>1
      <4>4. y.first \in Nat /\ y.last \in Nat /\ y.first <= y.last
        BY <1>0, <1>1, <4>3 DEF SegType, Numbers, Chained
      <4>5. y.last <= lead
        BY <1>3, <4>3 DEF Leads
      <4> QED BY <2>6, <4>2, <4>4, <4>5
    <3>2. Segments' = {g}
      BY <1>0, <2>4, <3>1 DEF Segments
    <3>3. lines[g] = <<>>
      BY <2>2, NamedIs DEF Dir
    <3>4. lines' = Kept(lines, disk', log')
      BY Zenon DEF AfterWrite
    <3>5. lines'[g] = <<>>
      BY <1>0, <3>2, <3>3, <3>4, KeptNamed, SegmentsNext
    <3>6. OnDisk' = {}
      <4>1. Places' = {}
        BY <3>2, <3>5 DEF Places
      <4> QED BY <4>1 DEF OnDisk
    <3>7. mode'[w] = "trimmed"
      <4>1. G # {} \/ H # {}
        BY <2>8
      <4> QED BY <1>0, <2>2, <4>1 DEF Paid
    <3> QED BY <3>6, <3>7 DEF CapLeavesSome
  <2> QED BY <2>7, <2>8
<1> QED BY <1>5, <1>7, <1>8, <1>9

----------------------------------------------------------------------------
(* A snapshot's image, from the copy to the answer. *)

\* Every step keeps a file with the record that names it.
LEMMA NextRefNames ==
  LogTyped /\ LogTyped' /\ Dir /\ RefNames /\ [LogNext]_logVars => RefNames'
<1> SUFFICES ASSUME LogTyped, LogTyped', Dir, RefNames, [LogNext]_logVars, deletes' = 0,
                    NEW f \in Segments', NEW i \in 1..Len(lines'[f]), NEW x \in lines'[f][i].ref
             PROVE  x[2] = lines'[f][i].rec /\ (x[2] \in Snaps => x[1] = lines'[f][i].seq)
  BY DEF RefNames
<1>1. deletes = 0
  BY NoWayBack
<1>2. ~Blank(lines'[f][i])
  BY DEF Blank
<1>3. CASE Same(f, i)
  BY <1>1, <1>3 DEF Same, RefNames
<1>4. ASSUME NEW w \in Tasks, NEW r \in Words, NEW ref \in SUBSET Images, Added(w, r, ref),
             ~Same(f, i)
      PROVE  x[2] = lines'[f][i].rec /\ (x[2] \in Snaps => x[1] = lines'[f][i].seq)
  <2>1. log[w].file \in Files /\ log[w].next \in Nat
    BY <1>4, WritesIs DEF Added
  <2>2. lines'[f][i] = Line(log[w].next, r, ref)
    BY <1>2, <1>4, <2>1, GrownLines DEF Added
  <2>3. /\ lines'[f][i].seq = log[w].next /\ lines'[f][i].rec = r /\ lines'[f][i].ref = ref
    BY <2>1, <2>2, LineIs
  <2>4. r = Msg(w) /\ x = Name(w, Msg(w))
    BY <1>4, <2>3 DEF Added, Ref
  <2> QED BY <2>3, <2>4 DEF Name
<1> QED BY <1>2, <1>3, <1>4, LinesFrom DEF FewerLines

\* Nobody takes a copied file away before its record is written.
LEMMA NextCopied ==
  LogTyped /\ LogTyped' /\ Dir /\ Solo /\ CopiedBeside /\ [LogNext]_logVars => CopiedBeside'
<1> SUFFICES ASSUME LogTyped, LogTyped', Dir, Solo, CopiedBeside, [LogNext]_logVars, deletes' = 0,
                    NEW v \in Tasks, mode'[v] = "copied"
             PROVE  Name(v, Msg(v))' \in beside'
  BY DEF CopiedBeside
<1>1. deletes = 0
  BY NoWayBack
<1>2. ~Crash
  BY DEF Crash, Died
<1>3. /\ batch'[v] = batch[v]
      /\ HeldOn(v) \/ HasCopied(v)
  BY HandlingFrom DEF HasWritten
<1>4. Name(v, Msg(v))' = Name(v, Msg(v))
  BY <1>3 DEF HeldOn, HasCopied, Name, Msg
<1>5. CASE HeldOn(v)
  <2>1. Name(v, Msg(v)) \in beside /\ mode[v] \in Handling
    BY <1>1, <1>5 DEF HeldOn, CopiedBeside, Handling
  <2>2. beside \subseteq beside'
    BY <1>2, <1>5, <2>1, OthersLeave DEF HeldOn
  <2> QED BY <1>4, <2>1, <2>2
<1>6. CASE HasCopied(v)
  BY <1>4, <1>6 DEF HasCopied
<1> QED BY <1>3, <1>5, <1>6

\* The record just written stays the last line of the log until its answer.
LEMMA NextLatest ==
  /\ LogTyped /\ LogTyped' /\ Dir /\ Solo /\ Numbered /\ CopiedBeside /\ Latest
  /\ [LogNext]_logVars
  => Latest'
<1> SUFFICES ASSUME LogTyped, LogTyped', Dir, Solo, Numbered, CopiedBeside, Latest,
                    [LogNext]_logVars, Sound', NEW v \in Tasks, mode'[v] = "wrote"
             PROVE  LatestOf(v)'
  BY DEF Latest
<1>0. /\ lines \in [Files -> Seq(LineType)] /\ \A g \in Files : Len(lines[g]) \in Nat
      /\ 0 \notin Files /\ disk.live \in Files \cup {0}
  BY FilesIs
<1>1. deletes = 0 /\ deletes' = 0 /\ Sound /\ Numbers
  BY NoWayBack DEF Sound, Numbered
<1>2. batch'[v] = batch[v] /\ (HeldOn(v) \/ HasWritten(v)) /\ ~Crash
  BY HandlingFrom DEF HasCopied, Crash, Died
<1>3. Msg(v)' = Msg(v)
  BY <1>2 DEF Msg
<1>4. CASE HeldOn(v)
  <2>1. LatestOf(v) /\ mode[v] \in Handling /\ log'[v] = log[v]
    BY <1>1, <1>4 DEF HeldOn, Latest, Handling
  <2>2. disk.live \in Segments
    BY <1>0, <2>1, SegmentsNext DEF LatestOf
  <2>3. /\ disk'.live = disk.live /\ lines'[disk.live] = lines[disk.live] /\ beside \subseteq beside'
    BY <1>1, <1>2, <1>4, <2>1, <2>2, OthersLeave DEF HeldOn
  <2> QED BY <1>3, <2>1, <2>3 DEF LatestOf
<1>5. CASE HasWritten(v)
  <2>1. Write(v) /\ beside' = beside /\ Grown(v, Msg(v), Ref(v))
    BY <1>5 DEF HasWritten
  <2>2. /\ chan[v] = "open" /\ log[v].file \in Files /\ log[v].next \in Nat
        /\ Msg(v) \in Words /\ Ref(v) \in SUBSET Images
    BY <2>1, WritesIs
  <2>3. /\ log[v].file = disk.live /\ disk.live \in Files
        /\ \A k \in 1..Len(lines[disk.live]) : Parses(lines[disk.live][k])
    BY <1>0, <1>1, <2>2, OpenWriter
  <2> DEFINE l == Line(log[v].next, Msg(v), Ref(v))
             s == lines[disk.live]
  <2>4. /\ l \in LineType /\ l.seq = log[v].next /\ l.rec = Msg(v) /\ l.ref = Ref(v)
    BY <2>2, LineIs
  <2>5. /\ disk' = disk /\ lines' = [lines EXCEPT ![log[v].file] = Appended(@, l)]
        /\ log'[v].next = log[v].next + 1
    BY <2>1 DEF Grown
  <2>6. s \in Seq(LineType) /\ (s # <<>> => Len(s) \in 1..Len(s))
    BY <1>0, <2>3, TailIs
  <2>7. s # <<>> => s[Len(s)] # Cut
    BY <2>3, <2>6, LineIs
  <2>8. Appended(s, l) = Append(s, l)
    BY <2>4, <2>6, <2>7, AppendedIs
  <2>9. lines'[disk'.live] = Append(s, l)
    BY <1>0, <2>3, <2>5, <2>8
  <2> HIDE DEF l, s
  <2>10. /\ Append(s, l) # <<>> /\ Append(s, l)[Len(Append(s, l))] = l
    BY <2>4, <2>6
  <2>11. Msg(v) \in Snaps => Ref(v) # {} /\ Ref(v) \subseteq beside
    <3> SUFFICES ASSUME Msg(v) \in Snaps PROVE Ref(v) # {} /\ Ref(v) \subseteq beside
      OBVIOUS
    <3>1. mode[v] \in {"copied", "plain"}
      BY <2>1, NamesApart DEF Write, Clients, Callers
    <3>2. mode[v] = "copied"
      BY <3>1, NamesApart, WorkerIs DEF Handling
    <3> QED BY <1>1, <3>2 DEF Ref, CopiedBeside
  <2>12. log'[v].next - 1 = log[v].next /\ disk'.live # 0
    BY <1>0, <2>2, <2>3, <2>5
  <2> QED BY <1>3, <2>1, <2>4, <2>9, <2>10, <2>11, <2>12 DEF LatestOf
<1> QED BY <1>2, <1>4, <1>5

\* The cap, which leaves the live segment, leaves the image of the record just written.
LEMMA ImageAfter ==
  ASSUME LogTyped, LogTyped', Dir, Solo, Numbered, RefNames, Latest, [LogNext]_logVars,
         Sound', CapLeavesSome', NEW w \in Tasks, AfterWrite(w), NEW s \in Snaps, Msg(w) = s
  PROVE  \E f \in Segments' : \E i \in 1..Len(lines'[f]) :
            /\ Parses(lines'[f][i]) /\ lines'[f][i].rec = s
            /\ lines'[f][i].ref # {} /\ lines'[f][i].ref \subseteq beside'
<1> DEFINE f == disk.live
           n == Len(lines[f])
<1>1. deletes = 0 /\ Sound /\ Numbers
  BY NoWayBack DEF Sound, Numbered
<1>2. mode[w] = "wrote" /\ chan[w] = "open" /\ log[w].file \in Files /\ log[w].file # 0
  BY ZenonT(40), WorkerIs, FilesIs DEF AfterWrite, Handling
<1>3. /\ f # 0 /\ lines[f] # <<>>
      /\ lines[f][n].seq = log[w].next - 1 /\ lines[f][n].rec = s
      /\ lines[f][n].ref # {} /\ lines[f][n].ref \subseteq beside
  BY <1>1, <1>2 DEF Latest, LatestOf
<1>4. /\ lines \in [Files -> Seq(LineType)] /\ disk.live \in Files \cup {0}
      /\ f \in Segments
  <2>1. lines \in [Files -> Seq(LineType)] /\ disk.live \in Files \cup {0}
    BY FilesIs
  <2> QED BY <1>3, <2>1, SegmentsNext
<1>5. n \in 1..n
  BY <1>3, <1>4, TailIs
<1>6. f \in Segments'
  BY <1>3, LastStays
<1>7. lines'[f] = lines[f]
  BY <1>6, TurnsLines
<1>8. Parses(lines[f][n])
  BY <1>1, <1>2, <1>4, <1>5, OpenPlaces
<1>9. PICK Z : Trimmed(Z)
  BY TurnsLines
<1>10. ASSUME NEW x \in lines[f][n].ref, x \notin beside' PROVE FALSE
  <2>1. PICK g \in Z : \E i \in 1..Len(lines[g]) : x \in lines[g][i].ref
    BY <1>3, <1>9, <1>10 DEF Trimmed
  <2>2. PICK i \in 1..Len(lines[g]) : x \in lines[g][i].ref
    BY <2>1
  <2>3. g \in Segments /\ g \notin Segments'
    BY <1>9 DEF Trimmed
  <2>4. x[2] = s /\ x[1] = lines[f][n].seq
    BY <1>1, <1>3, <1>4, <1>5, <1>10 DEF RefNames
  <2>5. x[1] = lines[g][i].seq
    BY <1>1, <2>2, <2>3, <2>4 DEF RefNames
  <2>6. g = f
    BY <1>1, <1>2, <1>3, <2>3, <2>4, <2>5, OpenPlaces
  <2> QED BY <1>6, <2>3, <2>6
<1> HIDE DEF f, n
<1>11. n \in 1..Len(lines'[f])
  BY <1>5, <1>7 DEF n
<1> QED BY <1>3, <1>6, <1>7, <1>8, <1>10, <1>11

\* The image stays until the answer.
LEMMA NextImaged ==
  /\ LogTyped /\ LogTyped' /\ Dir /\ Solo /\ Numbered /\ RefNames /\ Latest /\ Imaged
  /\ CapLeavesSome' /\ [LogNext]_logVars
  => Imaged'
<1> SUFFICES ASSUME LogTyped, LogTyped', Dir, Solo, Numbered, RefNames, Latest, Imaged,
                    CapLeavesSome', [LogNext]_logVars, Sound',
                    NEW v \in Tasks, mode'[v] = "trimmed", Msg(v)' \in Snaps
             PROVE  ImageThere(Msg(v))'
  BY DEF Imaged
<1>1. deletes = 0 /\ deletes' = 0 /\ Sound
  BY NoWayBack DEF Sound
<1>2. batch'[v] = batch[v] /\ (HeldOn(v) \/ AfterWrite(v)) /\ ~Crash
  BY HandlingFrom DEF HasCopied, HasWritten, Crash, Died
<1>3. Msg(v)' = Msg(v) /\ Msg(v) \in Snaps
  BY <1>2 DEF Msg
<1>4. CASE HeldOn(v)
  <2>1. mode[v] = "trimmed" /\ mode[v] \in Handling
    BY <1>4 DEF HeldOn, Handling
  <2>2. ImageThere(Msg(v))
    BY <1>1, <1>3, <2>1 DEF Imaged
  <2>3. /\ Segments' = Segments /\ \A f \in Segments : lines'[f] = lines[f]
        /\ beside \subseteq beside'
    BY <1>1, <1>2, <1>4, <2>1, OthersLeave DEF HeldOn
  <2> QED BY <1>3, <2>2, <2>3 DEF ImageThere
<1>5. CASE AfterWrite(v)
  BY <1>3, <1>5, ImageAfter DEF ImageThere
<1> QED BY <1>2, <1>4, <1>5

\* A snapshot is answered Ok by the end of its message alone.
LEMMA OkFrom ==
  ASSUME LogTyped, [LogNext]_logVars, NEW s \in Snaps, pc[s] # "ok", pc'[s] = "ok"
  PROVE  \E w \in Tasks : (AfterWrite(w) \/ Notice(w)) /\ Msg(w) = s
<1>0. /\ pc \in [Clients -> Stops] /\ s \in Clients /\ s \in Callers /\ s \notin Recs
      /\ s \notin Flushes
      /\ \A S : Abandoned(S)[s] # "ok"
  BY NamesApart, AbandonedIs DEF LogTyped, ClientOK, Clients, Callers
<1>1. ASSUME NEW c \in Clients, Open(c) \/ Collect(c) \/ Send(c) \/ Tracked(c) \/ Reopen(c)
      PROVE  FALSE
  <2>1. pc' = pc \/ \E x : x # "ok" /\ pc' = [pc EXCEPT ![c] = x]
    <3>1. CASE Send(c)
      <4>1. \/ pc' = [pc EXCEPT ![c] = IF c \in Recs THEN "accepted"
                                        ELSE IF pc[c] = "held" THEN "waiting" ELSE "waiting2"]
            \/ Undelivered(c)
            \/ pc' = [pc EXCEPT ![c] = "closed"]
        BY <3>1 DEF Send
      <4> QED BY <4>1 DEF Undelivered
    <3>2. CASE ~Send(c)
      BY <1>1, <3>2 DEF Open, Collect, Tracked, Reopen, Undelivered
    <3> QED BY <3>1, <3>2
  <2> QED BY <1>0, <2>1
<1>2. ASSUME NEW w \in Tasks, DropRx(w) \/ EndBatch(w) \/ CloseMsg(w) \/ SkipMsg(w) \/ Write(w)
      PROVE  FALSE
  <2>1. pc' = pc \/ \E S : pc' = Abandoned(S)
    BY <1>2 DEF DropRx, EndBatch, CloseMsg, SkipMsg, Write
  <2> QED BY <1>0, <2>1
<1>3. ASSUME NEW w \in Tasks, SyncMsg(w) \/ Copy(w) PROVE FALSE
  <2>1. CASE SyncMsg(w)
    BY <1>0, <2>1 DEF SyncMsg
  <2>2. CASE Copy(w)
    <3>1. pc' = pc \/ pc' = [pc EXCEPT ![Msg(w)] = "refused"]
      BY <2>2 DEF Copy, NotCopied
    <3> QED BY <1>0, <3>1
  <2> QED BY <1>3, <2>1, <2>2
<1>4. ASSUME NEW w \in Tasks, AfterWrite(w) \/ Notice(w) PROVE Msg(w) = s
  <2>1. Answered(w) \/ \E trimmed : Paid(w, trimmed)
    BY Zenon, <1>4, AfterWriteIs DEF Notice, Stayed, Stranded, Rotated
  <2>2. pc' = pc \/ pc' = [pc EXCEPT ![Msg(w)] = "ok"]
    BY <2>1 DEF Paid, Answered
  <2> QED BY <1>0, <2>2
<1>5. ~Crash
  BY <1>0 DEF Crash, Died
<1>6. ASSUME NEW w \in Tasks, Take(w) \/ TimerSync(w) \/ Idle(w) \/ FinalSync(w) \/ ensure_log(w)
      PROVE  FALSE
  BY <1>6 DEF Take, TimerSync, Idle, FinalSync, ensure_log, clientVars
<1>7. ~(UNCHANGED logVars \/ DeleteRows \/ Forget \/ SendClose \/ ForgetTimesOut \/ RemoveDir \/ Sweep \/ Boot)
  BY DEF logVars, DeleteRows, Forget, SendClose, ForgetTimesOut, RemoveDir, Sweep, Boot,
     clientVars
<1> QED BY <1>1, <1>2, <1>3, <1>4, <1>5, <1>6, <1>7 DEF LogNext

\* A line of a segment is on disk, in the next state too.
LEMMA PlacesNext ==
  ASSUME LogTyped', NEW f \in Segments', NEW i \in 1..Len(lines'[f])
  PROVE  lines'[f][i] \in OnDisk'
<1>1. disk' \in DirType /\ lines' \in [Files -> Seq(LineType)]
  BY DEF LogTyped, DiskOK
<1>2. f \in Files
  BY <1>1 DEF Segments, DirType, SegType
<1>3. DOMAIN lines'[f] = 1..Len(lines'[f])
  BY <1>1, <1>2
<1>4. <<f, i>> \in {f} \X DOMAIN lines'[f]
  BY <1>3
<1>5. <<f, i>> \in Places'
  BY <1>4 DEF Places
<1>6. At(<<f, i>>)' = lines'[f][i]
  BY DEF At
<1> QED BY <1>5, <1>6 DEF OnDisk

\* When a snapshot is answered Ok, its record is in the log and its image beside it.
LEMMA ImageStep ==
  ASSUME LogTyped, LogTyped', Dir, Solo, Numbered, RefNames, Latest, Imaged, CapLeavesSome',
         [LogNext]_logVars, NEW s \in Snaps, pc[s] # "ok", pc'[s] = "ok", Sound'
  PROVE  \E l \in OnDisk' : l.rec = s /\ l.ref # {} /\ l.ref \subseteq beside'
<1>1. deletes = 0 /\ Sound
  BY NoWayBack DEF Sound
<1>2. PICK w \in Tasks : (AfterWrite(w) \/ Notice(w)) /\ Msg(w) = s
  BY OkFrom
<1>3. \E f \in Segments' : \E i \in 1..Len(lines'[f]) :
         /\ lines'[f][i].rec = s
         /\ lines'[f][i].ref # {} /\ lines'[f][i].ref \subseteq beside'
  <2>1. CASE AfterWrite(w)
    BY <1>2, <2>1, ImageAfter
  <2>2. CASE Notice(w)
    <3>1. mode[w] = "trimmed" /\ up' = up /\ beside' = beside
      BY <2>2 DEF Notice
    <3>2. PICK f \in Segments : \E i \in 1..Len(lines[f]) :
            /\ Parses(lines[f][i]) /\ lines[f][i].rec = s
            /\ lines[f][i].ref # {} /\ lines[f][i].ref \subseteq beside
      BY <1>1, <1>2, <3>1 DEF Imaged, ImageThere
    <3>3. PICK i \in 1..Len(lines[f]) :
            /\ Parses(lines[f][i]) /\ lines[f][i].rec = s
            /\ lines[f][i].ref # {} /\ lines[f][i].ref \subseteq beside
      BY <3>2
    <3>4. ~Sweep
      <4>1. up
        BY <3>1 DEF Solo
      <4> QED BY <4>1 DEF Sweep
    <3>5. ~Crash
      BY <3>1 DEF Crash, Died
    <3>6. ASSUME NEW v \in Tasks, AfterWrite(v) PROVE FALSE
      <4>1. chan[v] = "open" /\ chan[w] = "open" /\ mode[v] = "wrote"
        BY Zenon, <3>1, <3>6, WorkerIs DEF AfterWrite, Handling
      <4> QED BY <1>1, <3>1, <4>1, OnlyOne
    <3>7. f \in Segments' /\ i \in 1..Len(lines'[f]) /\ lines'[f][i] = lines[f][i]
      BY <3>3, <3>4, <3>5, <3>6, LinesStay
    <3> QED BY <3>1, <3>3, <3>7
  <2> QED BY <1>2, <2>1, <2>2
<1> QED BY <1>3, PlacesNext

\* There are no images at first.
LEMMA InitImages == LogInit => RefNames /\ CopiedBeside /\ Latest /\ Imaged
<1> SUFFICES ASSUME LogInit PROVE RefNames /\ CopiedBeside /\ Latest /\ Imaged
  OBVIOUS
<1>1. Segments = {} /\ \A w \in Tasks : mode[w] = "none"
  BY DEF LogInit, NoDir, Segments
<1> QED BY <1>1 DEF RefNames, CopiedBeside, Latest, Imaged

\* Every step keeps the images, while the cap leaves something.
LEMMA NextImages == ImageLog /\ CapLeavesSome' /\ [LogNext]_logVars => ImageLog'
BY NextTyped, NextDir, NextSolo, NextNumbered, NextRefNames, NextCopied, NextLatest, NextImaged
   DEF ImageLog

\* As long as the cap leaves something of the log, a snapshot is answered Ok only with the old
\* bytes saved and the record that names them in the log, whatever is copied, rotated, trimmed
\* or failed in between: its caller is about to destroy them.
THEOREM ImageKeptAlways == LogSpec /\ []CapLeavesSome => ImageKept
<1>1. LogInit => ImageLog
  BY InitTyped, InitDir, InitSolo, InitNumbered, InitImages DEF ImageLog
<1>2. ImageLog /\ CapLeavesSome' /\ [LogNext]_logVars =>
        \A s \in Snaps : pc[s] # "ok" /\ pc'[s] = "ok" /\ deletes' = 0 /\ ~hurt' =>
          \E l \in OnDisk' : l.rec = s /\ l.ref # {} /\ l.ref \subseteq beside'
  BY ImageStep, NextTyped DEF ImageLog, Sound
<1> QED BY <1>1, <1>2, NextImages, PTL DEF LogSpec, ImageKept

----------------------------------------------------------------------------
(* The index of the tool results. *)

\* A row changes when a record is done, to its number, or with all others to nothing.
LEMMA RowsFrom ==
  ASSUME LogTyped, [LogNext]_logVars
  PROVE  \/ rows' = rows \/ \A r \in Recs : rows'[r] = 0
         \/ \E w \in Tasks : /\ Pays(w)
                             /\ \A r \in Recs : \/ rows'[r] = rows[r]
                                                \/ r = Msg(w) /\ rows'[r] = log[w].next - 1
<1>1. ASSUME NEW w \in Tasks, Pays(w), NEW r \in Recs
      PROVE  rows'[r] = rows[r] \/ (r = Msg(w) /\ rows'[r] = log[w].next - 1)
  <2>1. rows \in [Recs -> Nat]
    BY DEF LogTyped, RowsOK
  <2>2. rows' = Indexed(w)
    BY Zenon, <1>1 DEF Pays, AfterWrite, CutRotation
  <2>3. Indexed(w) = rows \/ (Msg(w) \in Recs /\ Indexed(w) = [rows EXCEPT ![Msg(w)] = log[w].next - 1])
    BY Zenon DEF Indexed
  <2> QED BY <2>1, <2>2, <2>3
<1>2. CASE UNCHANGED logVars \/ DeleteRows \/ Sweep
  BY <1>2 DEF logVars, rowVars, DeleteRows, Sweep
<1>3. ASSUME LogNext, ~(\E w \in Tasks : AfterWrite(w)), ~DeleteRows, ~Sweep, ~Crash
      PROVE  rows' = rows
  BY ZenonT(40), <1>3 DEF LogNext, Open, Collect, Send, Tracked, Reopen, Take, TimerSync, Idle,
     DropRx,
     FinalSync, EndBatch, SyncMsg, CloseMsg, SkipMsg, ensure_log, Copy, Write, Notice,
     Forget, SendClose, ForgetTimesOut, RemoveDir, Boot, rowVars
<1>4. ASSUME Crash PROVE rows' = rows \/ \E w \in Tasks : Pays(w)
  BY <1>4 DEF Crash, CutWrite, Pays
<1>5. (\E w \in Tasks : AfterWrite(w)) => \E w \in Tasks : Pays(w)
  BY DEF Pays
<1> QED BY <1>1, <1>2, <1>3, <1>4, <1>5

\* The record that has just been written is the last one of a segment that stays.
LEMMA LastRecord ==
  ASSUME LogTyped, LogTyped', Dir, Solo, Numbered, Latest, [LogNext]_logVars,
         Sound', CapLeavesSome', NEW w \in Tasks, Pays(w)
  PROVE  /\ chan[w] = "open" /\ log[w].file # 0 /\ log[w].next \in Nat \ {0}
         /\ \E i \in 1..Len(lines[disk.live]) :
              /\ disk.live \in Segments' /\ i \in 1..Len(lines'[disk.live])
              /\ lines'[disk.live][i] = lines[disk.live][i]
              /\ Parses(lines[disk.live][i]) /\ lines[disk.live][i].seq = log[w].next - 1
         /\ \A f \in Segments : \A i \in 1..Len(lines[f]) :
              lines[f][i].seq = log[w].next - 1 => lines[f][i].rec = Msg(w)
<1> DEFINE F == disk.live
           n == Len(lines[F])
<1>1. deletes = 0 /\ Sound /\ Numbers
  BY NoWayBack DEF Sound, Numbered
<1>2. /\ mode[w] = "wrote" /\ chan[w] = "open" /\ log[w].file \in Files /\ log[w].file # 0
      /\ log[w].next \in Nat \ {0}
  <2>1. mode[w] = "wrote"
    BY Zenon DEF Pays, AfterWrite, CutRotation
  <2> QED BY <2>1, WorkerIs, FilesIs DEF Handling
<1>3. /\ F # 0 /\ lines[F] # <<>>
      /\ lines[F][n].seq = log[w].next - 1 /\ lines[F][n].rec = Msg(w)
  BY <1>1, <1>2 DEF Latest, LatestOf
<1>4. /\ lines \in [Files -> Seq(LineType)] /\ disk.live \in Files \cup {0}
      /\ F \in Segments
  <2>1. lines \in [Files -> Seq(LineType)] /\ disk.live \in Files \cup {0}
    BY FilesIs
  <2> QED BY <1>3, <2>1, SegmentsNext
<1>5. n \in 1..n
  BY <1>3, <1>4, TailIs
<1>6. F \in Segments'
  BY <1>3, LastStays, HaltLines DEF Pays
<1>7. lines'[F] = lines[F]
  BY <1>6, TurnsLines, HaltLines DEF Pays
<1>8. Parses(lines[F][n])
  BY <1>1, <1>2, <1>4, <1>5, OpenPlaces
<1>9. ASSUME NEW f \in Segments, NEW i \in 1..Len(lines[f]), lines[f][i].seq = log[w].next - 1
      PROVE  lines[f][i].rec = Msg(w)
  <2>1. f = F /\ i = Len(lines[f])
    BY <1>1, <1>2, <1>3, <1>9, OpenPlaces
  <2> QED BY <1>3, <2>1
<1> QED BY <1>2, <1>3, <1>5, <1>6, <1>7, <1>8, <1>9

\* Nothing but the sweep makes a lost log of one, or clears that with its rows.
LEMMA LostStays == ASSUME [LogNext]_logVars, ~Sweep PROVE lost' = lost
<1>1. CASE UNCHANGED logVars
  BY <1>1 DEF logVars, rowVars
<1>2. CASE LogNext
  <2>1. CASE \E w \in Tasks : AfterWrite(w)
    BY Zenon, <2>1 DEF AfterWrite
  <2>2. CASE ~(\E w \in Tasks : AfterWrite(w))
    BY ZenonT(40), <1>2, <2>2 DEF LogNext, Open, Collect, Send, Tracked, Reopen, Take, TimerSync, Idle,
       DropRx, FinalSync, EndBatch, SyncMsg, CloseMsg, SkipMsg, ensure_log, Copy, Write, Notice,
       DeleteRows, Forget, SendClose, ForgetTimesOut, RemoveDir, Crash, Boot, rowVars
  <2> QED BY <2>1, <2>2
<1> QED BY <1>1, <1>2

\* An eviction takes the oldest, and leaves a later record or clears the rows.
LEMMA SweptRows ==
  ASSUME LogTyped, LogTyped', Dir, Solo, Numbers, Sweep, Sound', ~lost'
  PROVE  \/ \A r \in Recs : rows'[r] = 0
         \/ /\ rows' = rows /\ ~lost
            /\ Segments' \subseteq Segments /\ \A f \in Segments' : lines'[f] = lines[f]
            /\ \A f \in Segments : \A i \in 1..Len(lines[f]) : Parses(lines[f][i]) =>
                 \E g \in Segments' : \E j \in 1..Len(lines[g]) :
                   Parses(lines[g][j]) /\ lines[g][j].seq >= lines[f][i].seq
<1>0. /\ disk \in DirType /\ lines \in [Files -> Seq(LineType)] /\ 0 \notin Files
      /\ \A f \in Files : Len(lines[f]) \in Nat
      /\ Segments \subseteq Files /\ Segments' \subseteq Files
      /\ disk.live \in Files \cup {0}
      /\ \A a \in disk.arch : a \in SegType
  BY FilesIs, SegmentsNext
<1>1. lines' = Kept(lines, disk', log')
  BY DEF Sweep, writerVars
<1>2. \A f \in Segments' : lines'[f] = lines[f]
  BY <1>0, <1>1, KeptNamed, SegmentsNext
<1>3. \A f \in Segments : \A i \in 1..Len(lines[f]) : lines[f][i].seq \in Nat
  <2>1. ASSUME NEW f \in Segments, NEW i \in 1..Len(lines[f]) PROVE lines[f][i].seq \in Nat
    <3>1. lines[f] \in Seq(LineType)
      BY <1>0
    <3>2. lines[f][i] \in LineType
      BY <3>1
    <3> QED BY <3>2 DEF LineType
  <2> QED BY <2>1
<1>4. CASE disk' = disk /\ rows' = rows /\ lost' = lost
  <2>1. Segments' = Segments
    BY <1>4 DEF Segments
  <2> QED BY <1>2, <1>3, <1>4, <2>1
<1>5. ASSUME NEW a \in disk.arch, Unlinked(beside # {} \/ \E x \in disk.arch : x.first < a.first),
             disk' = [disk EXCEPT !.arch = @ \ {a}], rows' = rows,
             lost' = (lost \/ /\ disk.arch = {a}
                              /\ \A f \in {disk.live} \ {0} : head_seq(lines[f]) = 0)
      PROVE  /\ Segments' \subseteq Segments
             /\ \A f \in Segments : \A i \in 1..Len(lines[f]) : Parses(lines[f][i]) =>
                  \E g \in Segments' : \E j \in 1..Len(lines[g]) :
                    Parses(lines[g][j]) /\ lines[g][j].seq >= lines[f][i].seq
  <2>1. disk'.arch = disk.arch \ {a} /\ disk'.live = disk.live
    BY <1>0, <1>5 DEF DirType
  <2>2. Segments' \subseteq Segments /\ \A f \in Segments : f # a.file => f \in Segments'
    BY <1>0, <2>1, SegmentsNext
  <2>3. \A x \in disk.arch : /\ x.first \in Nat /\ x.last \in Nat /\ 1 <= x.first /\ x.first <= x.last
                            /\ Len(lines[x.file]) = x.last - x.first + 1
                            /\ \A k \in 1..Len(lines[x.file]) : lines[x.file][k].seq = x.first + k - 1
    BY <1>0 DEF SegType, Numbers, Chained
  <2>4. \A x \in disk.arch : a.first <= x.first
    <3>1. ~\E x \in disk.arch : x.first < a.first
      BY <1>5 DEF Unlinked, Fault, Sound
    <3> QED BY <2>3, <3>1
  <2>5. \E g \in Segments' : \E j \in 1..Len(lines[g]) : Parses(lines[g][j]) /\ lines[g][j].seq > a.last
    <3>1. CASE \E b \in disk.arch : b # a
      <4>1. PICK b \in disk.arch : b # a
        BY <3>1
      <4>2. a.last < b.first
        <5>1. a.last < b.first \/ b.last < a.first
          BY <4>1 DEF Numbers, Chained
        <5> QED BY <2>3, <2>4, <4>1, <5>1
      <4>3. b.file \in Segments'
        BY <1>0, <2>1, <4>1, SegmentsNext DEF SegType
      <4>4. 1 \in 1..Len(lines[b.file]) /\ lines[b.file][1].seq = b.first
        BY <2>3, <4>1
      <4>5. Parses(lines[b.file][1])
        BY <2>3, <4>1, <4>4 DEF Parses
      <4> QED BY <4>2, <4>3, <4>4, <4>5
    <3>2. CASE disk.arch = {a}
      <4>1. disk.live # 0 /\ head_seq(lines[disk.live]) # 0
        BY <1>5, <3>2
      <4>2. disk.live \in Segments' /\ disk.live \in Segments
        BY <1>0, <2>1, <4>1, SegmentsNext
      <4>3. lines[disk.live] # <<>> /\ lines[disk.live][1].seq # 0
        BY <4>1 DEF head_seq
      <4>4. Len(lines[disk.live]) \in 1..Len(lines[disk.live])
        BY <1>0, <4>2, <4>3, TailIs
      <4>5. 1 \in 1..Len(lines[disk.live])
        BY <4>4
      <4>6. Parses(lines[disk.live][1])
        BY <1>3, <4>2, <4>3, <4>5 DEF Parses
      <4>7. PICK lead \in Nat : Ready(lead)
        BY <4>1 DEF Numbers
      <4>8. lines[disk.live][1].seq = lead + 1
        BY <4>1, <4>5, <4>6, <4>7, NumbersFound
      <4>9. a.last <= lead
        BY <4>7 DEF Ready, Leads
      <4>10. lines[disk.live][1].seq > a.last
        BY <2>3, <4>8, <4>9
      <4> QED BY <4>2, <4>5, <4>6, <4>10
    <3> QED BY <3>1, <3>2
  <2>6. PICK g \in Segments' : \E j \in 1..Len(lines[g]) : Parses(lines[g][j]) /\ lines[g][j].seq > a.last
    BY <2>5
  <2>7. PICK j \in 1..Len(lines[g]) : Parses(lines[g][j]) /\ lines[g][j].seq > a.last
    BY <2>6
  <2>8. ASSUME NEW f \in Segments, NEW i \in 1..Len(lines[f]), Parses(lines[f][i])
        PROVE  \E h \in Segments' : \E k \in 1..Len(lines[h]) :
                  Parses(lines[h][k]) /\ lines[h][k].seq >= lines[f][i].seq
    <3>1. CASE f # a.file
      <4>1. lines[f][i].seq >= lines[f][i].seq
        BY <1>3
      <4> QED BY <2>2, <2>8, <3>1, <4>1
    <3>2. CASE f = a.file
      <4>1. lines[f][i].seq = a.first + i - 1 /\ i \in 1..(a.last - a.first + 1)
        BY <2>3, <3>2
      <4>2. lines[f][i].seq <= a.last
        BY <2>3, <4>1
      <4>3. lines[g][j].seq \in Nat
        BY <1>3, <2>2
      <4>4. lines[g][j].seq >= lines[f][i].seq
        BY <1>3, <2>3, <2>7, <4>2, <4>3
      <4> QED BY <2>7, <4>4
    <3> QED BY <3>1, <3>2
  <2> QED BY <2>2, <2>8
<1> QED BY <1>2, <1>4, <1>5 DEF Sweep

\* Every step keeps the rows, while no power is lost and the cap leaves something.
LEMMA NextRows ==
  ASSUME ~PowerLoss, LogTyped, LogTyped', Dir, Solo, Numbered, Latest, RowsHold, CapLeavesSome',
         [LogNext]_logVars
  PROVE  RowsHold'
<1> SUFFICES ASSUME Sound', ~lost', NEW r \in Recs, rows'[r] # 0
             PROVE  /\ \E f \in Segments' : \E i \in 1..Len(lines'[f]) :
                         Parses(lines'[f][i]) /\ lines'[f][i].seq >= rows'[r]
                    /\ \A f \in Segments' : \A i \in 1..Len(lines'[f]) :
                         lines'[f][i].seq = rows'[r] => lines'[f][i].rec = r
  BY DEF RowsHold
<1>0. deletes = 0 /\ Sound /\ Numbers
  BY NoWayBack DEF Sound, Numbered
<1>1. /\ rows \in [Recs -> Nat] /\ rows'[r] \in Nat
      /\ \A f \in Segments : \A i \in 1..Len(lines[f]) : lines[f][i].seq \in Nat
  <2>1. rows \in [Recs -> Nat] /\ rows' \in [Recs -> Nat]
    BY DEF LogTyped, RowsOK
  <2>2. lines \in [Files -> Seq(LineType)] /\ Segments \subseteq Files
    BY FilesIs, SegmentsNext
  <2>3. ASSUME NEW f \in Segments, NEW i \in 1..Len(lines[f]) PROVE lines[f][i].seq \in Nat
    <3>1. lines[f] \in Seq(LineType)
      BY <2>2
    <3>2. lines[f][i] \in LineType
      BY <3>1
    <3> QED BY <3>2 DEF LineType
  <2> QED BY <2>1, <2>3
<1>2. ~lost /\ rows[r] # 0 =>
        /\ \E f \in Segments : \E i \in 1..Len(lines[f]) :
             Parses(lines[f][i]) /\ lines[f][i].seq >= rows[r]
        /\ \A f \in Segments : \A i \in 1..Len(lines[f]) :
             lines[f][i].seq = rows[r] => lines[f][i].rec = r
  BY <1>0 DEF RowsHold
<1>3. ASSUME NEW f \in Segments', NEW i \in 1..Len(lines'[f]), lines'[f][i].seq = rows'[r]
      PROVE  ~Blank(lines'[f][i])
  BY <1>1, <1>3 DEF Blank, Parses
<1>4. ASSUME NEW w \in Tasks, Pays(w)
      PROVE  /\ \E f \in Segments' : \E i \in 1..Len(lines'[f]) :
                  Parses(lines'[f][i]) /\ lines'[f][i].seq >= rows'[r]
             /\ \A f \in Segments' : \A i \in 1..Len(lines'[f]) :
                  lines'[f][i].seq = rows'[r] => lines'[f][i].rec = r
  <2>1. /\ chan[w] = "open" /\ log[w].file # 0 /\ log[w].next \in Nat \ {0}
        /\ \E i \in 1..Len(lines[disk.live]) :
             /\ disk.live \in Segments' /\ i \in 1..Len(lines'[disk.live])
             /\ lines'[disk.live][i] = lines[disk.live][i]
             /\ Parses(lines[disk.live][i]) /\ lines[disk.live][i].seq = log[w].next - 1
        /\ \A f \in Segments : \A i \in 1..Len(lines[f]) :
             lines[f][i].seq = log[w].next - 1 => lines[f][i].rec = Msg(w)
    BY <1>4, LastRecord
  <2>2. ~lost /\ (rows'[r] = rows[r] \/ (r = Msg(w) /\ rows'[r] = log[w].next - 1))
    <3>1. rows \in [Recs -> Nat]
      BY DEF LogTyped, RowsOK
    <3>2. rows' = Indexed(w) /\ lost' = lost
      BY Zenon, <1>4 DEF Pays, AfterWrite, CutRotation, Crash
    <3>3. Indexed(w) = rows \/ (Msg(w) \in Recs /\ Indexed(w) = [rows EXCEPT ![Msg(w)] = log[w].next - 1])
      BY Zenon DEF Indexed
    <3> QED BY <3>1, <3>2, <3>3
  <2>3. rows'[r] <= log[w].next - 1
    <3>1. ASSUME rows'[r] = rows[r] PROVE rows[r] <= log[w].next - 1
      <4>1. PICK f \in Segments : \E i \in 1..Len(lines[f]) :
               Parses(lines[f][i]) /\ lines[f][i].seq >= rows[r]
        BY <1>2, <2>2, <3>1
      <4>2. PICK i \in 1..Len(lines[f]) : Parses(lines[f][i]) /\ lines[f][i].seq >= rows[r]
        BY <4>1
      <4>3. lines[f][i].seq < log[w].next
        BY <1>0, <2>1, OpenPlaces
      <4> QED BY <1>1, <2>1, <4>2, <4>3
    <3> QED BY <2>1, <2>2, <3>1
  <2>4. ASSUME NEW f \in Segments', NEW i \in 1..Len(lines'[f]), lines'[f][i].seq = rows'[r]
        PROVE  lines'[f][i].rec = r
    <3>1. Same(f, i)
      BY <1>3, <1>4, <2>4, TurnsLines, HaltLines DEF FewerLines, Pays
    <3>2. lines[f][i].seq = rows'[r] => lines[f][i].rec = r
      BY <1>2, <2>1, <2>2, <3>1 DEF Same
    <3> QED BY <2>4, <3>1, <3>2 DEF Same
  <2> QED BY <1>1, <2>1, <2>3, <2>4
<1>5. ASSUME ~Sweep, \A w \in Tasks : ~Pays(w)
      PROVE  /\ \E f \in Segments' : \E i \in 1..Len(lines'[f]) :
                  Parses(lines'[f][i]) /\ lines'[f][i].seq >= rows'[r]
             /\ \A f \in Segments' : \A i \in 1..Len(lines'[f]) :
                  lines'[f][i].seq = rows'[r] => lines'[f][i].rec = r
  <2>1. rows'[r] = rows[r] /\ rows[r] # 0 /\ ~lost
    BY <1>5, RowsFrom, LostStays
  <2>2. PICK f \in Segments : \E i \in 1..Len(lines[f]) :
           Parses(lines[f][i]) /\ lines[f][i].seq >= rows[r]
    BY <1>2, <2>1
  <2>3. PICK i \in 1..Len(lines[f]) : Parses(lines[f][i]) /\ lines[f][i].seq >= rows[r]
    BY <2>2
  <2>4. f \in Segments' /\ i \in 1..Len(lines'[f]) /\ lines'[f][i] = lines[f][i]
    BY <1>0, <1>5, <2>3, LinesStay DEF Pays, Crash
  <2>5. ASSUME NEW g \in Segments', NEW j \in 1..Len(lines'[g]), lines'[g][j].seq = rows'[r]
        PROVE  lines'[g][j].rec = r
    <3>1. ~Blank(lines'[g][j])
      BY <1>3, <2>5
    <3>2. CASE Same(g, j)
      BY <1>2, <2>1, <2>5, <3>2 DEF Same
    <3>3. ASSUME NEW w \in Tasks, NEW m \in Words, NEW ref \in SUBSET Images, Added(w, m, ref),
                 ~Same(g, j)
          PROVE  FALSE
      <4>1. chan[w] = "open" /\ log[w].file \in Files /\ log[w].file # 0 /\ log[w].next \in Nat
        BY <3>3, WritesIs, FilesIs DEF Added
      <4>2. lines'[g][j] = Line(log[w].next, m, ref)
        BY <3>1, <3>3, <4>1, GrownLines DEF Added
      <4>3. lines'[g][j].seq = log[w].next
        BY <4>1, <4>2, LineIs
      <4>4. lines[f][i].seq < log[w].next
        BY <1>0, <4>1, OpenPlaces
      <4> QED BY <1>1, <2>1, <2>3, <2>5, <4>1, <4>3, <4>4
    <3> QED BY <3>1, <3>2, <3>3, LinesFrom DEF FewerLines
  <2> QED BY <2>1, <2>3, <2>4, <2>5
<1>6. CASE Sweep
  <2> DEFINE Later(f, i) == \E g \in Segments' : \E j \in 1..Len(lines[g]) :
                              Parses(lines[g][j]) /\ lines[g][j].seq >= lines[f][i].seq
  <2>1. /\ rows' = rows /\ ~lost
        /\ Segments' \subseteq Segments /\ \A f \in Segments' : lines'[f] = lines[f]
        /\ \A f \in Segments : \A i \in 1..Len(lines[f]) : Parses(lines[f][i]) => Later(f, i)
    <3>1. ~\A q \in Recs : rows'[q] = 0
      OBVIOUS
    <3> HIDE DEF Later
    <3> QED BY <1>0, <1>6, <3>1, SweptRows DEF Later
  <2>2. rows'[r] = rows[r] /\ rows[r] # 0
    BY <2>1
  <2>3. PICK f \in Segments : \E i \in 1..Len(lines[f]) :
           Parses(lines[f][i]) /\ lines[f][i].seq >= rows[r]
    BY <1>2, <2>1, <2>2
  <2>4. PICK i \in 1..Len(lines[f]) : Parses(lines[f][i]) /\ lines[f][i].seq >= rows[r]
    BY <2>3
  <2>5. PICK g \in Segments' : \E j \in 1..Len(lines[g]) :
           Parses(lines[g][j]) /\ lines[g][j].seq >= lines[f][i].seq
    BY <2>1, <2>4
  <2>6. PICK j \in 1..Len(lines[g]) : Parses(lines[g][j]) /\ lines[g][j].seq >= lines[f][i].seq
    BY <2>5
  <2>7. lines[g][j].seq >= rows[r]
    <3>1. lines[g][j].seq \in Nat /\ lines[f][i].seq \in Nat /\ rows[r] \in Nat
      BY <1>1, <2>1, <2>6
    <3> QED BY <2>4, <2>6, <3>1
  <2>8. g \in Segments' /\ j \in 1..Len(lines'[g]) /\ Parses(lines'[g][j]) /\ lines'[g][j].seq >= rows'[r]
    BY <2>1, <2>2, <2>6, <2>7
  <2>9. ASSUME NEW h \in Segments', NEW k \in 1..Len(lines'[h]), lines'[h][k].seq = rows'[r]
        PROVE  lines'[h][k].rec = r
    BY <1>2, <2>1, <2>2, <2>9
  <2> QED BY <2>8, <2>9
<1> QED BY <1>4, <1>5, <1>6

\* What the run checks of the rows follows.
LEMMA RowsMean == LogTyped /\ RowsHold => RowNamesItsRecord
<1> SUFFICES ASSUME LogTyped, RowsHold, Sound, ~lost
             PROVE  /\ \A r \in Recs : \A l \in OnDisk : rows[r] # 0 /\ l.seq = rows[r] => l.rec = r
                    /\ disk.live = 0 /\ disk.arch = {} => \A r \in Recs : rows[r] = 0
  BY DEF RowNamesItsRecord, Sound
<1>1. ASSUME NEW r \in Recs, NEW l \in OnDisk, rows[r] # 0, l.seq = rows[r]
      PROVE  l.rec = r
  <2>1. PICK f \in Segments : \E i \in 1..Len(lines[f]) : l = lines[f][i]
    BY PlacesAre
  <2> QED BY <1>1, <2>1 DEF RowsHold
<1>2. disk.live = 0 /\ disk.arch = {} => Segments = {}
  BY DEF Segments
<1> QED BY <1>1, <1>2 DEF RowsHold

\* Where no power is lost and the cap leaves something of the log, the index of a conversation
\* nobody deleted names records, not numbers, through the end of the process at any point of a
\* rotation and through the boot sweep: a row leads to the record of its very call or, once that
\* is trimmed or evicted, to none, and when the last segment is gone no row is left to name a
\* number that will be given again, unless the sweep found the last record in an archived segment.
THEOREM RowNamesItsRecordAlways ==
  ASSUME ~PowerLoss
  PROVE  LogSpec /\ []CapLeavesSome => []RowNamesItsRecord
<1>1. LogInit => ImageLog /\ RowsHold
  <2>1. LogInit => RowsHold
    BY DEF LogInit, RowsHold, NoDir
  <2> QED BY <2>1, InitTyped, InitDir, InitSolo, InitNumbered, InitImages DEF ImageLog
<1>2. ImageLog /\ RowsHold /\ CapLeavesSome' /\ [LogNext]_logVars => (ImageLog /\ RowsHold)'
  BY NextImages, NextRows DEF ImageLog
<1>3. ImageLog /\ RowsHold => RowNamesItsRecord
  BY RowsMean DEF ImageLog
<1> QED BY <1>1, <1>2, <1>3, PTL DEF LogSpec

----------------------------------------------------------------------------
(* The tool gate: its cards. *)

USE GateAssumption

InWait(c) == at[c] \in Listening \cup Deaf

\* A card is published once its call begins to wait, and not before, and a
\* card that can still be answered was not answered.
CardPlaces ==
    \A c \in Calls : /\ InWait(c) => c \in raised
                     /\ at[c] \in {"idle", "preview"} => c \notin raised
                     /\ c \in pending \/ c \notin raised => reply[c] = NoAnswer

CardInv == TypeOK /\ CardPlaces /\ NoGhostCard /\ AnnouncedOnce

\* A yes that was read by the wait it answers.
Yes(d) == announced[d] = <<"approved">> /\ reply[d].approved

\* What the cache holds was put there by a person's yes of that scope, and
\* never for a tool whose approval is good for one call.
CacheFounded ==
    /\ \A t \in toolOk : /\ t \notin PerCall
                         /\ \E d \in Calls : Yes(d) /\ Tool(d) = t /\ reply[d].scope = "EntireTool"
    /\ \A e \in argsOk : /\ e[1] \notin PerCall
                         /\ \E d \in Calls : Yes(d) /\ Tool(d) = e[1] /\ call[d].args = e[2]

IInv == CardInv /\ CacheFounded /\ NeverWithoutYes

-----------------------------------------------------------------------------
(* Types. *)

\* A future's place changes within its type.
LEMMA PcType ==
  ASSUME TypeOK, NEW c \in Calls, NEW p \in Stages, at' = [at EXCEPT ![c] = p]
  PROVE  at' \in [Calls -> Stages]
BY DEF TypeOK

\* Dispatch and Finish keep the types of at and ran.
LEMMA EndsType ==
  ASSUME TypeOK, NEW c \in Calls, Dispatch(c) \/ Finish(c)
  PROVE  at' \in [Calls -> Stages] /\ ran' \subseteq Calls
BY DEF TypeOK, Dispatch, Finish, Stages, Suspended

\* The breaker's check keeps the types of what it touches.
LEMMA CheckType ==
  ASSUME TypeOK, NEW c \in Calls, Check(c)
  PROVE  /\ at' \in [Calls -> Stages] /\ ran' \subseteq Calls
         /\ breaker' \in [Tools -> {"closed", "open", "ripe", "half"}]
         /\ fails' \in [Tools -> Nat] /\ probe' \subseteq Calls
<1>1. Dispatch(c) \/ Finish(c)
  BY DEF Check
<1>2. Tool(c) \in Tools
  BY DEF TypeOK, Invocations, Tool
<1> QED BY <1>1, <1>2, EndsType DEF TypeOK, Check, circuit

\* One more failure keeps the breaker's types.
LEMMA FailureType ==
  ASSUME TypeOK, NEW t \in Tools, RecordFailure(t)
  PROVE  /\ breaker' \in [Tools -> {"closed", "open", "ripe", "half"}]
         /\ fails' \in [Tools -> Nat]
BY DEF TypeOK, RecordFailure

\* Recording an approval keeps the cache's types.
LEMMA RecordType ==
  ASSUME TypeOK, NEW t \in Tools, NEW a \in Args, NEW s, Record(t, a, s)
  PROVE  toolOk' \subseteq Tools /\ argsOk' \subseteq Tools \X Args
<1>1. <<t, a>> \in Tools \X Args
  OBVIOUS
<1>2. /\ toolOk' = toolOk \/ toolOk' = toolOk \cup {t}
      /\ argsOk' = argsOk \/ argsOk' = argsOk \cup {<<t, a>>}
  BY DEF Record
<1>3. toolOk' \subseteq Tools
  BY <1>2 DEF TypeOK
<1>4. argsOk' \subseteq Tools \X Args
  <2> DEFINE pair == <<t, a>>
             all == Tools \X Args
  <2>1. argsOk \subseteq all /\ pair \in all
    BY <1>1 DEF TypeOK
  <2>2. argsOk' = argsOk \/ argsOk' = argsOk \cup {pair}
    BY <1>2
  <2> HIDE DEF pair, all
  <2>3. argsOk' \subseteq all
    BY <2>1, <2>2
  <2> QED BY <2>3 DEF all
<1> QED BY <1>3, <1>4

\* An announcement is one of the four outcomes, put behind what was there.
LEMMA AnnounceType ==
  ASSUME TypeOK, NEW c \in Calls, NEW o \in Outcomes, Announce(c, o)
  PROVE  announced' \in [Calls -> Seq(Outcomes)]
BY DEF TypeOK, Announce

\* Every step keeps the types.
LEMMA TypeStep == TypeOK /\ [Next]_vars => TypeOK'
<1> SUFFICES ASSUME TypeOK, [Next]_vars PROVE TypeOK'
  OBVIOUS
<1>0. \A c \in Calls : Tool(c) \in Tools /\ call[c].args \in Args
  BY DEF TypeOK, Invocations, Tool
<1>1. ASSUME NEW c \in Calls, Execute(c) PROVE TypeOK'
  <2>1. \/ Finish(c) /\ UNCHANGED circuit
        \/ Check(c)
        \/ at' = [at EXCEPT ![c] = "preview"] /\ UNCHANGED <<ran, circuit>>
    BY <1>1 DEF Execute
  <2>2. UNCHANGED <<call, policy, cards, cache>>
    BY <1>1 DEF Execute
  <2>3. "preview" \in Stages
    BY DEF Stages, Suspended
  <2> QED BY <2>1, <2>2, <2>3, EndsType, CheckType, PcType DEF TypeOK, cards, cache, circuit
<1>2. ASSUME NEW c \in Calls, Preview(c) PROVE TypeOK'
  <2>1. "waiting" \in Stages
    BY DEF Stages, Suspended
  <2> QED BY <1>2, <2>1, EndsType, PcType DEF TypeOK, Preview, cache, circuit
<1>3. ASSUME NEW c \in Calls, AnswerArrives(c) PROVE TypeOK'
  <2>1. CASE /\ reply[c].approved /\ Announce(c, "approved") /\ Check(c)
             /\ IF Tool(c) \in PerCall THEN UNCHANGED cache
                ELSE Record(Tool(c), call[c].args, reply[c].scope)
    <3>1. toolOk' \subseteq Tools /\ argsOk' \subseteq Tools \X Args
      <4>1. CASE Tool(c) \in PerCall
        BY <2>1, <4>1 DEF cache, TypeOK
      <4>2. CASE Tool(c) \notin PerCall
        BY <2>1, <4>2, <1>0, RecordType
      <4> QED BY <4>1, <4>2
    <3>2. announced' \in [Calls -> Seq(Outcomes)]
      BY <2>1, AnnounceType DEF Outcomes
    <3> QED BY <2>1, <1>3, <3>1, <3>2, CheckType DEF TypeOK, AnswerArrives
  <2>2. CASE /\ ~reply[c].approved /\ Announce(c, "denied")
             /\ at' = [at EXCEPT ![c] = "denying"]
             /\ UNCHANGED <<ran, cache, circuit>>
    <3>1. announced' \in [Calls -> Seq(Outcomes)]
      BY <2>2, AnnounceType DEF Outcomes
    <3>2. "denying" \in Stages
      BY DEF Stages, Suspended
    <3> QED BY <2>2, <1>3, <3>1, <3>2, PcType DEF TypeOK, AnswerArrives, cache, circuit
  <2> QED BY <1>3, <2>1, <2>2 DEF AnswerArrives
<1>4. ASSUME NEW c \in Calls, DenialHook(c) PROVE TypeOK'
  BY <1>4, EndsType DEF TypeOK, DenialHook, cards, cache, circuit
<1>5. ASSUME NEW c \in Calls, TimerPoll(c) \/ TimerFires(c) PROVE TypeOK'
  <2>1. "elapsing" \in Stages /\ "expired" \in Stages
    BY DEF Stages, Listening, Deaf
  <2> QED BY <1>5, <2>1, PcType DEF TypeOK, TimerPoll, TimerFires, cards, cache, circuit
<1>6. ASSUME NEW c \in Calls, Expired(c) \/ Withdraw(c) PROVE TypeOK'
  <2>1. announced' \in [Calls -> Seq(Outcomes)]
    BY <1>6, AnnounceType DEF Expired, Withdraw, Outcomes
  <2> QED BY <1>6, <2>1, EndsType DEF TypeOK, Expired, Withdraw, cache, circuit
<1>7. ASSUME NEW c \in Calls, Drop(c) PROVE TypeOK'
  <2>1. "dropping" \in Stages
    BY DEF Stages, Deaf
  <2> QED BY <1>7, <2>1, PcType, EndsType DEF TypeOK, Drop, cards, cache, circuit
<1>8. ASSUME NEW c \in Calls, NEW how \in {"ok", "permanent", "transient"}, Return(c, how)
      PROVE  TypeOK'
  <2>1. /\ breaker' \in [Tools -> {"closed", "open", "ripe", "half"}]
        /\ fails' \in [Tools -> Nat]
    <3>1. CASE how = "ok"
      <4>1. RecordSuccess(Tool(c))
        BY <1>8, <3>1 DEF Return
      <4> QED BY <1>0, <4>1 DEF TypeOK, RecordSuccess
    <3>2. CASE how = "transient"
      BY <1>8, <1>0, <3>2, FailureType DEF Return
    <3>3. CASE how = "permanent"
      BY <1>8, <3>3 DEF TypeOK, Return
    <3> QED BY <3>1, <3>2, <3>3
  <2> QED BY <1>8, <2>1, EndsType DEF TypeOK, Return, cards, cache
<1>9. ASSUME NEW c \in Calls, CutOff(c) PROVE TypeOK'
  BY <1>9, <1>0, FailureType, EndsType DEF TypeOK, CutOff, cards, cache
<1>10. ASSUME NEW c \in Calls, NEW answer \in Answers, Respond(c, answer) PROVE TypeOK'
  BY <1>10 DEF TypeOK, Respond, cache, circuit
<1>11. ASSUME NEW t \in Tools, Elapse(t) PROVE TypeOK'
  BY <1>11 DEF TypeOK, Elapse, cards, cache
<1>12. CASE UNCHANGED vars
  BY <1>12 DEF TypeOK, vars, cards, cache, circuit
<1> QED
  BY <1>1, <1>2, <1>3, <1>4, <1>5, <1>6, <1>7, <1>8, <1>9, <1>10, <1>11, <1>12
  DEF Next, Step, Settled

\* The first state has its types.
LEMMA TypeInit == Init => TypeOK
<1> SUFFICES ASSUME Init PROVE TypeOK
  OBVIOUS
<1>1. PICK m \in Mixes : call = m.call /\ policy = m.policy
  BY DEF Init
<1>2. call \in [Calls -> Invocations] /\ policy \in Policies
  BY <1>1
<1> QED BY <1>2 DEF Init, TypeOK, Stages, Outcomes

-----------------------------------------------------------------------------
(* Cards. *)

\* A step that neither enters nor leaves the wait, and touches no card, keeps
\* the cards' invariant.
LEMMA Elsewhere ==
  ASSUME CardInv, TypeOK', NEW c \in Calls, NEW p, at' = [at EXCEPT ![c] = p],
         UNCHANGED cards, p \in Listening \cup Deaf <=> InWait(c),
         p \in {"idle", "preview"} => at[c] = "idle"
  PROVE  CardInv'
<1>1. at'[c] = p /\ \A d \in Calls \ {c} : at'[d] = at[d]
  BY DEF CardInv, TypeOK
<1>2. \A d \in Calls : InWait(d)' <=> InWait(d)
  BY <1>1 DEF InWait
<1>3. CardPlaces'
  BY <1>1, <1>2 DEF CardInv, CardPlaces, cards
<1>4. NoGhostCard'
  BY <1>2 DEF CardInv, TypeOK, NoGhostCard, InWait, cards
<1>5. AnnouncedOnce'
  BY <1>2 DEF CardInv, AnnouncedOnce, InWait, cards
<1> QED BY <1>3, <1>4, <1>5 DEF CardInv

\* A wait that ends takes its card out of the map and announces one outcome.
LEMMA Leaves ==
  ASSUME CardInv, TypeOK', NEW c \in Calls, NEW p, NEW o \in Outcomes,
         at' = [at EXCEPT ![c] = p], p \notin Listening \cup Deaf,
         p \notin {"idle", "preview"}, InWait(c), Announce(c, o),
         pending' = pending \ {c}, UNCHANGED <<reply, raised>>
  PROVE  CardInv' /\ announced'[c] = <<o>>
<1>1. at'[c] = p /\ \A d \in Calls \ {c} : at'[d] = at[d]
  BY DEF CardInv, TypeOK
<1>2. ~InWait(c)' /\ \A d \in Calls \ {c} : InWait(d)' <=> InWait(d)
  BY <1>1 DEF InWait
<1>3. c \in raised /\ Len(announced[c]) = 0
  BY DEF CardInv, CardPlaces, AnnouncedOnce, InWait
<1>4. announced[c] \in Seq(Outcomes)
  BY DEF CardInv, TypeOK
<1>5. announced[c] = <<>>
  BY <1>3, <1>4
<1>6. announced'[c] = <<o>> /\ \A d \in Calls \ {c} : announced'[d] = announced[d]
  BY <1>5 DEF Announce, CardInv, TypeOK
<1>7. CardPlaces'
  BY <1>1, <1>2, <1>3 DEF CardInv, CardPlaces
<1>8. NoGhostCard'
  BY <1>2 DEF CardInv, TypeOK, NoGhostCard, InWait
<1>9. AnnouncedOnce'
  <2> SUFFICES ASSUME NEW d \in Calls
               PROVE  Len(announced'[d]) =
                        IF d \in raised' /\ at'[d] \notin Listening \cup Deaf THEN 1 ELSE 0
    BY DEF AnnouncedOnce
  <2>1. CASE d = c
    <3>1. Len(<<o>>) = 1
      OBVIOUS
    <3> QED BY <2>1, <3>1, <1>1, <1>3, <1>6
  <2>2. CASE d # c
    BY <2>2, <1>1, <1>6 DEF CardInv, AnnouncedOnce
  <2> QED BY <2>1, <2>2
<1> QED BY <1>6, <1>7, <1>8, <1>9 DEF CardInv

\* The breaker's check moves the call to its backend or to its end.
LEMMA CheckMoves ==
  ASSUME NEW c \in Calls, Check(c)
  PROVE  \/ at' = [at EXCEPT ![c] = "running"] /\ ran' = ran \cup {c}
         \/ at' = [at EXCEPT ![c] = "done"] /\ ran' = ran
BY DEF Check, Dispatch, Finish

\* The cards' invariant is inductive.
LEMMA CardStep == CardInv /\ [Next]_vars => CardInv'
<1> SUFFICES ASSUME CardInv, [Next]_vars PROVE CardInv'
  OBVIOUS
<1>0. TypeOK'
  BY TypeStep DEF CardInv
<1> USE DEF InWait, Listening, Deaf
<1>1. ASSUME NEW c \in Calls, Execute(c) PROVE CardInv'
  <2>1. PICK p \in {"done", "running", "preview"} : at' = [at EXCEPT ![c] = p]
    BY <1>1, CheckMoves DEF Execute, Finish
  <2> QED BY <1>0, <1>1, <2>1, Elsewhere DEF Execute
<1>2. ASSUME NEW c \in Calls, Preview(c) PROVE CardInv'
  <2>1. CASE Finish(c) /\ UNCHANGED <<pending, raised>>
    BY <1>0, <1>2, <2>1, Elsewhere DEF Preview, Finish, cards
  <2>2. CASE /\ pending' = pending \cup {c} /\ raised' = raised \cup {c}
             /\ at' = [at EXCEPT ![c] = "waiting"]
    <3>1. at[c] = "preview" /\ UNCHANGED <<reply, announced>>
      BY <1>2 DEF Preview
    <3>2. c \notin raised /\ reply[c] = NoAnswer
      BY <3>1 DEF CardInv, CardPlaces
    <3>3. at'[c] = "waiting" /\ \A d \in Calls \ {c} : at'[d] = at[d]
      BY <2>2 DEF CardInv, TypeOK
    <3>4. CardPlaces'
      BY <2>2, <3>1, <3>2, <3>3 DEF CardInv, CardPlaces
    <3>5. NoGhostCard'
      BY <2>2, <3>3 DEF CardInv, NoGhostCard, TypeOK
    <3>6. AnnouncedOnce'
      BY <2>2, <3>1, <3>2, <3>3 DEF CardInv, AnnouncedOnce
    <3> QED BY <1>0, <3>4, <3>5, <3>6 DEF CardInv
  <2> QED BY <1>2, <2>1, <2>2 DEF Preview
<1>3. ASSUME NEW c \in Calls, AnswerArrives(c) PROVE CardInv'
  <2>1. PICK p \in {"done", "running", "denying"}, o \in Outcomes :
           at' = [at EXCEPT ![c] = p] /\ Announce(c, o)
    BY <1>3, CheckMoves DEF AnswerArrives, Outcomes
  <2>2. at[c] = "waiting" /\ reply[c] # NoAnswer /\ UNCHANGED <<pending, reply, raised>>
    BY <1>3 DEF AnswerArrives
  <2>3. pending' = pending \ {c}
    BY <2>2 DEF CardInv, CardPlaces
  <2> QED BY <1>0, <2>1, <2>2, <2>3, Leaves
<1>4. ASSUME NEW c \in Calls, DenialHook(c) PROVE CardInv'
  BY <1>0, <1>4, Elsewhere DEF DenialHook, Finish
<1>5. ASSUME NEW c \in Calls, TimerPoll(c) PROVE CardInv'
  BY <1>0, <1>5, Elsewhere DEF TimerPoll
<1>6. ASSUME NEW c \in Calls, TimerFires(c) PROVE CardInv'
  BY <1>0, <1>6, Elsewhere DEF TimerFires
<1>7. ASSUME NEW c \in Calls, Expired(c) PROVE CardInv'
  <2>1. "timed_out" \in Outcomes
    BY DEF Outcomes
  <2>2. /\ at[c] = "expired" /\ at' = [at EXCEPT ![c] = "done"]
        /\ pending' = pending \ {c} /\ UNCHANGED <<reply, raised>>
        /\ Announce(c, "timed_out")
    BY <1>7 DEF Expired, Finish
  <2>3. InWait(c)
    BY <2>2
  <2>4. "done" \notin Listening \cup Deaf /\ "done" \notin {"idle", "preview"}
    OBVIOUS
  <2> HIDE DEF InWait, Listening, Deaf
  <2> QED BY <1>0, <2>1, <2>2, <2>3, <2>4, Leaves
<1>8. ASSUME NEW c \in Calls, Withdraw(c) PROVE CardInv'
  <2>1. "cancelled" \in Outcomes
    BY DEF Outcomes
  <2>2. /\ at[c] = "dropping" /\ at' = [at EXCEPT ![c] = "done"]
        /\ pending' = pending \ {c} /\ UNCHANGED <<reply, raised>>
        /\ Announce(c, "cancelled")
    BY <1>8 DEF Withdraw, Finish
  <2>3. InWait(c)
    BY <2>2
  <2>4. "done" \notin Listening \cup Deaf /\ "done" \notin {"idle", "preview"}
    OBVIOUS
  <2> HIDE DEF InWait, Listening, Deaf
  <2> QED BY <1>0, <2>1, <2>2, <2>3, <2>4, Leaves
<1>9. ASSUME NEW c \in Calls, Drop(c) PROVE CardInv'
  <2>1. CASE at[c] = "waiting"
    BY <1>0, <1>9, <2>1, Elsewhere DEF Drop
  <2>2. CASE at[c] \in {"preview", "denying", "running"}
    BY <1>0, <1>9, <2>2, Elsewhere DEF Drop, Finish
  <2> QED BY <1>9, <2>1, <2>2 DEF Drop, Suspended
<1>10. ASSUME NEW c \in Calls, NEW how, Return(c, how) PROVE CardInv'
  BY <1>0, <1>10, Elsewhere DEF Return, Finish
<1>11. ASSUME NEW c \in Calls, CutOff(c) PROVE CardInv'
  BY <1>0, <1>11, Elsewhere DEF CutOff, Finish
<1>12. ASSUME NEW c \in Calls, NEW answer \in Answers, Respond(c, answer) PROVE CardInv'
  <2>1. c \in pending /\ pending' = pending \ {c} /\ UNCHANGED <<at, raised, announced>>
    BY <1>12 DEF Respond
  <2>2. \A d \in Calls \ {c} : reply'[d] = reply[d]
    BY <1>12 DEF Respond, CardInv, TypeOK
  <2>3. c \in raised
    BY <2>1 DEF CardInv, NoGhostCard, CardPlaces
  <2>4. CardPlaces'
    BY <2>1, <2>2, <2>3 DEF CardInv, CardPlaces
  <2> QED BY <1>0, <2>1, <2>4 DEF CardInv, NoGhostCard, AnnouncedOnce
<1>13. CASE UNCHANGED <<at, cards>>
  BY <1>0, <1>13 DEF CardInv, CardPlaces, NoGhostCard, AnnouncedOnce, cards
<1> QED
  BY <1>1, <1>2, <1>3, <1>4, <1>5, <1>6, <1>7, <1>8, <1>9, <1>10, <1>11, <1>12, <1>13
  DEF Next, Step, Settled, Elapse, vars

-----------------------------------------------------------------------------
(* Yeses. *)

\* What was said on a card is not touched once its wait is over.
LEMMA YesKept ==
  ASSUME CardInv, [Next]_vars, NEW d \in Calls, ~InWait(d)
  PROVE  announced'[d] = announced[d] /\ reply'[d] = reply[d]
<1> USE DEF InWait, Listening, Deaf
<1>0. announced \in [Calls -> Seq(Outcomes)] /\ reply \in [Calls -> Answers \cup {NoAnswer}]
  BY DEF CardInv, TypeOK
<1>1. ASSUME NEW c \in Calls, AnswerArrives(c) \/ Expired(c) \/ Withdraw(c)
      PROVE  announced'[d] = announced[d] /\ reply'[d] = reply[d]
  <2>1. c # d /\ UNCHANGED reply
    BY <1>1 DEF AnswerArrives, Expired, Withdraw
  <2>2. \E o : Announce(c, o)
    BY <1>1 DEF AnswerArrives, Expired, Withdraw
  <2> QED BY <1>0, <2>1, <2>2 DEF Announce
<1>2. ASSUME NEW c \in Calls, NEW answer \in Answers, Respond(c, answer)
      PROVE  announced'[d] = announced[d] /\ reply'[d] = reply[d]
  <2>1. c # d
    BY <1>2 DEF Respond, CardInv, NoGhostCard
  <2> QED BY <1>0, <1>2, <2>1 DEF Respond
<1>3. CASE UNCHANGED <<reply, announced>>
  BY <1>3
<1>4. ASSUME NEW c \in Calls,
             Execute(c) \/ Preview(c) \/ DenialHook(c) \/ TimerPoll(c) \/ TimerFires(c)
               \/ CutOff(c) \/ Drop(c)
      PROVE  UNCHANGED <<reply, announced>>
  BY <1>4 DEF Execute, Preview, DenialHook, TimerPoll, TimerFires, CutOff, Drop, cards
<1>5. ASSUME NEW c \in Calls, NEW how, Return(c, how) PROVE UNCHANGED <<reply, announced>>
  BY <1>5 DEF Return, cards
<1> QED BY <1>1, <1>2, <1>3, <1>4, <1>5 DEF Next, Step, Settled, Elapse, vars, cards

\* No step changes what the calls and the policy are.
LEMMA Fixed == [Next]_vars => UNCHANGED <<call, policy>>
<1> SUFFICES ASSUME [Next]_vars PROVE UNCHANGED <<call, policy>>
  OBVIOUS
<1>1. ASSUME NEW c \in Calls, Execute(c) \/ Step(c) \/ Drop(c) PROVE UNCHANGED <<call, policy>>
  BY <1>1 DEF Execute, Step, Drop, Preview, AnswerArrives, DenialHook, TimerPoll, TimerFires,
              Expired, Withdraw, CutOff
<1>2. ASSUME NEW c \in Calls, NEW how, Return(c, how) PROVE UNCHANGED <<call, policy>>
  BY <1>2 DEF Return
<1>3. ASSUME NEW c \in Calls, NEW answer, Respond(c, answer) PROVE UNCHANGED <<call, policy>>
  BY <1>3 DEF Respond
<1> QED BY <1>1, <1>2, <1>3 DEF Next, Settled, Elapse, vars

\* A yes stays what it was.
LEMMA YesStands ==
  ASSUME CardInv, [Next]_vars, NEW d \in Calls, Yes(d)
  PROVE  Yes(d)' /\ reply'[d] = reply[d] /\ announced'[d] = announced[d]
<1>1. Len(announced[d]) = 1
  BY DEF Yes
<1>2. ~InWait(d)
  <2>1. Len(announced[d]) = IF d \in raised /\ ~InWait(d) THEN 1 ELSE 0
    BY DEF CardInv, AnnouncedOnce, InWait
  <2> QED BY <1>1, <2>1
<1> QED BY <1>2, YesKept DEF Yes

\* A yes that covers a call goes on covering it.
LEMMA CoverStands ==
  ASSUME CardInv, [Next]_vars, NEW d \in Calls, NEW c \in Calls, Covers(d, c)
  PROVE  Covers(d, c)'
<1>1. Yes(d)
  BY DEF Yes, Covers
<1> QED BY <1>1, YesStands, Fixed DEF Covers, Tool

\* The wait that hears a yes announces it.
LEMMA OwnYes ==
  ASSUME CardInv, NEW c \in Calls, AnswerArrives(c), reply[c].approved
  PROVE  Yes(c)' /\ reply' = reply
<1>1. Announce(c, "approved") /\ reply' = reply /\ at[c] = "waiting"
  BY DEF AnswerArrives
<1>2. announced[c] \in Seq(Outcomes) /\ Len(announced[c]) = 0
  BY <1>1 DEF CardInv, TypeOK, AnnouncedOnce, Listening
<1>3. announced[c] = <<>>
  BY <1>2
<1>4. announced'[c] = <<"approved">>
  BY <1>1, <1>3 DEF Announce, CardInv, TypeOK
<1> QED BY <1>1, <1>4 DEF Yes

\* The cache changes only by recording a yes for a tool that is not per-call.
LEMMA CacheMoves ==
  ASSUME [Next]_vars, ~UNCHANGED cache
  PROVE  \E c \in Calls : /\ AnswerArrives(c) /\ reply[c].approved /\ Tool(c) \notin PerCall
                          /\ Record(Tool(c), call[c].args, reply[c].scope)
<1>1. ASSUME NEW c \in Calls, Execute(c) \/ Preview(c) \/ DenialHook(c) \/ TimerPoll(c)
               \/ TimerFires(c) \/ Expired(c) \/ Withdraw(c) \/ CutOff(c) \/ Drop(c)
      PROVE  UNCHANGED cache
  BY <1>1 DEF Execute, Preview, DenialHook, TimerPoll, TimerFires, Expired, Withdraw, CutOff, Drop
<1>2. ASSUME NEW c \in Calls, NEW how, Return(c, how) PROVE UNCHANGED cache
  BY <1>2 DEF Return
<1>3. ASSUME NEW c \in Calls, NEW answer, Respond(c, answer) PROVE UNCHANGED cache
  BY <1>3 DEF Respond
<1>4. ASSUME NEW t \in Tools, Elapse(t) PROVE UNCHANGED cache
  BY <1>4 DEF Elapse
<1>5. UNCHANGED vars => UNCHANGED cache
  BY DEF vars
<1>6. PICK c \in Calls : AnswerArrives(c)
  BY <1>1, <1>2, <1>3, <1>4, <1>5 DEF Next, Step, Settled
<1> QED BY <1>6 DEF AnswerArrives

\* What the cache holds stays founded.
LEMMA FoundedStep == CardInv /\ CacheFounded /\ [Next]_vars => CacheFounded'
<1> SUFFICES ASSUME CardInv, CacheFounded, [Next]_vars PROVE CacheFounded'
  OBVIOUS
<1>1. UNCHANGED call /\ \A d \in Calls : Tool(d)' = Tool(d)
  BY Fixed DEF Tool
<1>2. \A t \in toolOk :
         /\ t \notin PerCall
         /\ \E d \in Calls : Yes(d)' /\ Tool(d)' = t /\ reply'[d].scope = "EntireTool"
  BY <1>1, YesStands DEF CacheFounded
<1>3. \A e \in argsOk :
         /\ e[1] \notin PerCall
         /\ \E d \in Calls : Yes(d)' /\ Tool(d)' = e[1] /\ call'[d].args = e[2]
  BY <1>1, YesStands DEF CacheFounded
<1>4. CASE UNCHANGED cache
  BY <1>2, <1>3, <1>4 DEF CacheFounded, cache
<1>5. CASE ~UNCHANGED cache
  <2>1. PICK c \in Calls : /\ AnswerArrives(c) /\ reply[c].approved /\ Tool(c) \notin PerCall
                           /\ Record(Tool(c), call[c].args, reply[c].scope)
    BY <1>5, CacheMoves
  <2>2. Yes(c)' /\ reply' = reply
    BY <2>1, OwnYes
  <2>3. CASE reply[c].scope = "EntireTool"
    <3>1. toolOk' = toolOk \cup {Tool(c)} /\ argsOk' = argsOk
      BY <2>1, <2>3 DEF Record
    <3>2. Yes(c)' /\ Tool(c)' = Tool(c) /\ reply'[c].scope = "EntireTool"
      BY <1>1, <2>2, <2>3
    <3> QED BY <1>2, <1>3, <2>1, <3>1, <3>2 DEF CacheFounded
  <2>4. CASE reply[c].scope # "EntireTool"
    <3> DEFINE e == <<Tool(c), call[c].args>>
    <3>1. argsOk' = argsOk \cup {e} /\ toolOk' = toolOk
      BY <2>1, <2>4 DEF Record
    <3>2. Yes(c)' /\ Tool(c)' = e[1] /\ call'[c].args = e[2] /\ e[1] \notin PerCall
      BY <1>1, <2>1, <2>2
    <3> HIDE DEF e
    <3> QED BY <1>2, <1>3, <3>1, <3>2 DEF CacheFounded
  <2> QED BY <2>3, <2>4
<1> QED BY <1>4, <1>5

\* A call comes to its backend from the ladder, excused or never to be asked,
\* or from its own wait, with a yes.
LEMMA RanMoves ==
  ASSUME [Next]_vars, NEW c \in Calls, c \in ran', c \notin ran
  PROVE  \/ AnswerArrives(c) /\ reply[c].approved
         \/ /\ Execute(c)
            /\ \/ Tool(c) \notin PerCall \cup ConfirmationSet
               \/ /\ Tool(c) \notin PerCall
                  /\ IsApproved(Tool(c), call[c].args) \/ policy.mode = "auto"
<1>1. ASSUME NEW b \in Calls, Preview(b) \/ DenialHook(b) \/ TimerPoll(b)
               \/ TimerFires(b) \/ Expired(b) \/ Withdraw(b) \/ CutOff(b) \/ Drop(b)
      PROVE  ran' = ran
  BY <1>1 DEF Preview, DenialHook, TimerPoll, TimerFires, Expired, Withdraw, CutOff, Drop, Finish
<1>2. ASSUME NEW b \in Calls, NEW how, Return(b, how) PROVE ran' = ran
  BY <1>2 DEF Return, Finish
<1>3. ASSUME NEW b \in Calls, NEW answer, Respond(b, answer) PROVE ran' = ran
  BY <1>3 DEF Respond
<1>4. ASSUME NEW t \in Tools, Elapse(t) PROVE ran' = ran
  BY <1>4 DEF Elapse
<1>5. UNCHANGED vars => ran' = ran
  BY DEF vars
<1>6. PICK b \in Calls : Execute(b) \/ AnswerArrives(b)
  BY <1>1, <1>2, <1>3, <1>4, <1>5 DEF Next, Step, Settled
<1>7. CASE Execute(b)
  <2>1. b = c /\ Check(b)
    BY <1>7, CheckMoves DEF Execute, Finish
  <2>2. ~(at' = [at EXCEPT ![b] = "done"] /\ ran' = ran)
    OBVIOUS
  <2> QED BY <1>7, <2>1, <2>2 DEF Execute, Finish
<1>8. CASE AnswerArrives(b)
  BY <1>8, CheckMoves DEF AnswerArrives
<1> QED BY <1>6, <1>7, <1>8

\* Nothing that has to be asked about runs without a yes, one step later.
LEMMA YesStep == CardInv /\ CacheFounded /\ NeverWithoutYes /\ [Next]_vars => NeverWithoutYes'
<1> SUFFICES ASSUME CardInv, CacheFounded, NeverWithoutYes, [Next]_vars,
                    NEW c \in Calls, c \in ran', MustAsk(Tool(c))',
                    ~(Tool(c)' \notin PerCall /\ policy'.mode = "auto")
             PROVE  \E d \in Calls : Covers(d, c)'
  BY DEF NeverWithoutYes
<1>1. UNCHANGED <<call, policy>>
  BY Fixed
<1>2. Tool(c)' = Tool(c) /\ MustAsk(Tool(c)) /\ ~(Tool(c) \notin PerCall /\ policy.mode = "auto")
  BY <1>1 DEF Tool, MustAsk
<1>3. CASE c \in ran
  BY <1>2, <1>3, CoverStands DEF NeverWithoutYes
<1>4. CASE c \notin ran /\ AnswerArrives(c) /\ reply[c].approved
  BY <1>4, OwnYes DEF Covers, Yes
<1>5. CASE /\ c \notin ran
           /\ Tool(c) \notin PerCall \cup ConfirmationSet
  BY <1>2, <1>5 DEF MustAsk, ConfirmationSet
<1>6. CASE /\ c \notin ran /\ Tool(c) \notin PerCall
           /\ IsApproved(Tool(c), call[c].args)
  <2>1. CASE Tool(c) \in toolOk
    <3>1. PICK d \in Calls : Yes(d) /\ Tool(d) = Tool(c) /\ reply[d].scope = "EntireTool"
      BY <2>1 DEF CacheFounded
    <3>2. Covers(d, c)
      BY <1>6, <3>1 DEF Covers, Yes
    <3> QED BY <3>2, CoverStands
  <2>2. CASE <<Tool(c), call[c].args>> \in argsOk
    <3>1. PICK d \in Calls : Yes(d) /\ Tool(d) = Tool(c) /\ call[d].args = call[c].args
      BY <2>2 DEF CacheFounded
    <3>2. Covers(d, c)
      BY <1>6, <3>1 DEF Covers, Yes
    <3> QED BY <3>2, CoverStands
  <2> QED BY <1>6, <2>1, <2>2 DEF IsApproved
<1> QED BY <1>2, <1>3, <1>4, <1>5, <1>6, RanMoves

\* The first state: nothing asked, nothing cached, nothing run.
LEMMA GateInit == Init => IInv
<1> SUFFICES ASSUME Init PROVE IInv
  OBVIOUS
<1>1. CardInv
  <2>1. TypeOK
    BY TypeInit
  <2>2. \A c \in Calls : at[c] = "idle" /\ reply[c] = NoAnswer /\ announced[c] = <<>>
    BY DEF Init
  <2>3. raised = {} /\ pending = {}
    BY DEF Init
  <2> QED BY <2>1, <2>2, <2>3 DEF CardInv, CardPlaces, NoGhostCard, AnnouncedOnce, InWait, Listening, Deaf
<1>2. CacheFounded /\ NeverWithoutYes
  BY DEF Init, CacheFounded, NeverWithoutYes
<1> QED BY <1>1, <1>2 DEF IInv

\* The whole invariant is inductive.
LEMMA GateInvariant == Spec => []IInv
<1>1. IInv /\ [Next]_vars => IInv'
  BY CardStep, FoundedStep, YesStep DEF IInv
<1> QED BY <1>1, GateInit, PTL DEF Spec

\* For any number of calls, however their waits, answers, timeouts and
\* cancellations interleave: no card stays listed once the wait behind it is
\* over, and every exit from a wait - answered, expired, dropped with its run
\* (OpenPrompt::close and its Drop, ConfirmationBroker::respond) - is announced
\* exactly once.
THEOREM CardsEndAlways == Spec => []CardsEnd
<1>1. IInv => CardsEnd
  BY DEF IInv, CardInv, CardsEnd
<1> QED BY <1>1, GateInvariant, PTL

\* For any tools, policies and interleavings: a call that has to be asked about
\* (effective_confirmation_set, per-call tools) reaches its backend only through
\* a person's yes that covers it, whatever the approval cache has come to hold.
THEOREM NeverWithoutYesAlways == Spec => []NeverWithoutYes
<1>1. IInv => NeverWithoutYes
  BY DEF IInv
<1> QED BY <1>1, GateInvariant, PTL
=============================================================================
