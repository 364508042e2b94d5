--------------------------- MODULE SelfHealing_proofs ---------------------------
(***************************************************************************)
(* Proofs about SelfHealing for every set of tasks and of signals and for  *)
(* every limit.                                                            *)
(*                                                                         *)
(* The provers know nothing of ^ with a variable exponent, so what the     *)
(* growth of the delays rests on, that powers of two grow, is a premise of *)
(* the theorem that needs it; the limit on the retries does without.       *)
(***************************************************************************)
EXTENDS SelfHealing, FiniteSetTheorems, TLAPS

\* Attempts of a category that nobody was asked about.
Retries(h, c) == {i \in DOMAIN h : h[i].category = c /\ Automatic(h[i])}

\* Attempts of a category: what RetriesUsed counts.
Used(h, c) == {i \in DOMAIN h : h[i].category = c}

\* What the n + 1st attempt of the category would wait.
Delay(c, n) == IF c = "timeout" THEN Lesser(2 ^ (n + 1), MaxMultiplier) ELSE 2 ^ n

Waiting == {"timeout", "network_connectivity"}

\* True of the exponentiation of Naturals.
PowersGrow ==
  /\ \A n \in Nat : 2 ^ n \in Nat
  /\ \A m, n \in Nat : m <= n => 2 ^ m <= 2 ^ n

\* The values a parameter takes, whatever the provers know of ^.
Parameter == Nat \cup {2 ^ n : n \in Nat}

Shape ==
  [category : Category, kind : StrategyKind, parameter : Parameter,
   recheck : BOOLEAN, approval : BOOLEAN]

\* Nothing is automatic once the category was seen MaxRetries times, whatever
\* was proposed then, so the retries are among its first attempts.
GoodHistory(h) == h \in Seq(Shape) /\ \A c \in Category : Cardinality(Retries(h, c)) <= MaxRetries

\* What was waited so far is no more than what the next attempt would wait.
DelaysGrow(h) ==
  \A c \in Waiting : \A i, j \in Retries(h, c) :
    /\ h[i].parameter <= Delay(c, Cardinality(Used(h, c)))
    /\ i < j => h[i].parameter <= h[j].parameter

HealInv == history \in [Tasks -> Seq(Shape)] /\ \A t \in Tasks : GoodHistory(history[t])

DelaysInv == \A t \in Tasks : DelaysGrow(history[t])

-----------------------------------------------------------------------------
(* Histories.                                                              *)

LEMMA UsedIsFinite ==
  ASSUME NEW h \in Seq(Shape), NEW c
  PROVE  /\ IsFiniteSet(Used(h, c)) /\ Cardinality(Used(h, c)) \in Nat
         /\ IsFiniteSet(Retries(h, c)) /\ Cardinality(Retries(h, c)) \in Nat
         /\ Cardinality(Retries(h, c)) <= Cardinality(Used(h, c))
         /\ RetriesUsed(h, c) = Cardinality(Used(h, c))
<1>1. DOMAIN h = 1 .. Len(h) /\ Len(h) \in Nat
  OBVIOUS
<1>2. IsFiniteSet(DOMAIN h)
  BY <1>1, FS_Interval
<1>3. Used(h, c) \in SUBSET (DOMAIN h)
  BY DEF Used
<1>4. IsFiniteSet(Used(h, c))
  BY <1>2, <1>3, FS_Subset
<1>5. Retries(h, c) \in SUBSET Used(h, c)
  BY DEF Used, Retries
<1>6. IsFiniteSet(Retries(h, c)) /\ Cardinality(Retries(h, c)) <= Cardinality(Used(h, c))
  BY <1>4, <1>5, FS_Subset
<1>7. RetriesUsed(h, c) = Cardinality(Used(h, c))
  BY DEF RetriesUsed, Used, Quantify
<1>8. QED  BY <1>4, <1>6, <1>7, FS_CardinalityType

\* One attempt more.
LEMMA AppendAttempt ==
  ASSUME NEW h \in Seq(Shape), NEW a \in Shape, NEW c
  PROVE  /\ Append(h, a) \in Seq(Shape)
         /\ Append(h, a)[Len(h) + 1] = a
         /\ \A i \in DOMAIN h : i < Len(h) + 1 /\ Append(h, a)[i] = h[i]
         /\ Len(h) + 1 \notin DOMAIN h
         /\ DOMAIN Append(h, a) = DOMAIN h \cup {Len(h) + 1}
         /\ Used(Append(h, a), c) =
              IF a.category = c THEN Used(h, c) \cup {Len(h) + 1} ELSE Used(h, c)
         /\ Retries(Append(h, a), c) =
              IF a.category = c /\ Automatic(a)
              THEN Retries(h, c) \cup {Len(h) + 1} ELSE Retries(h, c)
<1>1. /\ Append(h, a) \in Seq(Shape)
      /\ Append(h, a)[Len(h) + 1] = a
      /\ \A i \in DOMAIN h : i < Len(h) + 1 /\ Append(h, a)[i] = h[i]
      /\ Len(h) + 1 \notin DOMAIN h
      /\ DOMAIN Append(h, a) = DOMAIN h \cup {Len(h) + 1}
  OBVIOUS
<1>2. Used(Append(h, a), c) =
        IF a.category = c THEN Used(h, c) \cup {Len(h) + 1} ELSE Used(h, c)
  BY <1>1 DEF Used
<1>3. Retries(Append(h, a), c) =
        IF a.category = c /\ Automatic(a)
        THEN Retries(h, c) \cup {Len(h) + 1} ELSE Retries(h, c)
  BY <1>1 DEF Retries
<1>4. QED  BY <1>1, <1>2, <1>3

-----------------------------------------------------------------------------
(* Diagnoses and strategies.                                               *)

LEMMA DiagnosisType ==
  ASSUME NEW s \in FailureSignals
  PROVE  Diagnose(s).category \in Category
<1>1. Upstream(s, "nonzero_exit") \in Category /\ Upstream(s, "unknown") \in Category
  BY DEF Upstream, FailureSignals, Category
<1>2. s.hint # "none" => s.hint \in Category
  BY DEF FailureSignals, Category
<1>3. "policy_restriction" \in Category /\ "timeout" \in Category
  BY DEF Category
<1>4. QED  BY <1>1, <1>2, <1>3 DEF Diagnose, Diagnosis, FailureSignals

\* A strategy nobody is asked about needs a retry that is left, and how long it
\* waits is a matter of how many were used.
LEMMA ProposalIsLimited ==
  ASSUME NEW d, NEW h \in Seq(Shape), d.category \in Category
  PROVE  /\ Propose(d, h).kind \in StrategyKind
         /\ Propose(d, h).parameter \in Parameter
         /\ Propose(d, h).recheck \in BOOLEAN /\ Propose(d, h).approval \in BOOLEAN
         /\ Automatic(Propose(d, h)) =>
              /\ Cardinality(Used(h, d.category)) < MaxRetries
              /\ d.category \in Waiting =>
                   Propose(d, h).parameter = Delay(d.category, Cardinality(Used(h, d.category)))
<1> DEFINE n == Cardinality(Used(h, d.category))
<1>1. n \in Nat /\ RetriesUsed(h, d.category) = n
  BY UsedIsFinite
<1>2. 2 ^ n \in Parameter /\ Lesser(2 ^ (n + 1), MaxMultiplier) \in Parameter
      /\ 0 \in Parameter /\ 1 \in Parameter
  BY <1>1, HealingAssumption DEF Parameter, Lesser
<1> HIDE DEF n
<1>3. QED
  BY <1>1, <1>2 DEF Propose, Strategy, Escalate, StrategyKind, Automatic, Delay, Waiting, n

\* What Heal adds to the history of its task.
LEMMA HealAppends ==
  ASSUME HealInv, NEW t \in Tasks, NEW s \in Signals, Heal(t, s)
  PROVE  \E a \in Shape :
           /\ history' = [history EXCEPT ![t] = Append(history[t], a)]
           /\ Automatic(a) =>
                /\ Cardinality(Used(history[t], a.category)) < MaxRetries
                /\ a.category \in Waiting =>
                     a.parameter = Delay(a.category, Cardinality(Used(history[t], a.category)))
<1> DEFINE d == Diagnose(s)
           p == Propose(d, history[t])
           a == HealingAttempt(d.category, p)
<1>1. history[t] \in Seq(Shape) /\ history \in [Tasks -> Seq(Shape)]
  BY DEF HealInv
<1>2. d.category \in Category
  BY DiagnosisType, HealingAssumption
<1>3. history' = [history EXCEPT ![t] = Append(history[t], a)]
  BY <1>1 DEF Heal
<1> HIDE DEF d
<1>4. /\ p.kind \in StrategyKind /\ p.parameter \in Parameter
      /\ p.recheck \in BOOLEAN /\ p.approval \in BOOLEAN
      /\ Automatic(p) =>
           /\ Cardinality(Used(history[t], d.category)) < MaxRetries
           /\ d.category \in Waiting =>
                p.parameter = Delay(d.category, Cardinality(Used(history[t], d.category)))
  BY <1>1, <1>2, ProposalIsLimited
<1> HIDE DEF p
<1>5. a \in Shape
  BY <1>2, <1>4 DEF HealingAttempt, Shape
<1>6. a.category = d.category /\ a.kind = p.kind /\ a.parameter = p.parameter
  BY DEF HealingAttempt
<1>7. Automatic(a) = Automatic(p)
  BY <1>6 DEF Automatic
<1> HIDE DEF a
<1>8. QED  BY <1>3, <1>4, <1>5, <1>6, <1>7

LEMMA GoodHistoryGrows ==
  ASSUME NEW h, GoodHistory(h), NEW a \in Shape,
         Automatic(a) => Cardinality(Used(h, a.category)) < MaxRetries
  PROVE  GoodHistory(Append(h, a))
<1>1. h \in Seq(Shape)
  BY DEF GoodHistory
<1>2. ASSUME NEW c \in Category
      PROVE  Cardinality(Retries(Append(h, a), c)) <= MaxRetries
  <2>1. CASE a.category = c /\ Automatic(a)
    <3>1. Retries(Append(h, a), c) = Retries(h, c) \cup {Len(h) + 1}
      BY <1>1, <2>1, AppendAttempt
    <3>2. /\ IsFiniteSet(Retries(h, c)) /\ Cardinality(Retries(h, c)) \in Nat
          /\ Cardinality(Retries(h, c)) <= Cardinality(Used(h, c))
          /\ Cardinality(Used(h, c)) \in Nat
      BY <1>1, UsedIsFinite
    <3>3. Cardinality(Retries(Append(h, a), c)) <= Cardinality(Retries(h, c)) + 1
      <4>1. Cardinality(Retries(h, c) \cup {Len(h) + 1})
              \in {Cardinality(Retries(h, c)), Cardinality(Retries(h, c)) + 1}
        BY <3>2, FS_AddElement
      <4>2. QED  BY <3>1, <3>2, <4>1
    <3>4. Cardinality(Retries(Append(h, a), c)) \in Nat
      BY <1>1, AppendAttempt, UsedIsFinite
    <3>5. QED  BY <2>1, <3>2, <3>3, <3>4, HealingAssumption
  <2>2. CASE ~(a.category = c /\ Automatic(a))
    <3>1. Retries(Append(h, a), c) = Retries(h, c)
      BY <1>1, <2>2, AppendAttempt
    <3>2. QED  BY <3>1 DEF GoodHistory
  <2>3. QED  BY <2>1, <2>2
<1>3. QED  BY <1>1, <1>2, AppendAttempt DEF GoodHistory

LEMMA DelayGrows ==
  ASSUME PowersGrow, NEW c, NEW m \in Nat, NEW n \in Nat, m <= n
  PROVE  /\ Delay(c, m) \in Nat /\ Delay(c, n) \in Nat
         /\ Delay(c, m) <= Delay(c, n)
<1>1. /\ 2 ^ m \in Nat /\ 2 ^ n \in Nat /\ 2 ^ m <= 2 ^ n
      /\ 2 ^ (m + 1) \in Nat /\ 2 ^ (n + 1) \in Nat /\ 2 ^ (m + 1) <= 2 ^ (n + 1)
  <2>1. m + 1 \in Nat /\ n + 1 \in Nat /\ m + 1 <= n + 1
    OBVIOUS
  <2>2. QED  BY <2>1 DEF PowersGrow
<1>2. QED  BY <1>1, HealingAssumption DEF Delay, Lesser

\* The next retry waits no less than those before.
LEMMA DelaysKeepGrowing ==
  ASSUME PowersGrow, NEW h, GoodHistory(h), DelaysGrow(h), NEW a \in Shape,
         Automatic(a) /\ a.category \in Waiting =>
           a.parameter = Delay(a.category, Cardinality(Used(h, a.category)))
  PROVE  DelaysGrow(Append(h, a))
<1> DEFINE g == Append(h, a)
<1>1. h \in Seq(Shape) /\ g \in Seq(Shape)
  BY AppendAttempt DEF GoodHistory
<1> SUFFICES ASSUME NEW c \in Waiting, NEW i \in Retries(g, c), NEW j \in Retries(g, c)
             PROVE  /\ g[i].parameter <= Delay(c, Cardinality(Used(g, c)))
                    /\ i < j => g[i].parameter <= g[j].parameter
  BY DEF DelaysGrow
<1> DEFINE m == Cardinality(Used(h, c))
           n == Cardinality(Used(g, c))
<1>2. m \in Nat /\ n \in Nat
  BY <1>1, UsedIsFinite
<1>3. m <= n
  <2>1. Used(h, c) \in SUBSET Used(g, c)
    BY <1>1, AppendAttempt
  <2>2. QED  BY <1>1, <2>1, UsedIsFinite, FS_Subset
<1>4. Delay(c, m) \in Nat /\ Delay(c, n) \in Nat /\ Delay(c, m) <= Delay(c, n)
  BY <1>2, <1>3, DelayGrows
<1>5. ASSUME NEW k \in Retries(h, c)
      PROVE  /\ k \in DOMAIN h /\ g[k] = h[k] /\ k < Len(h) + 1 /\ k \in Nat
             /\ g[k].parameter <= Delay(c, m)
             /\ g[k].parameter \in Nat
  <2>1. k \in DOMAIN h
    BY DEF Retries
  <2>2. g[k] = h[k] /\ k < Len(h) + 1 /\ k \in Nat
    BY <1>1, <2>1, AppendAttempt
  <2>3. h[k] \in Shape
    BY <1>1, <2>1
  <2>4. h[k].parameter \in Nat
    BY <2>3 DEF Shape, Parameter, PowersGrow
  <2>5. QED  BY <2>1, <2>2, <2>4 DEF DelaysGrow
<1>6. CASE a.category = c /\ Automatic(a)
  <2>1. Retries(g, c) = Retries(h, c) \cup {Len(h) + 1}
    BY <1>1, <1>6, AppendAttempt
  <2>2. g[Len(h) + 1].parameter = Delay(c, m)
    BY <1>1, <1>6, AppendAttempt
  <2>3. ASSUME NEW k \in Retries(g, c)  PROVE g[k].parameter <= Delay(c, m) /\ g[k].parameter \in Nat
    BY <1>4, <1>5, <2>1, <2>2
  <2>4. g[i].parameter <= Delay(c, n)
    <3>1. g[i].parameter <= Delay(c, m) /\ g[i].parameter \in Nat
      BY <2>3
    <3> HIDE DEF g, m, n
    <3>2. QED  BY <1>4, <3>1
  <2>5. ASSUME i < j  PROVE g[i].parameter <= g[j].parameter
    <3>1. CASE j = Len(h) + 1
      BY <2>2, <2>3, <3>1
    <3>2. CASE j # Len(h) + 1
      <4>1. j \in Retries(h, c)
        BY <2>1, <3>2
      <4>2. i # Len(h) + 1
        BY <1>5, <2>5, <4>1, <1>1
      <4>3. i \in Retries(h, c)
        BY <2>1, <4>2
      <4>4. g[i] = h[i] /\ g[j] = h[j]
        BY <1>5, <4>1, <4>3
      <4>5. QED  BY <2>5, <4>1, <4>3, <4>4 DEF DelaysGrow
    <3>3. QED  BY <3>1, <3>2
  <2>6. QED  BY <2>4, <2>5
<1>7. CASE ~(a.category = c /\ Automatic(a))
  <2>1. i \in Retries(h, c) /\ j \in Retries(h, c)
    BY <1>1, <1>7, AppendAttempt
  <2>2. g[i] = h[i] /\ g[j] = h[j]
    BY <1>5, <2>1
  <2>3. g[i].parameter <= Delay(c, n)
    BY <1>4, <1>5, <2>1
  <2>4. i < j => g[i].parameter <= g[j].parameter
    BY <2>1, <2>2 DEF DelaysGrow
  <2>5. QED  BY <2>3, <2>4
<1>8. QED  BY <1>6, <1>7

-----------------------------------------------------------------------------

LEMMA InitIsGood == Init => HealInv /\ DelaysInv
<1> SUFFICES ASSUME Init  PROVE HealInv /\ DelaysInv
  OBVIOUS
<1>1. ASSUME NEW t \in Tasks, NEW c
      PROVE  history[t] = <<>> /\ Retries(history[t], c) = {}
  BY DEF Init, Retries
<1>2. <<>> \in Seq(Shape)
  OBVIOUS
<1>3. HealInv
  BY <1>1, <1>2, FS_EmptySet, HealingAssumption DEF Init, HealInv, GoodHistory
<1>4. DelaysInv
  BY <1>1 DEF DelaysInv, DelaysGrow
<1>5. QED  BY <1>3, <1>4

LEMMA StepKeepsInv == HealInv /\ [Next]_history => HealInv'
<1> SUFFICES ASSUME HealInv, [Next]_history  PROVE HealInv'
  OBVIOUS
<1>1. ASSUME NEW t \in Tasks, NEW s \in Signals, Heal(t, s)  PROVE HealInv'
  <2>1. PICK a \in Shape :
          /\ history' = [history EXCEPT ![t] = Append(history[t], a)]
          /\ Automatic(a) => Cardinality(Used(history[t], a.category)) < MaxRetries
    BY <1>1, HealAppends
  <2>2. history \in [Tasks -> Seq(Shape)] /\ GoodHistory(history[t])
    BY DEF HealInv
  <2>3. GoodHistory(Append(history[t], a))
    BY <2>1, <2>2, GoodHistoryGrows
  <2>4. QED  BY <2>1, <2>2, <2>3 DEF HealInv, GoodHistory
<1>2. CASE UNCHANGED history
  BY <1>2 DEF HealInv
<1>3. QED  BY <1>1, <1>2 DEF Next

LEMMA StepKeepsDelays ==
  ASSUME PowersGrow, HealInv, DelaysInv, [Next]_history  PROVE DelaysInv'
<1>1. ASSUME NEW t \in Tasks, NEW s \in Signals, Heal(t, s)  PROVE DelaysInv'
  <2>1. PICK a \in Shape :
          /\ history' = [history EXCEPT ![t] = Append(history[t], a)]
          /\ Automatic(a) /\ a.category \in Waiting =>
               a.parameter = Delay(a.category, Cardinality(Used(history[t], a.category)))
    BY <1>1, HealAppends
  <2>2. history \in [Tasks -> Seq(Shape)] /\ GoodHistory(history[t]) /\ DelaysGrow(history[t])
    BY DEF HealInv, DelaysInv
  <2>3. DelaysGrow(Append(history[t], a))
    BY <2>1, <2>2, DelaysKeepGrowing
  <2>4. \A u \in Tasks : history'[u] = IF u = t THEN Append(history[t], a) ELSE history[u]
    BY <2>1, <2>2
  <2>5. QED  BY <2>3, <2>4 DEF DelaysInv
<1>2. CASE UNCHANGED history
  BY <1>2 DEF DelaysInv
<1>3. QED  BY <1>1, <1>2 DEF Next

-----------------------------------------------------------------------------

\* However failures of several kinds alternate, which the detection of repeated
\* failures does not see, no category of a task is retried without asking more
\* than MaxRetries times.
RetriesLimited ==
  \A t \in Tasks, c \in Category : Cardinality(Retries(history[t], c)) <= MaxRetries

THEOREM RetriesAreLimited == Spec => []RetriesLimited
<1>1. HealInv => RetriesLimited
  BY DEF HealInv, GoodHistory, RetriesLimited
<1>2. Init => HealInv
  BY InitIsGood
<1>3. QED  BY <1>1, <1>2, StepKeepsInv, PTL DEF Spec

\* Given that powers of two grow, a retry of a timeout or of a lost connection
\* waits no less than any before it, and the history keeps its type.
THEOREM UnattendedRetriesAreBounded ==
  ASSUME PowersGrow
  PROVE  Spec => [](TypeOK /\ UnattendedRetriesBounded)
<1>1. Init => HealInv /\ DelaysInv
  BY InitIsGood
<1>2. HealInv /\ DelaysInv /\ [Next]_history => HealInv' /\ DelaysInv'
  BY StepKeepsInv, StepKeepsDelays
<1>3. HealInv /\ DelaysInv => TypeOK /\ UnattendedRetriesBounded
  <2> SUFFICES ASSUME HealInv, DelaysInv  PROVE TypeOK /\ UnattendedRetriesBounded
    OBVIOUS
  <2>1. Parameter = Nat
    BY DEF PowersGrow, Parameter
  <2>2. Shape = Attempt
    BY <2>1 DEF Shape, Attempt
  <2>3. TypeOK
    BY <2>2 DEF HealInv, TypeOK
  <2>4. UnattendedRetriesBounded
    BY DEF HealInv, GoodHistory, DelaysInv, DelaysGrow, Waiting, Retries,
           UnattendedRetriesBounded
  <2>5. QED  BY <2>3, <2>4
<1>4. QED  BY <1>1, <1>2, <1>3, PTL DEF Spec
=============================================================================
