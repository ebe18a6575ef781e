----------------------------- MODULE TriageProof -----------------------------
(***************************************************************************)
(* Proofs about Triage, and the parts of Desk and Catalogue it uses, for   *)
(* any categories, services, queues, staff, calendars, calls and loads.    *)
(***************************************************************************)
EXTENDS Triage, FiniteSetTheorems, TLAPS

-----------------------------------------------------------------------------
(* Folds.  What FoldLeft makes of a sequence is the end of a walk from its *)
(* base, one element a step.                                               *)

LEMMA LeastOf ==
  ASSUME NEW S, S \subseteq Nat, S # {}
  PROVE  \E n \in S : \A m \in S : n <= m
<1> DEFINE R == OpToRel(<, Nat)
<1>1. IsWellFoundedOn(R, Nat)
  BY Zenon, NatLessThanWellFounded
<1>2. \A m, n \in Nat : m < n => <<m, n>> \in R
  BY DEF OpToRel
<1> HIDE DEF R
<1>3. PICK n \in S : \A m \in S : <<m, n>> \notin R
  BY Zenon, <1>1, WFMin
<1>4. \A m \in S : ~(m < n)
  BY Zenon, <1>2, <1>3
<1> QED
  BY <1>4

LEMMA MaxUpTo ==
  ASSUME NEW n \in Nat \ {0}
  PROVE  Max(1..n) = n /\ (1..n) \ {Max(1..n)} = 1..(n - 1) /\ 1..n # {}
<1>1. n \in 1..n /\ \A m \in 1..n : n >= m
  OBVIOUS
<1>2. \A m \in 1..n : (\A k \in 1..n : m >= k) => m = n
  BY <1>1
<1>3. Max(1..n) = n
  BY <1>1, <1>2 DEF Max
<1> QED
  BY <1>1, <1>3

LEMMA MaxOfPart ==
  ASSUME NEW n \in Nat, NEW s \in SUBSET (1..(n + 1)), n + 1 \in s
  PROVE  Max(s) = n + 1
<1>1. \A m \in s : n + 1 >= m /\ m \in Nat
  OBVIOUS
<1>2. \A m \in s : (\A k \in s : m >= k) => m = n + 1
  BY <1>1
<1> QED
  BY Zenon, <1>1, <1>2 DEF Max

LEMMA MaxIsIn ==
  ASSUME NEW n \in Nat, NEW s \in SUBSET (1..n), s # {}
  PROVE  Max(s) \in s
<1> DEFINE T == {n - m : m \in s}
<1>1. T \subseteq Nat /\ T # {}
  <2>1. \A m \in s : n - m \in Nat
    OBVIOUS
  <2>2. PICK m \in s : TRUE
    BY Zenon
  <2> QED
    BY <2>1, <2>2
<1>2. PICK t \in T : \A m \in T : t <= m
  BY Zenon, <1>1, LeastOf
<1>3. PICK m \in s : t = n - m
  BY <1>2
<1>4. \A k \in s : m >= k
  BY <1>2, <1>3
<1> QED
  BY Zenon, <1>4 DEF Max

(* The recursion of a fold has a solution on the sets of places.           *)
IsFold(g, D, base, L, F) ==
    /\ g \in [SUBSET (1..L) -> D]
    /\ g = [s \in SUBSET (1..L) |-> IF s = {} THEN base ELSE F[<<g[s \ {Max(s)}], Max(s)>>]]

LEMMA FoldExists ==
  ASSUME NEW D, NEW base \in D, NEW L \in Nat, NEW F \in [D \X (1..L) -> D]
  PROVE  \E g : IsFold(g, D, base, L, F)
<1> DEFINE Solves(n, g) == g = [s \in SUBSET (1..n) |->
                                  IF s = {} THEN base ELSE F[<<g[s \ {Max(s)}], Max(s)>>]]
<1> DEFINE Open == {n \in 0..L : ~\E g \in [SUBSET (1..n) -> D] : Solves(n, g)}
<1>1. ASSUME Open # {}
      PROVE  FALSE
  <2>1. PICK n \in Open : \A m \in Open : n <= m
    BY <1>1, LeastOf, Open \subseteq Nat
  <2>2. CASE n = 0
    <3> DEFINE g == [s \in SUBSET (1..0) |-> base]
    <3>1. \A s \in SUBSET (1..0) : s = {}
      OBVIOUS
    <3>2. g \in [SUBSET (1..0) -> D] /\ Solves(0, g)
      BY <3>1
    <3> QED
      BY <2>1, <2>2, <3>2
  <2>3. CASE n # 0
    <3>1. n - 1 \in 0..L /\ n - 1 \notin Open
      <4>1. n \in Nat /\ n \in 0..L
        BY <2>1
      <4>2. n - 1 \in 0..L /\ ~(n <= n - 1)
        BY <4>1, <2>3
      <4> HIDE DEF Open
      <4> QED
        BY <2>1, <4>2
    <3>2. PICK g \in [SUBSET (1..(n - 1)) -> D] : Solves(n - 1, g)
      BY Zenon, <3>1
    <3> DEFINE h == [s \in SUBSET (1..n) |-> IF n \in s THEN F[<<g[s \ {n}], n>>] ELSE g[s]]
    <3>3. n \in 1..L /\ \A s \in SUBSET (1..n) : s \ {n} \in SUBSET (1..(n - 1))
      BY <2>1, <2>3
    <3>4. \A s \in SUBSET (1..n) : n \notin s => s \in SUBSET (1..(n - 1))
      BY <3>3
    <3>5. ASSUME NEW s \in SUBSET (1..n)
          PROVE  h[s] \in D
      <4>1. CASE n \in s
        <5>1. g[s \ {n}] \in D
          BY <3>3
        <5> QED
          BY <4>1, <5>1, <3>3
      <4>2. CASE n \notin s
        BY <4>2, <3>4
      <4> QED
        BY <4>1, <4>2
    <3>6. ASSUME NEW s \in SUBSET (1..n)
          PROVE  h[s] = IF s = {} THEN base ELSE F[<<h[s \ {Max(s)}], Max(s)>>]
      <4>1. CASE n \in s
        <5>1. Max(s) = n
          BY <4>1, <3>1, MaxOfPart, n - 1 \in Nat, (n - 1) + 1 = n
        <5>2. h[s \ {n}] = g[s \ {n}]
          BY <3>3
        <5> QED
          BY <4>1, <5>1, <5>2
      <4>2. CASE n \notin s /\ s # {}
        <5>1. s \in SUBSET (1..(n - 1))
          BY <4>2, <3>4
        <5>2. Max(s) \in s
          BY <4>2, MaxIsIn, n \in Nat
        <5>3. h[s \ {Max(s)}] = g[s \ {Max(s)}]
          BY Zenon, <4>2
        <5>4. g[s] = F[<<g[s \ {Max(s)}], Max(s)>>]
          BY Zenon, <3>2, <5>1, <4>2
        <5> QED
          BY Zenon, <4>2, <5>3, <5>4
      <4>3. CASE s = {}
        <5>1. g[{}] = base
          BY <3>2
        <5> QED
          BY <4>3, <5>1
      <4> QED
        BY <4>1, <4>2, <4>3
    <3>7. h \in [SUBSET (1..n) -> D]
      BY <3>5
    <3>8. Solves(n, h)
      BY Zenon, <3>6
    <3> QED
      BY Zenon, <2>1, <3>7, <3>8
  <2> QED
    BY <2>2, <2>3
<1>2. \E g \in [SUBSET (1..L) -> D] : Solves(L, g)
  <2>1. L \in 0..L
    OBVIOUS
  <2> QED
    BY Zenon, <1>1, <2>1
<1> QED
  BY Zenon, <1>2 DEF IsFold

LEMMA ThoseWalk ==
  ASSUME NEW X, NEW seq \in Seq(X), NEW S
  PROVE  \E w : /\ w[0] = <<>>
                /\ \A i \in 1..Len(seq) : w[i] = IF seq[i] \in S THEN Append(w[i - 1], seq[i]) ELSE w[i - 1]
                /\ Those(seq, S) = w[Len(seq)]
<1> DEFINE L == Len(seq)
           F == [step \in Seq(X) \X (1..L) |->
                   IF seq[step[2]] \in S THEN Append(step[1], seq[step[2]]) ELSE step[1]]
           Solves(g) == g = [s \in SUBSET DOMAIN seq |->
                               IF s = {} THEN <<>>
                               ELSE IF seq[Max(s)] \in S THEN Append(g[s \ {Max(s)}], seq[Max(s)])
                                    ELSE g[s \ {Max(s)}]]
           iter == CHOOSE g : Solves(g)
<1>1. L \in Nat /\ DOMAIN seq = 1..L /\ <<>> \in Seq(X)
  OBVIOUS
<1>2. F \in [Seq(X) \X (1..L) -> Seq(X)]
  <2>1. \A d \in Seq(X), i \in 1..L : Append(d, seq[i]) \in Seq(X)
    BY <1>1
  <2> QED
    BY <2>1
<1>3. \A d \in Seq(X), i \in 1..L : F[<<d, i>>] = IF seq[i] \in S THEN Append(d, seq[i]) ELSE d
  OBVIOUS
<1>4. \E g : Solves(g)
  <2> HIDE DEF F
  <2>1. PICK g : IsFold(g, Seq(X), <<>>, L, F)
    BY Zenon, <1>1, <1>2, FoldExists
  <2>2. ASSUME NEW s \in SUBSET (1..L), s # {}
        PROVE  F[<<g[s \ {Max(s)}], Max(s)>>]
                 = IF seq[Max(s)] \in S THEN Append(g[s \ {Max(s)}], seq[Max(s)]) ELSE g[s \ {Max(s)}]
    <3>1. Max(s) \in 1..L
      BY Zenon, <1>1, <2>2, MaxIsIn
    <3>2. g[s \ {Max(s)}] \in Seq(X)
      BY Zenon, <2>1 DEF IsFold
    <3> QED
      BY <3>1, <3>2, <1>3
  <2>3. Solves(g)
    BY Zenon, <1>1, <2>1, <2>2 DEF IsFold
  <2> QED
    BY Zenon, <2>3
<1>5. Solves(iter)
  BY Zenon, <1>4
<1>6. Those(seq, S) = iter[DOMAIN seq]
  BY Zenon DEF Those, FoldLeft, MapThenFoldSet
<1> DEFINE w == [i \in 0..L |-> iter[1..i]]
<1> HIDE DEF iter
<1>7. w[0] = <<>>
  <2>1. 1..0 = {} /\ 0 \in 0..L
    BY <1>1
  <2> QED
    BY <1>5, <2>1
<1>8. ASSUME NEW i \in 1..L
      PROVE  w[i] = IF seq[i] \in S THEN Append(w[i - 1], seq[i]) ELSE w[i - 1]
  <2>1. Max(1..i) = i /\ (1..i) \ {Max(1..i)} = 1..(i - 1) /\ 1..i # {}
    BY MaxUpTo
  <2>2. 1..i \in SUBSET DOMAIN seq /\ i \in 0..L /\ i - 1 \in 0..L
    BY <1>1
  <2> QED
    BY Zenon, <1>5, <2>1, <2>2
<1>9. Those(seq, S) = w[L]
  BY <1>1, <1>6
<1> HIDE DEF w
<1> QED
  BY <1>7, <1>8, <1>9

(* What Those selects is in the sequence's order: nothing occurs twice     *)
(* that did not, and all of the set that occurs is there.                  *)
LEMMA ThoseAre ==
  ASSUME NEW X, NEW seq \in Seq(X), IsInjective(seq), NEW S
  PROVE  /\ Those(seq, S) \in Seq(X) /\ IsInjective(Those(seq, S))
         /\ ToSet(Those(seq, S)) = ToSet(seq) \cap S
<1> DEFINE L == Len(seq)
<1>1. L \in Nat /\ DOMAIN seq = 1..L /\ \A i \in 1..L : seq[i] \in X
  OBVIOUS
<1>2. PICK w : /\ w[0] = <<>>
               /\ \A i \in 1..L : w[i] = IF seq[i] \in S THEN Append(w[i - 1], seq[i]) ELSE w[i - 1]
               /\ Those(seq, S) = w[L]
  BY ThoseWalk
<1> DEFINE Selected(i) == /\ w[i] \in Seq(X)
                          /\ \A j, k \in 1..Len(w[i]) : w[i][j] = w[i][k] => j = k
                          /\ \A x : (\E j \in 1..Len(w[i]) : w[i][j] = x)
                                      <=> (x \in S /\ \E j \in 1..i : seq[j] = x)
           Bad == {i \in 0..L : ~Selected(i)}
<1>3. Selected(0)
  BY <1>2
<1>4. ASSUME NEW i \in 1..L, Selected(i - 1)
      PROVE  Selected(i)
  <2>1. CASE seq[i] \notin S
    <3>1. w[i] = w[i - 1]
      BY <1>2, <2>1
    <3>2. \A x : (x \in S /\ \E j \in 1..i : seq[j] = x) <=> (x \in S /\ \E j \in 1..(i - 1) : seq[j] = x)
      BY <1>1, <2>1
    <3> QED
      BY <1>4, <3>1, <3>2
  <2>2. CASE seq[i] \in S
    <3> DEFINE n == Len(w[i - 1])
    <3>1. w[i] = Append(w[i - 1], seq[i]) /\ w[i - 1] \in Seq(X) /\ seq[i] \in X
      BY Zenon, <1>1, <1>2, <1>4, <2>2
    <3>2. /\ n \in Nat /\ w[i] \in Seq(X) /\ Len(w[i]) = n + 1 /\ w[i][n + 1] = seq[i]
          /\ \A j \in 1..n : w[i][j] = w[i - 1][j]
      BY <3>1
    <3>3. \A j \in 1..n : w[i - 1][j] # seq[i]
      <4>1. ASSUME NEW j \in 1..n, w[i - 1][j] = seq[i]
            PROVE  FALSE
        <5>1. PICK k \in 1..(i - 1) : seq[k] = seq[i]
          BY Zenon, <1>4, <4>1
        <5>2. k \in DOMAIN seq /\ i \in DOMAIN seq /\ k # i
          BY <1>1
        <5> QED
          BY <5>1, <5>2 DEF IsInjective
      <4> QED
        BY <4>1
    <3>4. \A j, k \in 1..Len(w[i]) : w[i][j] = w[i][k] => j = k
      <4>1. \A j \in 1..(n + 1) : j \in 1..n \/ j = n + 1
        BY <3>2
      <4>2. \A j, k \in 1..n : w[i][j] = w[i][k] => j = k
        BY <1>4, <3>2
      <4>3. \A j \in 1..n : w[i][j] # w[i][n + 1]
        BY <3>2, <3>3
      <4> QED
        BY Zenon, <3>2, <4>1, <4>2, <4>3
    <3>5. ASSUME NEW x
          PROVE  (\E j \in 1..Len(w[i]) : w[i][j] = x) <=> (x \in S /\ \E j \in 1..i : seq[j] = x)
      <4> HIDE DEF n
      <4>1. (\E j \in 1..Len(w[i]) : w[i][j] = x) <=> ((\E j \in 1..n : w[i - 1][j] = x) \/ x = seq[i])
        <5>1. \A j \in 1..(n + 1) : j \in 1..n \/ j = n + 1
          BY <3>2
        <5>2. n + 1 \in 1..(n + 1) /\ \A j \in 1..n : j \in 1..(n + 1)
          BY <3>2
        <5> QED
          BY Zenon, <3>2, <5>1, <5>2
      <4>2. (\E j \in 1..i : seq[j] = x) <=> ((\E j \in 1..(i - 1) : seq[j] = x) \/ x = seq[i])
        BY <1>1
      <4> USE DEF n
      <4> QED
        BY Zenon, <1>4, <2>2, <4>1, <4>2
    <3> QED
      BY <3>2, <3>4, <3>5
  <2> QED
    BY <2>1, <2>2
<1>5. Bad = {}
  <2>1. ASSUME Bad # {}
        PROVE  FALSE
    <3>1. PICK i \in Bad : \A j \in Bad : i <= j
      BY <2>1, LeastOf, Bad \subseteq Nat
    <3>2. i \in 0..L /\ ~Selected(i)
      BY <3>1
    <3>3. i # 0
      BY Zenon, <1>3, <3>2
    <3>4. i \in 1..L /\ i - 1 \in 0..L /\ ~(i <= i - 1)
      BY <3>2, <3>3
    <3>5. Selected(i - 1)
      BY Zenon, <3>1, <3>4
    <3> QED
      BY Zenon, <1>4, <3>2, <3>4, <3>5
  <2> QED
    BY Zenon, <2>1
<1>6. Selected(L)
  <2>1. L \in 0..L
    BY <1>1
  <2> HIDE DEF Selected
  <2> QED
    BY <1>5, <2>1
<1>7. IsInjective(w[L])
  BY <1>6 DEF IsInjective
<1>8. ToSet(w[L]) = ToSet(seq) \cap S
  <2>1. \A x : x \in ToSet(w[L]) <=> \E j \in 1..Len(w[L]) : w[L][j] = x
    BY <1>6 DEF ToSet
  <2>2. \A x : x \in ToSet(seq) <=> \E j \in 1..L : seq[j] = x
    BY <1>1 DEF ToSet
  <2> QED
    BY Zenon, <1>6, <2>1, <2>2
<1> QED
  BY <1>2, <1>6, <1>7, <1>8

(* The rules are walked one by one, whatever they say.                     *)
LEMMA EvaluateWalk ==
  ASSUME NEW P, NEW places \in Seq(P), NEW rs, NEW facts
  PROVE  \E w : /\ w[0] = Undecided
                /\ \A i \in 1..Len(places) : w[i] = EvaluateRule(rs, facts, w[i - 1], places[i])
                /\ Evaluate(places, rs, facts) = w[Len(places)]
<1> DEFINE L == Len(places)
           V == {NoOutcome} \cup {rs[p].actions.outcomes[o] : p \in P, o \in Outcomes}
           T == UNION {rs[p].actions.tags : p \in P}
           D == [outcomes : [Outcomes -> V], tags : SUBSET T, matched : Seq(P), over : BOOLEAN]
           F == [step \in D \X (1..L) |-> EvaluateRule(rs, facts, step[1], places[step[2]])]
           Solves(g) == g = [s \in SUBSET DOMAIN places |->
                               IF s = {} THEN Undecided
                               ELSE EvaluateRule(rs, facts, g[s \ {Max(s)}], places[Max(s)])]
           iter == CHOOSE g : Solves(g)
<1>1. L \in Nat /\ DOMAIN places = 1..L /\ \A i \in 1..L : places[i] \in P
  OBVIOUS
<1>2. Undecided \in D
  <2>1. [o \in Outcomes |-> NoOutcome] \in [Outcomes -> V] /\ <<>> \in Seq(P)
    OBVIOUS
  <2> QED
    BY <2>1 DEF Undecided
<1>3. \A d \in D, i \in 1..L : EvaluateRule(rs, facts, d, places[i]) \in D
  <2> HIDE DEF D
  <2> SUFFICES ASSUME NEW d \in D, NEW i \in 1..L
               PROVE  EvaluateRule(rs, facts, d, places[i]) \in D
    OBVIOUS
  <2> USE DEF D
  <2> DEFINE rule == rs[places[i]]
  <2>1. SetIfEmpty(d, rule.actions.outcomes) \in [Outcomes -> V]
    <3>1. \A o \in Outcomes : d.outcomes[o] \in V /\ rule.actions.outcomes[o] \in V
      BY <1>1
    <3> QED
      BY <3>1 DEF SetIfEmpty
  <2>2. d.tags \cup rule.actions.tags \in SUBSET T
    BY <1>1
  <2>3. Append(d.matched, places[i]) \in Seq(P)
    BY <1>1
  <2>4. (~rule.continue) \in BOOLEAN
    OBVIOUS
  <2> HIDE DEF V, T
  <2>5. ApplyActions(d, places[i], rule) \in D
    BY <2>1, <2>2, <2>3, <2>4 DEF ApplyActions
  <2> HIDE DEF D
  <2> QED
    BY <2>5 DEF EvaluateRule
<1> HIDE DEF D
<1>4. F \in [D \X (1..L) -> D]
  BY <1>3
<1>5. \A d \in D, i \in 1..L : F[<<d, i>>] = EvaluateRule(rs, facts, d, places[i])
  OBVIOUS
<1>6. \E g : Solves(g)
  <2> HIDE DEF F
  <2>1. PICK g : IsFold(g, D, Undecided, L, F)
    BY Zenon, <1>1, <1>2, <1>4, FoldExists
  <2>2. ASSUME NEW s \in SUBSET (1..L), s # {}
        PROVE  F[<<g[s \ {Max(s)}], Max(s)>>] = EvaluateRule(rs, facts, g[s \ {Max(s)}], places[Max(s)])
    <3>1. Max(s) \in 1..L
      BY Zenon, <1>1, <2>2, MaxIsIn
    <3>2. g[s \ {Max(s)}] \in D
      BY Zenon, <2>1 DEF IsFold
    <3> QED
      BY <3>1, <3>2, <1>5
  <2>3. Solves(g)
    BY Zenon, <1>1, <2>1, <2>2 DEF IsFold
  <2> QED
    BY Zenon, <2>3
<1>7. Solves(iter)
  BY Zenon, <1>6
<1>8. Evaluate(places, rs, facts) = iter[DOMAIN places]
  BY Zenon DEF Evaluate, FoldLeft, MapThenFoldSet
<1> DEFINE w == [i \in 0..L |-> iter[1..i]]
<1> HIDE DEF iter
<1>9. w[0] = Undecided
  <2>1. 1..0 = {} /\ 0 \in 0..L
    BY <1>1
  <2> QED
    BY <1>7, <2>1
<1>10. ASSUME NEW i \in 1..L
       PROVE  w[i] = EvaluateRule(rs, facts, w[i - 1], places[i])
  <2>1. Max(1..i) = i /\ (1..i) \ {Max(1..i)} = 1..(i - 1) /\ 1..i # {}
    BY MaxUpTo
  <2>2. 1..i \in SUBSET DOMAIN places /\ i \in 0..L /\ i - 1 \in 0..L
    BY <1>1
  <2> QED
    BY Zenon, <1>7, <2>1, <2>2
<1>11. Evaluate(places, rs, facts) = w[L]
  BY <1>1, <1>8
<1> HIDE DEF w
<1> QED
  BY <1>9, <1>10, <1>11

(* What one rule does to a decision.                                       *)
Over(d) == d.over

Goes(rule) == rule.continue

Fires(rule, facts) == rule.active /\ Matches(rule, facts)

LEMMA RuleSteps ==
  ASSUME NEW rs, NEW facts, NEW d, NEW p, NEW e, e = EvaluateRule(rs, facts, d, p)
  PROVE  /\ Over(d) \/ ~Fires(rs[p], facts) => e = d
         /\ ~Over(d) /\ Fires(rs[p], facts) =>
              /\ e.outcomes = SetIfEmpty(d, rs[p].actions.outcomes)
              /\ e.tags = d.tags \cup rs[p].actions.tags
              /\ Over(e) <=> ~Goes(rs[p])
<1>1. ASSUME ~Over(d), Fires(rs[p], facts)
      PROVE  e = ApplyActions(d, p, rs[p])
  BY <1>1 DEF EvaluateRule, Over, Fires
<1>2. ASSUME Over(d) \/ ~Fires(rs[p], facts)
      PROVE  e = d
  BY <1>2 DEF EvaluateRule, Over, Fires
<1>3. ASSUME e = ApplyActions(d, p, rs[p])
      PROVE  /\ e.outcomes = SetIfEmpty(d, rs[p].actions.outcomes)
             /\ e.tags = d.tags \cup rs[p].actions.tags
             /\ Over(e) <=> ~Goes(rs[p])
  <2>1. e.over = (~rs[p].continue)
    BY <1>3 DEF ApplyActions
  <2>2. Over(e) <=> ~Goes(rs[p])
    BY Zenon, <2>1 DEF Over, Goes
  <2> QED
    BY <1>3, <2>2 DEF ApplyActions
<1> QED
  BY <1>1, <1>2, <1>3

-----------------------------------------------------------------------------
(* Evaluate decides what the first of the rules fired that has an outcome  *)
(* says (engine.go), for any rules, report and order: the walk gives what  *)
(* FirstOutcome and Fired say without walking.                             *)
Said(rs, places, i, o) == rs[places[i]].actions.outcomes[o]

IsFirst(F, rs, places, o, k) ==
    /\ k \in F /\ Said(rs, places, k, o) # NoOutcome
    /\ \A j \in F : Said(rs, places, j, o) # NoOutcome => k <= j

LEMMA FirstIsFirst ==
  ASSUME NEW P, NEW places \in Seq(P), NEW rs, NEW facts, NEW o
  PROVE  /\ \A k : IsFirst(Fired(places, rs, facts), rs, places, o, k)
                     => FirstOutcome(places, rs, facts, o) = Said(rs, places, k, o)
         /\ (\A j \in Fired(places, rs, facts) : Said(rs, places, j, o) = NoOutcome)
                     => FirstOutcome(places, rs, facts, o) = NoOutcome
<1> DEFINE F == Fired(places, rs, facts)
           setters == {i \in F : Said(rs, places, i, o) # NoOutcome}
<1>1. FirstOutcome(places, rs, facts, o) =
        IF setters = {} THEN NoOutcome
        ELSE rs[places[CHOOSE i \in setters : \A j \in setters : i <= j]].actions.outcomes[o]
  BY DEF FirstOutcome, Said
<1>2. F \subseteq Nat
  BY DEF Fired, Candidates
<1> HIDE DEF F
<1>3. ASSUME NEW k, IsFirst(F, rs, places, o, k)
      PROVE  FirstOutcome(places, rs, facts, o) = Said(rs, places, k, o)
  <2>1. k \in setters /\ \A j \in setters : k <= j
    BY <1>3 DEF IsFirst
  <2>2. \A i \in setters : (\A j \in setters : i <= j) => i = k
    BY <1>2, <2>1
  <2>3. (CHOOSE i \in setters : \A j \in setters : i <= j) = k
    BY <2>1, <2>2
  <2> QED
    BY Zenon, <1>1, <2>1, <2>3 DEF Said
<1>4. ASSUME \A j \in F : Said(rs, places, j, o) = NoOutcome
      PROVE  FirstOutcome(places, rs, facts, o) = NoOutcome
  BY <1>1, <1>4
<1> QED
  BY <1>3, <1>4 DEF F

THEOREM EvaluateDecides ==
  ASSUME NEW P, NEW places \in Seq(P), NEW rs, NEW facts, NEW d, d = Evaluate(places, rs, facts)
  PROVE  /\ \A o \in Outcomes : d.outcomes[o] = FirstOutcome(places, rs, facts, o)
         /\ d.tags = UNION {rs[places[i]].actions.tags : i \in Fired(places, rs, facts)}
<1> DEFINE L == Len(places)
           C == Candidates(places, rs, facts)
           F == Fired(places, rs, facts)
           Stops1(k) == k \in C /\ ~Goes(rs[places[k]])
<1>1. L \in Nat /\ DOMAIN places = 1..L
  OBVIOUS
<1>2. \A i : i \in C <=> i \in 1..L /\ Fires(rs[places[i]], facts)
  BY <1>1 DEF Candidates, Fires
<1>3. \A i : i \in F <=> i \in C /\ \A k \in C : k < i => Goes(rs[places[k]])
  BY DEF Fired, Goes
<1>4. PICK w : /\ w[0] = Undecided
               /\ \A i \in 1..L : w[i] = EvaluateRule(rs, facts, w[i - 1], places[i])
               /\ Evaluate(places, rs, facts) = w[L]
  BY EvaluateWalk
<1> HIDE DEF C, F
<1> DEFINE Decided(i, o) == \/ /\ w[i].outcomes[o] = NoOutcome
                               /\ \A k \in F : k <= i => Said(rs, places, k, o) = NoOutcome
                            \/ \E k \in F : /\ k <= i /\ IsFirst(F, rs, places, o, k)
                                            /\ w[i].outcomes[o] = Said(rs, places, k, o)
           Right(i) == /\ Over(w[i]) <=> \E k \in C : k <= i /\ ~Goes(rs[places[k]])
                       /\ \A o \in Outcomes : Decided(i, o)
                       /\ \A x : x \in w[i].tags <=> \E k \in F : k <= i /\ x \in rs[places[k]].actions.tags
           Bad == {i \in 0..L : ~Right(i)}
<1>5. Right(0)
  <2>1. \A k \in C : ~(k <= 0)
    BY <1>1, <1>2
  <2>2. \A k \in F : ~(k <= 0)
    BY <2>1, <1>3
  <2>3. ~Over(w[0]) /\ w[0].tags = {} /\ \A o \in Outcomes : w[0].outcomes[o] = NoOutcome
    BY <1>4 DEF Undecided, Over
  <2> QED
    BY <2>1, <2>2, <2>3
<1>6. ASSUME NEW i \in 1..L, Right(i - 1)
      PROVE  Right(i)
  <2> DEFINE rule == rs[places[i]]
  <2>1. w[i] = EvaluateRule(rs, facts, w[i - 1], places[i]) /\ i \in Nat /\ i - 1 \in Nat
    BY <1>1, <1>4
  <2>2. C \subseteq Nat /\ F \subseteq C
    BY <1>1, <1>2, <1>3
  <2>3. \A k \in C : k <= i <=> (k <= i - 1 \/ k = i)
    BY <2>1, <2>2
  <2>4. i \in F <=> Fires(rule, facts) /\ ~Over(w[i - 1])
    <3>1. i \in C <=> Fires(rule, facts)
      BY <1>2
    <3>2. \A k \in C : k < i <=> k <= i - 1
      BY <2>1, <2>2
    <3>3. Over(w[i - 1]) <=> \E k \in C : k <= i - 1 /\ ~Goes(rs[places[k]])
      BY <1>6
    <3> QED
      BY <1>3, <3>1, <3>2, <3>3
  <2>5. CASE i \notin F
    <3>1. w[i] = w[i - 1]
      BY <2>1, <2>4, <2>5, RuleSteps
    <3>2. \A k \in F : k <= i <=> k <= i - 1
      BY <2>2, <2>3, <2>5
    <3>3. Over(w[i]) <=> \E k \in C : k <= i /\ ~Goes(rs[places[k]])
      <4>1. CASE Over(w[i - 1])
        BY <1>6, <2>3, <3>1, <4>1
      <4>2. CASE ~Over(w[i - 1])
        <5>1. i \notin C
          BY <1>2, <2>4, <2>5, <4>2
        <5> QED
          BY <1>6, <2>3, <3>1, <5>1
      <4> QED
        BY <4>1, <4>2
    <3>4. \A o \in Outcomes : Decided(i, o)
      BY <1>6, <3>1, <3>2
    <3>5. \A x : x \in w[i].tags <=> \E k \in F : k <= i /\ x \in rs[places[k]].actions.tags
      BY <1>6, <3>1, <3>2
    <3> QED
      BY <3>3, <3>4, <3>5
  <2>6. CASE i \in F
    <3>1. /\ w[i].outcomes = SetIfEmpty(w[i - 1], rule.actions.outcomes)
          /\ w[i].tags = w[i - 1].tags \cup rule.actions.tags
          /\ Over(w[i]) <=> ~Goes(rule)
      BY <2>1, <2>4, <2>6, RuleSteps
    <3>2. i \in C /\ \A k \in F : k <= i <=> (k <= i - 1 \/ k = i)
      BY <2>2, <2>3, <2>6
    <3>3. Over(w[i]) <=> \E k \in C : k <= i /\ ~Goes(rs[places[k]])
      BY <1>6, <2>3, <2>4, <2>6, <3>1, <3>2
    <3>4. ASSUME NEW o \in Outcomes
          PROVE  Decided(i, o)
      <4>1. w[i].outcomes[o] = IF w[i - 1].outcomes[o] = NoOutcome THEN Said(rs, places, i, o)
                               ELSE w[i - 1].outcomes[o]
        BY <3>1 DEF SetIfEmpty, Said
      <4>2. Decided(i - 1, o)
        BY <1>6
      <4>3. CASE /\ w[i - 1].outcomes[o] = NoOutcome
                 /\ \A k \in F : k <= i - 1 => Said(rs, places, k, o) = NoOutcome
        <5>1. CASE Said(rs, places, i, o) = NoOutcome
          BY <3>2, <4>1, <4>3, <5>1
        <5>2. CASE Said(rs, places, i, o) # NoOutcome
          <6>1. \A j \in F : Said(rs, places, j, o) # NoOutcome => i <= j
            BY <2>1, <2>2, <4>3
          <6>2. IsFirst(F, rs, places, o, i)
            BY <2>6, <5>2, <6>1 DEF IsFirst
          <6> QED
            BY <2>1, <2>6, <4>1, <4>3, <6>2
        <5> QED
          BY <5>1, <5>2
      <4>4. CASE \E k \in F : /\ k <= i - 1 /\ IsFirst(F, rs, places, o, k)
                              /\ w[i - 1].outcomes[o] = Said(rs, places, k, o)
        <5>1. PICK k \in F : /\ k <= i - 1 /\ IsFirst(F, rs, places, o, k)
                             /\ w[i - 1].outcomes[o] = Said(rs, places, k, o)
          BY <4>4
        <5>2. w[i - 1].outcomes[o] # NoOutcome
          BY <5>1 DEF IsFirst
        <5> QED
          BY <3>2, <4>1, <5>1, <5>2
      <4> QED
        BY <4>2, <4>3, <4>4
    <3>5. \A x : x \in w[i].tags <=> \E k \in F : k <= i /\ x \in rs[places[k]].actions.tags
      BY <1>6, <2>6, <3>1, <3>2
    <3> QED
      BY <3>3, <3>4, <3>5
  <2> QED
    BY <2>5, <2>6
<1>7. Bad = {}
  <2>1. ASSUME Bad # {}
        PROVE  FALSE
    <3>1. PICK i \in Bad : \A j \in Bad : i <= j
      BY <2>1, LeastOf, Bad \subseteq Nat
    <3>2. i \in 0..L /\ ~Right(i)
      BY <3>1
    <3> HIDE DEF Right
    <3>3. i \in 1..L /\ i - 1 \in 0..L /\ ~(i <= i - 1)
      BY <1>5, <3>2
    <3>4. Right(i - 1)
      BY <3>1, <3>3
    <3> QED
      BY <1>6, <3>2, <3>3, <3>4
  <2> QED
    BY <2>1
<1>8. Right(L)
  <2>1. L \in 0..L
    BY <1>1
  <2> HIDE DEF Right
  <2> QED
    BY <1>7, <2>1
<1>9. d = w[L] /\ \A k \in F : k <= L
  BY <1>1, <1>2, <1>3, <1>4
<1>10. \A o \in Outcomes : d.outcomes[o] = FirstOutcome(places, rs, facts, o)
  BY <1>8, <1>9, FirstIsFirst DEF F
<1>11. \A x : x \in d.tags <=> \E k \in F : x \in rs[places[k]].actions.tags
  BY <1>8, <1>9
<1> QED
  BY <1>10, <1>11 DEF F
-----------------------------------------------------------------------------
(* Types.  What calls and submissions under way hold is typed as well: it  *)
(* is what they will write.                                                *)

CategoryCallRows == [op : {"SaveCategory"}, pc : {"walk", "existing", "save"}, id : Categories, row : Category,
                     seen : Categories \cup {None}, depth : Nat, new : BOOLEAN, name : Names \cup {NoName}]

CategoryCalls == {at \in CategoryCallRows : at.pc = "walk" => at.seen # None}

RemovalCalls == [op : {"DeleteCategory"}, pc : {"services", "children", "remove"}, id : Categories]

ServiceCalls == [op : {"SaveServiceType"}, pc : {"current", "save"}, id : Services, row : Service]

WithdrawalCalls == [op : {"DeleteServiceType"}, pc : {"archive", "remove"}, id : Services]

FrontCalls == [op : {"SetPromoted"}, pc : {"promote"}, list : {list \in Seq(Services) : Len(list) <= MaxPromoted}]

NoticeCalls == [op : {"SaveCollectionNotice"}, pc : {"publish"}, scope : Services \cup {None}, body : Bodies,
                version : Nat \ {0}]

CatalogueCalls == CategoryCalls \cup RemovalCalls \cup ServiceCalls \cup WithdrawalCalls \cup FrontCalls \cup NoticeCalls

EditFits(at) == at \in CatalogueCalls \/ at.op \in {"idle", "Update", "DeleteQueue", "SaveCalendar"}

EditsOK == /\ edit = [h \in Handlers |-> edit[h]] 
           /\ \A h \in Handlers : EditFits(edit[h])

CatalogueOK == /\ categories \in [Categories -> Category \cup {absent}]
               /\ services \in [Services -> Service \cup {absent}]
               /\ notices \in Seq(Notice)
               /\ load \in Loads

MarksOK == late \subseteq Handlers /\ raced \in BOOLEAN

SavedPolicies == {SavedPolicy(form) : form \in PolicyForms}

DeskOK == /\ rules \in [ToSet(Places) -> Rules \cup {absent}]
          /\ queues \in [Queues -> Queue \cup {absent}]
          /\ staff \subseteq Members
          /\ policies \in [Policies -> SavedPolicies \cup {absent}]
          /\ calendars \in [Calendars -> Calendar \cup {absent}]
          /\ cache \in [Calendars \cup {None} -> Hours \cup {absent}]

TurnsOK == /\ turns \in [Queues -> [Members -> Nat]]
           /\ slips \in [Queues -> Nat]
           /\ overtaken \subseteq Calendars

FilingFields == {"pc", "report", "shown", "row", "category", "fields", "answers", "placed", "tags", "ruled",
                 "eligible", "cursor", "policy", "hours"}

FilingFits(at) ==
    at # idle =>
      /\ at = [k \in FilingFields |-> at[k]] /\ at.pc \in FilingSteps /\ at.report.service \in Services
      /\ at.pc # "read" => /\ at.placed = [o \in Outcomes |-> at.placed[o]]
                           /\ at.placed["queue"] \in Queues \cup {None}
                           /\ at.placed["policy"] \in Policies \cup {None}
      /\ at.pc \in {"queue", "turn", "loads"} => at.placed["queue"] \in Queues
      /\ at.pc \in {"turn", "loads"} => /\ at.eligible \in Seq(ToSet(Users)) /\ at.eligible # <<>>
                                        /\ at.cursor \in 0..(CursorModulus - 1)
      /\ at.pc \in {"hours", "rows", "fill"} => at.policy \in SavedPolicies
      /\ at.pc = "fill" => at.hours \in Hours

FilingsOK == /\ filing = [f \in Filers |-> filing[f]]
             /\ \A f \in Filers : FilingFits(filing[f])

TypeInv == EditsOK /\ CatalogueOK /\ MarksOK /\ DeskOK /\ TurnsOK /\ FilingsOK

LEMMA Apart ==
  /\ absent \notin Category /\ absent \notin Service /\ absent \notin Queue /\ absent \notin Calendar
  /\ absent \notin SavedPolicies /\ idle.op = "idle" /\ DOMAIN idle = {"op"}
<1>1. DOMAIN absent = {"none"}
  BY DEF absent
<1>2. absent \notin Category /\ absent \notin Queue /\ absent \notin Calendar
  BY <1>1 DEF Category, Queue, Calendar
<1>3. absent \notin Service
  BY <1>1 DEF Service
<1>4. ASSUME NEW form \in PolicyForms
      PROVE  SavedPolicy(form) # absent
  <2>1. DOMAIN SavedPolicy(form) = DOMAIN form
    BY DEF SavedPolicy
  <2> QED
    BY <1>1, <2>1, DeskConstants
<1>5. idle.op = "idle" /\ DOMAIN idle = {"op"}
  BY DEF idle
<1> QED
  BY <1>2, <1>3, <1>4, <1>5 DEF SavedPolicies

LEMMA PoliciesHaveCalendars ==
  ASSUME NEW p \in SavedPolicies
  PROVE  p.calendar \in Calendars \cup {None}
<1>1. PICK form \in PolicyForms : p = SavedPolicy(form)
  BY DEF SavedPolicies
<1>2. p.calendar = form.calendar
  BY <1>1 DEF SavedPolicy
<1> QED
  BY <1>2, DeskConstants

LEMMA TypeInit == Init => TypeInv
<1> SUFFICES ASSUME Init
             PROVE  TypeInv
  OBVIOUS
<1>1. EditsOK
  BY Apart DEF Init, EditsOK, EditFits
<1>2. CatalogueOK
  BY CatalogueConstants DEF Init, CatalogueOK
<1>3. MarksOK
  BY Zenon DEF Init, MarksOK
<1>4. DeskOK
  BY TriageConstants DEF Init, DeskOK, SavedPolicies
<1>5. TurnsOK
  BY DEF Init, TurnsOK
<1>6. FilingsOK
  BY DEF Init, FilingsOK, FilingFits
<1> QED
  BY <1>1, <1>2, <1>3, <1>4, <1>5, <1>6 DEF TypeInv

LEMMA CallsAre ==
  ASSUME NEW at, EditFits(at)
  PROVE  /\ at.op = "SaveCategory" => at \in CategoryCalls
         /\ at.op = "DeleteCategory" => at \in RemovalCalls
         /\ at.op = "SaveServiceType" => at \in ServiceCalls
         /\ at.op = "DeleteServiceType" => at \in WithdrawalCalls
         /\ at.op = "SetPromoted" => at \in FrontCalls
         /\ at.op = "SaveCollectionNotice" => at \in NoticeCalls
BY DEF EditFits, CatalogueCalls, CategoryCalls, CategoryCallRows, RemovalCalls, ServiceCalls, WithdrawalCalls, FrontCalls,
       NoticeCalls

LEMMA OpsOfCalls ==
  ASSUME NEW at, EditFits(at)
  PROVE  at.op \in CatalogueOps <=> at \in CatalogueCalls
BY DEF EditFits, CatalogueCalls, CategoryCalls, CategoryCallRows, RemovalCalls, ServiceCalls, WithdrawalCalls, FrontCalls,
       NoticeCalls,
       CatalogueOps

(* A step of one call that leaves the tables alone, and one that commits.  *)
Quiet(h, v) == /\ edit' = [edit EXCEPT ![h] = v]
               /\ UNCHANGED <<tables, named, raced, load>>
               /\ late' = late \/ late' = late \ {h}

LEMMA TypeOneEdit ==
  ASSUME EditsOK, NEW h \in Handlers, NEW v, EditFits(v), edit' = [edit EXCEPT ![h] = v]
  PROVE  EditsOK'
<1>1. \A g \in Handlers : edit'[g] = IF g = h THEN v ELSE edit[g]
  BY DEF EditsOK
<1>2. edit' = [g \in Handlers |-> edit'[g]]
  BY DEF EditsOK
<1>3. ASSUME NEW g \in Handlers, NEW at, at = edit'[g]
      PROVE  EditFits(at)
  BY <1>1, <1>3 DEF EditsOK
<1> QED
  BY <1>2, <1>3 DEF EditsOK, EditFits

LEMMA BeginIsQuiet ==
  ASSUME NEW h \in Handlers, NEW call, Begin(h, call)
  PROVE  Quiet(h, call) /\ edit[h] = idle
BY DEF Begin, Quiet

LEMMA GotoIsQuiet ==
  ASSUME EditsOK, NEW h \in Handlers, NEW pc, Goto(h, pc)
  PROVE  Quiet(h, [edit[h] EXCEPT !.pc = pc])
BY DEF EditsOK, Goto, Quiet, history

LEMMA RefuseIsQuiet ==
  ASSUME NEW h \in Handlers, Refuse(h)
  PROVE  Quiet(h, idle) /\ EditFits(idle)
BY Apart DEF Refuse, Quiet, EditFits

LEMMA CategoryIs ==
  ASSUME CatalogueOK, NEW c \in Categories, categories[c] # absent
  PROVE  /\ categories[c] \in Category /\ categories[c].name \in Names
         /\ categories[c].parent \in Categories \cup {None}
BY DEF CatalogueOK, Category

LEMMA NewServiceRows ==
  ASSUME NEW form \in Form, NEW label \in Names \cup {NoName}
  PROVE  [form |-> form, promoted |-> FALSE, order |-> 0, label |-> label] \in Service
<1>1. 0 \in 0..(MaxPromoted - 1)
  BY CatalogueConstants
<1> QED
  BY <1>1 DEF Service

(* The calls as they begin.                                                *)
CategoryCall(c, row) ==
    [op |-> "SaveCategory", pc |-> IF row.parent = None THEN "existing" ELSE "walk",
     id |-> c, row |-> row, seen |-> row.parent, depth |-> 0,
     new |-> categories[c] = absent, name |-> NoName]

RemovalCall(c) == [op |-> "DeleteCategory", pc |-> "services", id |-> c]

ServiceCall(s, form) ==
    [op |-> "SaveServiceType", pc |-> IF services[s] = absent THEN "save" ELSE "current", id |-> s,
     row |-> [form |-> form, promoted |-> FALSE, order |-> 0,
              label |-> IF form.category = None THEN NoName ELSE categories[form.category].name]]

WithdrawalCall(s) == [op |-> "DeleteServiceType", pc |-> IF Used(s) THEN "archive" ELSE "remove", id |-> s]

FrontCall(list) == [op |-> "SetPromoted", pc |-> "promote", list |-> list]

NoticeCall(scope, body, previous) ==
    [op |-> "SaveCollectionNotice", pc |-> "publish", scope |-> scope, body |-> body,
     version |-> IF previous = absent THEN 1 ELSE previous.version + 1]

LEMMA SaveCategoryBegins ==
  ASSUME CatalogueOK, NEW h \in Handlers, NEW c \in Categories, NEW row \in Category, SaveCategory(h, c, row)
  PROVE  /\ Quiet(h, CategoryCall(c, row)) /\ edit[h] = idle /\ late' = late \ {h}
         /\ CategoryCall(c, row) \in CategoryCalls
<1>1. Begin(h, CategoryCall(c, row))
  BY DEF SaveCategory, CategoryCall
<1>2. row.parent \in Categories \cup {None} /\ (categories[c] = absent) \in BOOLEAN
  BY DEF Category
<1>3. CategoryCall(c, row) \in CategoryCallRows
  BY <1>2 DEF CategoryCall, CategoryCallRows
<1>4. CategoryCall(c, row).pc = "walk" => CategoryCall(c, row).seen # None
  BY DEF CategoryCall
<1> QED
  BY Zenon, <1>1, <1>3, <1>4, BeginIsQuiet DEF Begin, CategoryCalls

LEMMA DeleteCategoryBegins ==
  ASSUME NEW h \in Handlers, NEW c \in Categories, DeleteCategory(h, c)
  PROVE  /\ Quiet(h, RemovalCall(c)) /\ edit[h] = idle /\ late' = late \ {h}
         /\ RemovalCall(c) \in RemovalCalls
<1>1. Begin(h, RemovalCall(c))
  BY DEF DeleteCategory, RemovalCall
<1> QED
  BY Zenon, <1>1, BeginIsQuiet DEF Begin, RemovalCall, RemovalCalls

LEMMA SaveServiceBegins ==
  ASSUME CatalogueOK, NEW h \in Handlers, NEW s \in Services, NEW form \in load.forms, SaveServiceType(h, s, form)
  PROVE  /\ Quiet(h, ServiceCall(s, form)) /\ edit[h] = idle /\ late' = late \ {h}
         /\ ServiceCall(s, form) \in ServiceCalls /\ form \in Form
         /\ form.category # None => categories[form.category] # absent
<1>1. Begin(h, ServiceCall(s, form))
  BY DEF SaveServiceType, ServiceCall
<1>2. form \in Form
  BY CatalogueConstants DEF CatalogueOK, SaveServiceType
<1>3. form.category # None => categories[form.category] # absent
  BY DEF SaveServiceType
<1>4. form.category \in Categories \cup {None}
  BY <1>2 DEF Form
<1> DEFINE label == IF form.category = None THEN NoName ELSE categories[form.category].name
<1>5. label \in Names \cup {NoName}
  BY <1>3, <1>4, CategoryIs
<1> HIDE DEF label
<1>6. [form |-> form, promoted |-> FALSE, order |-> 0, label |-> label] \in Service
  BY <1>2, <1>5, NewServiceRows
<1>7. ServiceCall(s, form) \in ServiceCalls
  BY <1>6 DEF ServiceCall, ServiceCalls, label
<1> QED
  BY Zenon, <1>1, <1>2, <1>3, <1>7, BeginIsQuiet DEF Begin

LEMMA DeleteServiceBegins ==
  ASSUME NEW h \in Handlers, NEW s \in Services, DeleteServiceType(h, s)
  PROVE  /\ Quiet(h, WithdrawalCall(s)) /\ edit[h] = idle /\ late' = late \ {h}
         /\ WithdrawalCall(s) \in WithdrawalCalls
<1>1. Begin(h, WithdrawalCall(s))
  BY DEF DeleteServiceType, WithdrawalCall
<1> QED
  BY Zenon, <1>1, BeginIsQuiet DEF Begin, WithdrawalCall, WithdrawalCalls

LEMMA SetPromotedBegins ==
  ASSUME CatalogueOK, NEW h \in Handlers, NEW list \in load.lists, SetPromoted(h, list)
  PROVE  /\ Quiet(h, FrontCall(list)) /\ edit[h] = idle /\ late' = late \ {h}
         /\ FrontCall(list) \in FrontCalls
<1>1. Begin(h, FrontCall(list)) /\ Len(list) <= MaxPromoted
  BY DEF SetPromoted, FrontCall
<1>2. list \in Seq(Services)
  BY CatalogueConstants DEF CatalogueOK
<1> QED
  BY Zenon, <1>1, <1>2, BeginIsQuiet DEF Begin, FrontCall, FrontCalls

LEMMA SaveNoticeBegins ==
  ASSUME CatalogueOK, NEW h \in Handlers, NEW scope \in Services \cup {None}, NEW body \in Bodies,
         SaveCollectionNotice(h, scope, body)
  PROVE  \E previous \in IF InScope(scope) = {} THEN {absent} ELSE {notices[i] : i \in Latest(scope)} :
           /\ Quiet(h, NoticeCall(scope, body, previous)) /\ edit[h] = idle /\ late' = late \ {h}
           /\ NoticeCall(scope, body, previous) \in NoticeCalls
<1>1. PICK previous \in IF InScope(scope) = {} THEN {absent} ELSE {notices[i] : i \in Latest(scope)} :
        Begin(h, NoticeCall(scope, body, previous))
  BY Zenon DEF SaveCollectionNotice, NoticeCall
<1>2. previous # absent => previous.version \in Nat
  <2>1. CASE InScope(scope) = {}
    BY <1>1, <2>1
  <2>2. CASE InScope(scope) # {}
    <3>1. PICK i \in Latest(scope) : previous = notices[i]
      BY <1>1, <2>2
    <3>2. i \in DOMAIN notices
      BY <3>1 DEF Latest, InScope
    <3>3. notices[i] \in Notice
      BY <3>2 DEF CatalogueOK
    <3>4. notices[i].version \in Nat
      BY <3>3 DEF Notice
    <3> QED
      BY <3>1, <3>4
  <2> QED
    BY <2>1, <2>2
<1> DEFINE version == IF previous = absent THEN 1 ELSE previous.version + 1
<1>3. version \in Nat \ {0}
  BY <1>2
<1> HIDE DEF version
<1>4. NoticeCall(scope, body, previous) \in NoticeCalls
  BY <1>3 DEF NoticeCall, NoticeCalls, version
<1> QED
  BY Zenon, <1>1, <1>4, BeginIsQuiet DEF Begin

(* How a call goes on, with the tables as they are.                        *)
WalksOn(at, v) ==
    \/ /\ v = [at EXCEPT !.pc = "existing"]
       /\ \/ categories[at.seen] = absent /\ at.depth # 0
          \/ categories[at.seen] # absent /\ categories[at.seen].parent = None
    \/ /\ v = [at EXCEPT !.seen = categories[at.seen].parent, !.depth = @ + 1]
       /\ categories[at.seen] # absent /\ categories[at.seen].parent # None
       /\ ~Loops(at)

LEMMA WalkGoesOn ==
  ASSUME EditsOK, CatalogueOK, NEW h \in Handlers, Walk(h)
  PROVE  /\ edit[h] \in CategoryCalls /\ edit[h].pc = "walk"
         /\ \/ Quiet(h, idle)
            \/ \E v \in CategoryCalls : Quiet(h, v) /\ WalksOn(edit[h], v) /\ late' = late
<1> DEFINE at == edit[h]
<1>1. at \in CategoryCalls /\ at.pc = "walk"
  BY CallsAre DEF EditsOK, Walk, At
<1>2. [at EXCEPT !.pc = "existing"] \in CategoryCalls
  BY <1>1 DEF CategoryCalls, CategoryCallRows
<1>3. ASSUME Refuse(h)
      PROVE  Quiet(h, idle)
  BY <1>3, RefuseIsQuiet
<1>4. ASSUME Goto(h, "existing"), \/ categories[at.seen] = absent /\ at.depth # 0
                                  \/ categories[at.seen] # absent /\ categories[at.seen].parent = None
      PROVE  \E v \in CategoryCalls : Quiet(h, v) /\ WalksOn(at, v) /\ late' = late
  BY Zenon, <1>2, <1>4, GotoIsQuiet DEF WalksOn, Goto, history
<1>5. ASSUME edit' = [edit EXCEPT ![h].seen = categories[at.seen].parent, ![h].depth = @ + 1],
             UNCHANGED <<tables, requests, edits, history, load>>,
             categories[at.seen] # absent, categories[at.seen].parent # None, ~Loops(at)
      PROVE  \E v \in CategoryCalls : Quiet(h, v) /\ WalksOn(at, v) /\ late' = late
  <2> DEFINE v == [at EXCEPT !.seen = categories[at.seen].parent, !.depth = @ + 1]
  <2>1. at \in CategoryCallRows /\ at.seen \in Categories /\ at.depth \in Nat
    BY <1>1 DEF CategoryCalls, CategoryCallRows
  <2>2. categories[at.seen].parent \in Categories
    BY <2>1, <1>5, CategoryIs
  <2>3. v \in CategoryCalls
    <3>1. v \in CategoryCallRows
      <4> DEFINE seen == categories[at.seen].parent
                 depth == at.depth + 1
      <4>1. seen \in Categories /\ depth \in Nat
        BY <2>1, <2>2
      <4> HIDE DEF seen, depth
      <4>2. [at EXCEPT !.seen = seen, !.depth = depth] \in CategoryCallRows
        BY Zenon, <2>1, <4>1 DEF CategoryCallRows
      <4> QED
        BY <4>2 DEF seen, depth
    <3>2. v.seen # None
      BY <1>5, <2>1 DEF CategoryCallRows
    <3> QED
      BY Zenon, <3>1, <3>2 DEF CategoryCalls
  <2>4. edit' = [edit EXCEPT ![h] = v]
    BY Zenon, <1>5
  <2>5. Quiet(h, v) /\ late' = late
    BY Zenon, <1>5, <2>4 DEF Quiet, history
  <2>6. WalksOn(at, v)
    BY <1>5 DEF WalksOn
  <2> QED
    BY <2>3, <2>5, <2>6
<1> QED
  BY <1>1, <1>3, <1>4, <1>5 DEF Walk
(* What a step of a call that does not write found.                        *)
Renames(at, v) ==
    \/ v = [at EXCEPT !.pc = "save"] /\ at.new
    \/ /\ v = [at EXCEPT !.pc = "save", !.name = categories[at.id].name]
       /\ ~at.new /\ categories[at.id] # absent

LEMMA ExistingGoesOn ==
  ASSUME EditsOK, CatalogueOK, NEW h \in Handlers, ReadExisting(h)
  PROVE  /\ edit[h] \in CategoryCalls /\ edit[h].pc = "existing"
         /\ \/ Quiet(h, idle)
            \/ \E v \in CategoryCalls : Quiet(h, v) /\ Renames(edit[h], v) /\ late' = late
<1> DEFINE at == edit[h]
<1>1. at \in CategoryCalls /\ at.pc = "existing"
  BY CallsAre DEF EditsOK, ReadExisting, At
<1>2. at \in CategoryCallRows /\ at.id \in Categories
  BY <1>1 DEF CategoryCalls, CategoryCallRows
<1>3. ASSUME Refuse(h)
      PROVE  Quiet(h, idle)
  BY <1>3, RefuseIsQuiet
<1>4. ASSUME Goto(h, "save"), at.new
      PROVE  \E v \in CategoryCalls : Quiet(h, v) /\ Renames(at, v) /\ late' = late
  <2> DEFINE v == [at EXCEPT !.pc = "save"]
  <2>1. v \in CategoryCallRows /\ v.pc = "save"
    BY <1>2 DEF CategoryCallRows
  <2>2. v \in CategoryCalls
    BY Zenon, <2>1 DEF CategoryCalls
  <2>3. Quiet(h, v) /\ late' = late
    BY Zenon, <1>4, GotoIsQuiet DEF Goto, history
  <2>4. Renames(at, v)
    BY <1>4 DEF Renames
  <2> QED
    BY <2>2, <2>3, <2>4
<1>5. ASSUME edit' = [edit EXCEPT ![h].pc = "save", ![h].name = categories[at.id].name],
             UNCHANGED <<tables, requests, edits, history, load>>, ~at.new, categories[at.id] # absent
      PROVE  \E v \in CategoryCalls : Quiet(h, v) /\ Renames(at, v) /\ late' = late
  <2> DEFINE name == categories[at.id].name
             v == [at EXCEPT !.pc = "save", !.name = name]
  <2>1. name \in Names
    BY <1>2, <1>5, CategoryIs
  <2>2. edit' = [edit EXCEPT ![h] = v]
    BY Zenon, <1>5
  <2>3. Renames(at, v)
    BY <1>5 DEF Renames
  <2> HIDE DEF name
  <2>4. v \in CategoryCallRows /\ v.pc = "save"
    BY Zenon, <1>2, <2>1 DEF CategoryCallRows
  <2>5. v \in CategoryCalls
    BY Zenon, <2>4 DEF CategoryCalls
  <2>6. Quiet(h, v) /\ late' = late
    BY Zenon, <1>5, <2>2 DEF Quiet, history
  <2> QED
    BY <2>3, <2>5, <2>6
<1> QED
  BY <1>1, <1>3, <1>4, <1>5 DEF ReadExisting

LEMMA CountsGoOn ==
  ASSUME EditsOK, NEW h \in Handlers, CountServices(h) \/ CountChildren(h)
  PROVE  /\ edit[h] \in RemovalCalls
         /\ \/ Quiet(h, idle)
            \/ \E pc \in {"children", "remove"} :
                 /\ [edit[h] EXCEPT !.pc = pc] \in RemovalCalls
                 /\ Quiet(h, [edit[h] EXCEPT !.pc = pc]) /\ late' = late
                 /\ \/ /\ pc = "children" /\ edit[h].pc = "services"
                       /\ \A s \in Services : services[s] # absent => services[s].form.category # edit[h].id
                    \/ /\ pc = "remove" /\ edit[h].pc = "children"
                       /\ \A c \in Categories : categories[c] # absent => categories[c].parent # edit[h].id
<1>1. edit[h] \in RemovalCalls
  BY CallsAre DEF EditsOK, CountServices, CountChildren, At
<1>2. \A pc \in {"children", "remove"} : [edit[h] EXCEPT !.pc = pc] \in RemovalCalls
  BY <1>1 DEF RemovalCalls
<1>3. \A pc \in {"children", "remove"} : Goto(h, pc) => Quiet(h, [edit[h] EXCEPT !.pc = pc]) /\ late' = late
  BY Zenon, GotoIsQuiet DEF Goto, history
<1>4. Refuse(h) => Quiet(h, idle)
  BY RefuseIsQuiet
<1>5. CASE CountServices(h)
  BY <1>1, <1>2, <1>3, <1>4, <1>5 DEF CountServices, At
<1>6. CASE CountChildren(h)
  BY <1>1, <1>2, <1>3, <1>4, <1>6 DEF CountChildren, At
<1> QED
  BY <1>5, <1>6

Keeps(at, v) ==
    LET now == services[at.id]
    IN  v = [at EXCEPT !.pc = "save", !.row.promoted = now # absent /\ now.promoted,
                       !.row.order = IF now = absent THEN 0 ELSE now.order]

LEMMA CurrentGoesOn ==
  ASSUME EditsOK, CatalogueOK, NEW h \in Handlers, ReadCurrent(h)
  PROVE  /\ edit[h] \in ServiceCalls /\ edit[h].pc = "current"
         /\ \E v \in ServiceCalls : Quiet(h, v) /\ Keeps(edit[h], v) /\ late' = late
<1> DEFINE at == edit[h]
           now == services[at.id]
           promoted == now # absent /\ now.promoted
           order == IF now = absent THEN 0 ELSE now.order
           row == [at.row EXCEPT !.promoted = promoted, !.order = order]
           v == [at EXCEPT !.pc = "save", !.row = row]
<1>1. at \in ServiceCalls /\ at.pc = "current"
  BY CallsAre DEF EditsOK, ReadCurrent, At
<1>2. at.id \in Services /\ at.row \in Service
  BY <1>1 DEF ServiceCalls
<1>3. promoted \in BOOLEAN
  OBVIOUS
<1>4. order \in 0..(MaxPromoted - 1)
  <2>1. now # absent => now \in Service
    BY <1>2 DEF CatalogueOK
  <2>2. 0 \in 0..(MaxPromoted - 1)
    BY CatalogueConstants
  <2> QED
    BY <2>1, <2>2 DEF Service
<1>5. v = [at EXCEPT !.pc = "save", !.row.promoted = now # absent /\ now.promoted,
                     !.row.order = IF now = absent THEN 0 ELSE now.order]
  BY Zenon, <1>1, <1>2 DEF ServiceCalls, Service
<1>6. edit' = [edit EXCEPT ![h].pc = "save", ![h].row.promoted = now # absent /\ now.promoted,
                           ![h].row.order = IF now = absent THEN 0 ELSE now.order]
  BY DEF ReadCurrent
<1>7. edit' = [edit EXCEPT ![h] = v]
  BY Zenon, <1>1, <1>2, <1>6 DEF ServiceCalls, Service
<1>8. Keeps(at, v)
  BY <1>5 DEF Keeps
<1>9. Quiet(h, v) /\ late' = late
  <2>1. UNCHANGED <<tables, requests, edits, history, load>>
    BY DEF ReadCurrent
  <2> HIDE DEF v
  <2> QED
    BY <1>7, <2>1 DEF Quiet, history
<1> HIDE DEF promoted, order
<1>10. row \in Service
  BY Zenon, <1>2, <1>3, <1>4 DEF Service
<1>11. v \in ServiceCalls
  <2> HIDE DEF row
  <2> QED
    BY Zenon, <1>1, <1>10 DEF ServiceCalls
<1> HIDE DEF v
<1> QED
  BY <1>1, <1>8, <1>9, <1>11
-----------------------------------------------------------------------------
(* Calls that commit.                                                      *)
CommitStep(h) ==
    \/ WriteCategory(h) \/ RemoveCategory(h) \/ WriteServiceType(h)
    \/ Archive(h) \/ RemoveServiceType(h) \/ Promote(h) \/ PublishNotice(h)

LEMMA CommitsAreDone ==
  ASSUME NEW h \in Handlers, CommitStep(h)
  PROVE  Done(h)
BY DEF CommitStep, WriteCategory, RemoveCategory, WriteServiceType, Archive, RemoveServiceType, Promote, PublishNotice

LEMMA SupersededAre ==
  ASSUME CatalogueOK, NEW scope
  PROVE  /\ Superseded(scope) \in Seq(Notice) /\ Len(Superseded(scope)) = Len(notices)
         /\ \A i \in 1..Len(notices) : Superseded(scope)[i] = IF notices[i].scope = scope
                                       THEN [notices[i] EXCEPT !.superseded = TRUE] ELSE notices[i]
<1>1. notices \in Seq(Notice) /\ Len(notices) \in Nat /\ DOMAIN notices = 1..Len(notices)
  BY DEF CatalogueOK
<1>2. \A i \in 1..Len(notices) : notices[i] \in Notice
  BY <1>1
<1> DEFINE n(i) == IF notices[i].scope = scope THEN [notices[i] EXCEPT !.superseded = TRUE] ELSE notices[i]
<1>3. \A i \in 1..Len(notices) : n(i) \in Notice
  BY Zenon, <1>2 DEF Notice
<1>4. Superseded(scope) = [i \in 1..Len(notices) |-> n(i)]
  BY <1>1 DEF Superseded
<1> HIDE DEF n
<1>5. Superseded(scope) \in Seq(Notice) /\ Len(Superseded(scope)) = Len(notices)
  BY <1>1, <1>3, <1>4
<1> USE DEF n
<1> QED
  BY <1>4, <1>5

LEMMA PublishedAre ==
  ASSUME CatalogueOK, EditsOK, NEW h \in Handlers, PublishNotice(h)
  PROVE  /\ edit[h] \in NoticeCalls
         /\ notices' \in Seq(Notice) /\ Len(notices') = Len(notices) + 1
         /\ \A i \in 1..Len(notices) : notices'[i] = IF notices[i].scope = edit[h].scope
                                       THEN [notices[i] EXCEPT !.superseded = TRUE] ELSE notices[i]
         /\ notices'[Len(notices) + 1] = [scope |-> edit[h].scope, version |-> edit[h].version,
                                          body |-> edit[h].body, superseded |-> FALSE]
<1> DEFINE at == edit[h]
           one == [scope |-> at.scope, version |-> at.version, body |-> at.body, superseded |-> FALSE]
           S == Superseded(at.scope)
<1>1. at \in NoticeCalls
  BY CallsAre DEF EditsOK, PublishNotice, At
<1>2. one \in Notice
  BY <1>1 DEF NoticeCalls, Notice
<1>3. notices' = Append(S, one)
  BY DEF PublishNotice
<1>4. S \in Seq(Notice) /\ Len(S) = Len(notices) /\ Len(notices) \in Nat
  BY SupersededAre DEF CatalogueOK
<1>5. \A i \in 1..Len(notices) : S[i] = IF notices[i].scope = at.scope
                                       THEN [notices[i] EXCEPT !.superseded = TRUE] ELSE notices[i]
  BY SupersededAre
<1> HIDE DEF S, one
<1>6. notices' \in Seq(Notice) /\ Len(notices') = Len(notices) + 1 /\ notices'[Len(notices) + 1] = one
  BY <1>2, <1>3, <1>4
<1>7. \A i \in 1..Len(notices) : notices'[i] = S[i]
  BY <1>2, <1>3, <1>4
<1> QED
  BY Zenon, <1>1, <1>5, <1>6, <1>7 DEF one

LEMMA PromotedAre ==
  ASSUME CatalogueOK, NEW list \in Seq(Services), Len(list) <= MaxPromoted
  PROVE  /\ Promoted(list) \in [Services -> Service \cup {absent}]
         /\ \A s \in Services :
              /\ Promoted(list)[s] = absent <=> services[s] = absent
              /\ services[s] # absent => /\ Promoted(list)[s].form = services[s].form
                                         /\ Promoted(list)[s].label = services[s].label
                                         /\ Promoted(list)[s].promoted => \E i \in 1..Len(list) :
                                               /\ list[i] = s /\ Promoted(list)[s].order = i - 1
<1> DEFINE place(s) == CHOOSE i \in DOMAIN list : list[i] = s
<1>1. ASSUME NEW s \in ToSet(list)
      PROVE  place(s) \in 1..Len(list) /\ list[place(s)] = s /\ place(s) - 1 \in 0..(MaxPromoted - 1)
  <2>1. \E i \in DOMAIN list : list[i] = s
    BY DEF ToSet
  <2>2. place(s) \in DOMAIN list /\ list[place(s)] = s
    BY <2>1
  <2> HIDE DEF place
  <2> QED
    BY <2>2, CatalogueConstants
<1>2. ASSUME NEW s \in Services
      PROVE  /\ Promoted(list)[s] \in Service \cup {absent}
             /\ Promoted(list)[s] = absent <=> services[s] = absent
             /\ services[s] # absent => /\ Promoted(list)[s].form = services[s].form
                                        /\ Promoted(list)[s].label = services[s].label
                                        /\ Promoted(list)[s].promoted => \E i \in 1..Len(list) :
                                              /\ list[i] = s /\ Promoted(list)[s].order = i - 1
  <2>1. CASE services[s] = absent
    BY <2>1 DEF Promoted
  <2>2. CASE services[s] # absent
    <3>1. services[s] \in Service
      BY <2>2 DEF CatalogueOK
    <3>2. CASE s \in ToSet(list)
      <4> DEFINE order == place(s) - 1
      <4>1. Promoted(list)[s] = [services[s] EXCEPT !.promoted = TRUE, !.order = order]
        BY <2>2, <3>2 DEF Promoted
      <4>2. order \in 0..(MaxPromoted - 1) /\ \E i \in 1..Len(list) : list[i] = s /\ order = i - 1
        BY Zenon, <3>2, <1>1
      <4> HIDE DEF order
      <4>3. Promoted(list)[s] \in Service
        BY Zenon, <3>1, <4>1, <4>2 DEF Service
      <4>4. Promoted(list)[s] # absent
        BY <4>3, Apart
      <4>5. Promoted(list)[s].form = services[s].form /\ Promoted(list)[s].label = services[s].label
            /\ Promoted(list)[s].order = order
        BY <3>1, <4>1 DEF Service
      <4> QED
        BY <2>2, <4>2, <4>3, <4>4, <4>5
    <3>3. CASE s \notin ToSet(list) /\ services[s].promoted
      <4>1. Promoted(list)[s] = [services[s] EXCEPT !.promoted = FALSE, !.order = 0]
        BY <2>2, <3>3 DEF Promoted
      <4>2. 0 \in 0..(MaxPromoted - 1)
        BY CatalogueConstants
      <4>3. Promoted(list)[s] \in Service
        BY Zenon, <3>1, <4>1, <4>2 DEF Service
      <4>4. Promoted(list)[s] # absent
        BY <4>3, Apart
      <4>5. Promoted(list)[s].form = services[s].form /\ Promoted(list)[s].label = services[s].label
            /\ Promoted(list)[s].promoted = FALSE
        BY <3>1, <4>1 DEF Service
      <4> QED
        BY <2>2, <4>3, <4>4, <4>5
    <3>4. CASE s \notin ToSet(list) /\ ~services[s].promoted
      BY <2>2, <3>1, <3>4 DEF Promoted
    <3> QED
      BY <3>2, <3>3, <3>4
  <2> QED
    BY <2>1, <2>2
<1>3. Promoted(list) = [s \in Services |-> Promoted(list)[s]]
  BY DEF Promoted
<1> QED
  BY <1>2, <1>3
LEMMA RelabelledAre ==
  ASSUME CatalogueOK, NEW c \in Categories, NEW name \in Names
  PROVE  /\ Relabelled(c, name) \in [Services -> Service \cup {absent}]
         /\ \A s \in Services :
              /\ Relabelled(c, name)[s] = absent <=> services[s] = absent
              /\ services[s] # absent => /\ Relabelled(c, name)[s].form = services[s].form
                                         /\ Relabelled(c, name)[s].promoted = services[s].promoted
                                         /\ Relabelled(c, name)[s].order = services[s].order
                                         /\ Relabelled(c, name)[s].label = IF services[s].form.category = c
                                                                           THEN name ELSE services[s].label
<1>1. ASSUME NEW s \in Services, services[s] # absent, services[s].form.category = c
      PROVE  /\ Relabelled(c, name)[s] = [services[s] EXCEPT !.label = name]
             /\ Relabelled(c, name)[s] \in Service
  <2>1. services[s] \in Service
    BY <1>1 DEF CatalogueOK
  <2>2. Relabelled(c, name)[s] = [services[s] EXCEPT !.label = name]
    BY <1>1 DEF Relabelled
  <2> QED
    BY <2>1, <2>2 DEF Service
<1>2. ASSUME NEW s \in Services, services[s] = absent \/ services[s].form.category # c
      PROVE  Relabelled(c, name)[s] = services[s]
  BY <1>2 DEF Relabelled
<1>3. \A s \in Services : services[s] \in Service \cup {absent}
  BY DEF CatalogueOK
<1>4. Relabelled(c, name) = [s \in Services |-> Relabelled(c, name)[s]]
  BY DEF Relabelled
<1>5. \A s \in Services : Relabelled(c, name)[s] \in Service \cup {absent}
  BY Zenon, <1>1, <1>2, <1>3
<1>6. ASSUME NEW s \in Services
      PROVE  /\ Relabelled(c, name)[s] = absent <=> services[s] = absent
             /\ services[s] # absent => /\ Relabelled(c, name)[s].form = services[s].form
                                         /\ Relabelled(c, name)[s].promoted = services[s].promoted
                                         /\ Relabelled(c, name)[s].order = services[s].order
                                         /\ Relabelled(c, name)[s].label = IF services[s].form.category = c
                                                                           THEN name ELSE services[s].label
  <2>1. CASE services[s] = absent \/ services[s].form.category # c
    BY <1>2, <2>1
  <2>2. CASE services[s] # absent /\ services[s].form.category = c
    <3>1. services[s] \in Service
      BY <1>3, <2>2
    <3>2. Relabelled(c, name)[s] # absent
      BY Zenon, <1>1, <2>2, Apart
    <3>3. /\ Relabelled(c, name)[s].form = services[s].form
          /\ Relabelled(c, name)[s].promoted = services[s].promoted
          /\ Relabelled(c, name)[s].order = services[s].order
          /\ Relabelled(c, name)[s].label = name
      BY Zenon, <1>1, <2>2, <3>1 DEF Service
    <3> QED
      BY <2>2, <3>2, <3>3
  <2> QED
    BY <2>1, <2>2
<1> QED
  BY <1>4, <1>5, <1>6

LEMMA ArchivedAre ==
  ASSUME CatalogueOK, NEW s \in Services, services[s] # absent
  PROVE  LET v == [services EXCEPT ![s].form.state = "archived", ![s].promoted = FALSE]
         IN  /\ v \in [Services -> Service \cup {absent}] /\ v[s] # absent
             /\ v[s].form.category = services[s].form.category /\ v[s].label = services[s].label
             /\ v[s].promoted = FALSE /\ \A t \in Services : t # s => v[t] = services[t]
<1>1. services[s] \in Service /\ services \in [Services -> Service \cup {absent}]
  BY DEF CatalogueOK
<1> DEFINE form == [services[s].form EXCEPT !.state = "archived"]
           row == [services[s] EXCEPT !.form = form, !.promoted = FALSE]
           v == [services EXCEPT ![s].form.state = "archived", ![s].promoted = FALSE]
<1>2. form \in Form /\ form.category = services[s].form.category
  BY <1>1 DEF Service, Form, PublishStates
<1>3. v = [services EXCEPT ![s] = row]
  BY Zenon, <1>1 DEF Service
<1> HIDE DEF form, v
<1>4. row \in Service /\ row.form = form /\ row.promoted = FALSE /\ row.label = services[s].label
  BY Zenon, <1>1, <1>2 DEF Service
<1> HIDE DEF row
<1>5. row # absent
  BY <1>4, Apart
<1>6. /\ v \in [Services -> Service \cup {absent}] /\ v[s] = row
      /\ \A t \in Services : t # s => v[t] = services[t]
  BY <1>1, <1>3, <1>4
<1> QED
  BY <1>2, <1>4, <1>5, <1>6 DEF v

LEMMA CommitTypes ==
  ASSUME CatalogueOK, EditsOK, MarksOK, NEW h \in Handlers, CommitStep(h)
  PROVE  CatalogueOK' /\ MarksOK' /\ EditsOK'
<1>1. Done(h)
  BY CommitsAreDone
<1>2. MarksOK'
  BY <1>1 DEF Done, MarksOK
<1>3. EditsOK'
  <2>1. EditFits(idle)
    BY Apart DEF EditFits
  <2> QED
    BY Zenon, <1>1, <2>1, TypeOneEdit DEF Done
<1>4. load' \in Loads
  BY <1>1 DEF Done, CatalogueOK
<1>5. /\ categories \in [Categories -> Category \cup {absent}]
      /\ services \in [Services -> Service \cup {absent}]
      /\ notices \in Seq(Notice)
  BY DEF CatalogueOK
<1>6. /\ categories' \in [Categories -> Category \cup {absent}]
      /\ services' \in [Services -> Service \cup {absent}]
      /\ notices' \in Seq(Notice)
  <2>1. CASE WriteCategory(h)
    <3>1. edit[h] \in CategoryCallRows
      BY <2>1, CallsAre DEF EditsOK, WriteCategory, At, CategoryCalls
    <3>2. edit[h].id \in Categories /\ edit[h].row \in Category /\ edit[h].row.name \in Names
      BY <3>1 DEF CategoryCallRows, Category
    <3> QED
      BY <1>5, <2>1, <3>2, RelabelledAre DEF WriteCategory
  <2>2. CASE RemoveCategory(h)
    BY Zenon, <1>5, <2>2 DEF RemoveCategory
  <2>3. CASE WriteServiceType(h)
    <3>1. edit[h] \in ServiceCalls
      BY <2>3, CallsAre DEF EditsOK, WriteServiceType, At
    <3> QED
      BY <1>5, <2>3, <3>1 DEF WriteServiceType, ServiceCalls
  <2>4. CASE Archive(h)
    <3>1. edit[h] \in WithdrawalCalls
      BY <2>4, CallsAre DEF EditsOK, Archive, At
    <3>2. edit[h].id \in Services
      BY <3>1 DEF WithdrawalCalls
    <3> QED
      BY Zenon, <1>5, <2>4, <3>2, ArchivedAre DEF Archive
  <2>5. CASE RemoveServiceType(h)
    BY Zenon, <1>5, <2>5 DEF RemoveServiceType
  <2>6. CASE Promote(h)
    <3>1. edit[h] \in FrontCalls
      BY <2>6, CallsAre DEF EditsOK, Promote, At
    <3>2. edit[h].list \in Seq(Services) /\ Len(edit[h].list) <= MaxPromoted
      BY <3>1 DEF FrontCalls
    <3> QED
      BY <1>5, <2>6, <3>2, PromotedAre DEF Promote
  <2>7. CASE PublishNotice(h)
    BY Zenon, <1>5, <2>7, PublishedAre DEF PublishNotice
  <2> QED
    BY <2>1, <2>2, <2>3, <2>4, <2>5, <2>6, <2>7 DEF CommitStep
<1> QED
  BY <1>2, <1>3, <1>4, <1>6 DEF CatalogueOK
-----------------------------------------------------------------------------
(* The catalogue hangs together.  A call that no other has overtaken holds *)
(* what is still so when it writes: the way up from the new parent does    *)
(* not come back to the category, the category to be removed holds         *)
(* nothing, the label is the name, the place is the one the service has    *)
(* and the version is past all others.                                     *)
Climbs(cats, S, id) == \A c \in S : c # id => cats[c] # absent /\ cats[c].parent \in S

SavesRight(cats, at) ==
    /\ at.row.parent # at.id
    /\ at.new <=> cats[at.id] = absent
    /\ at.pc = "walk" =>
         /\ at.seen # at.id
         /\ \A S \in SUBSET Categories : at.row.parent \in S /\ Climbs(cats, S, at.id) => at.seen \in S
         /\ IF at.depth = 0 THEN at.seen = at.row.parent ELSE cats[at.row.parent] # absent
    /\ at.pc \in {"existing", "save"} =>
         /\ \A S \in SUBSET Categories : at.row.parent \in S => ~Climbs(cats, S, at.id)
         /\ at.row.parent # None => cats[at.row.parent] # absent
    /\ at.pc = "save" /\ ~at.new => at.name = cats[at.id].name

RemovesRight(cats, servs, at) ==
    /\ at.pc \in {"children", "remove"} =>
          \A s \in Services : servs[s] # absent => servs[s].form.category # at.id
    /\ at.pc = "remove" => \A c \in Categories : cats[c] # absent => cats[c].parent # at.id

FilesRight(cats, servs, at) ==
    LET c == at.row.form.category
    IN  /\ IF c = None THEN at.row.label = NoName ELSE cats[c] # absent /\ at.row.label = cats[c].name
        /\ at.pc = "save" /\ at.row.promoted =>
              servs[at.id] # absent /\ servs[at.id].promoted /\ at.row.order = servs[at.id].order

NumbersRight(nots, at) ==
    \A i \in DOMAIN nots : nots[i].scope = at.scope => nots[i].version < at.version

HoldsRight(cats, servs, nots, at) ==
    /\ at.op = "SaveCategory" => SavesRight(cats, at)
    /\ at.op = "DeleteCategory" => RemovesRight(cats, servs, at)
    /\ at.op = "SaveServiceType" => FilesRight(cats, servs, at)
    /\ at.op = "SaveCollectionNotice" => NumbersRight(nots, at)

HoldsNow(at) == HoldsRight(categories, services, notices, at)

Goodly == /\ HangTogether(categories, services) /\ VersionsAscend
          /\ \A h \in Handlers : h \in late \/ HoldsNow(edit[h])

GoodInv == raced \/ Goodly

LEMMA OthersHold ==
  ASSUME NEW at, at.op \notin {"SaveCategory", "DeleteCategory", "SaveServiceType", "SaveCollectionNotice"}
  PROVE  HoldsNow(at)
BY DEF HoldsNow, HoldsRight

LEMMA CategoryCallHolds ==
  ASSUME CatalogueOK, NEW h \in Handlers, NEW c \in Categories, NEW row \in Category, SaveCategory(h, c, row)
  PROVE  HoldsNow(CategoryCall(c, row))
<1> DEFINE at == CategoryCall(c, row)
<1>1. row.parent # c
  BY DEF SaveCategory
<1>2. /\ at.op = "SaveCategory" /\ at.row = row /\ at.id = c /\ at.seen = row.parent /\ at.depth = 0
      /\ at.pc = IF row.parent = None THEN "existing" ELSE "walk"
  BY DEF CategoryCall
<1>3. at.new <=> categories[at.id] = absent
  BY Zenon DEF CategoryCall
<1>4. None \notin Categories
  BY CatalogueConstants
<1> HIDE DEF at
<1>5. SavesRight(categories, at)
  BY <1>1, <1>2, <1>3, <1>4 DEF SavesRight
<1>6. HoldsNow(at)
  BY <1>2, <1>5 DEF HoldsNow, HoldsRight
<1> QED
  BY <1>6 DEF at

LEMMA RemovalCallHolds == \A c : HoldsNow(RemovalCall(c))
BY DEF RemovalCall, HoldsNow, HoldsRight, RemovesRight

LEMMA ServiceCallHolds ==
  ASSUME CatalogueOK, NEW h \in Handlers, NEW s \in Services, NEW form \in load.forms, SaveServiceType(h, s, form)
  PROVE  HoldsNow(ServiceCall(s, form))
<1> DEFINE at == ServiceCall(s, form)
<1>1. /\ at.op = "SaveServiceType" /\ at.row.form = form /\ at.row.promoted = FALSE
      /\ at.row.label = IF form.category = None THEN NoName ELSE categories[form.category].name
  BY DEF ServiceCall
<1>2. form.category # None => categories[form.category] # absent
  BY SaveServiceBegins
<1> HIDE DEF at
<1>3. FilesRight(categories, services, at)
  BY <1>1, <1>2 DEF FilesRight
<1>6. HoldsNow(at)
  BY <1>1, <1>3 DEF HoldsNow, HoldsRight
<1> QED
  BY <1>6 DEF at

LEMMA NoticeCallHolds ==
  ASSUME CatalogueOK, NEW scope, NEW body,
         NEW previous \in IF InScope(scope) = {} THEN {absent} ELSE {notices[i] : i \in Latest(scope)}
  PROVE  HoldsNow(NoticeCall(scope, body, previous))
<1> DEFINE at == NoticeCall(scope, body, previous)
<1>1. /\ at.op = "SaveCollectionNotice" /\ at.scope = scope
      /\ at.version = IF previous = absent THEN 1 ELSE previous.version + 1
  BY DEF NoticeCall
<1> HIDE DEF at
<1>2. ASSUME NEW i \in DOMAIN notices, notices[i].scope = scope
      PROVE  notices[i].version < at.version
  <2>1. i \in InScope(scope)
    BY <1>2 DEF InScope
  <2>2. PICK j \in Latest(scope) : previous = notices[j]
    BY <2>1
  <2>3. j \in DOMAIN notices /\ notices[i].version <= notices[j].version
    BY <2>1, <2>2 DEF Latest, InScope
  <2>4. notices[i] \in Notice /\ notices[j] \in Notice
    BY <1>2, <2>3 DEF CatalogueOK
  <2>5. notices[i].version \in Nat /\ notices[j].version \in Nat /\ notices[j] # absent
    BY <2>4 DEF Notice, absent
  <2> QED
    BY <1>1, <2>2, <2>3, <2>5
<1>3. NumbersRight(notices, at)
  BY <1>1, <1>2 DEF NumbersRight
<1>6. HoldsNow(at)
  BY <1>1, <1>3 DEF HoldsNow, HoldsRight
<1> QED
  BY <1>6 DEF at
(* On its way a call goes on holding what it must.                         *)
LEMMA WalkHolds ==
  ASSUME CatalogueOK, NEW at \in CategoryCalls, at.pc = "walk", SavesRight(categories, at),
         NEW v \in CategoryCalls, WalksOn(at, v)
  PROVE  SavesRight(categories, v)
<1>1. at \in CategoryCallRows /\ v \in CategoryCallRows
  BY DEF CategoryCalls
<1>2. /\ at.id \in Categories /\ at.row \in Category /\ at.depth \in Nat /\ at.seen \in Categories
      /\ at.row.parent \in Categories \cup {None}
  BY <1>1 DEF CategoryCalls, CategoryCallRows, Category
<1>3. /\ at.row.parent # at.id /\ at.seen # at.id
      /\ at.new <=> categories[at.id] = absent
      /\ \A S \in SUBSET Categories : at.row.parent \in S /\ Climbs(categories, S, at.id) => at.seen \in S
      /\ IF at.depth = 0 THEN at.seen = at.row.parent ELSE categories[at.row.parent] # absent
  BY DEF SavesRight
<1>4. None \notin Categories
  BY CatalogueConstants
<1>5. CASE v = [at EXCEPT !.pc = "existing"]
           /\ \/ categories[at.seen] = absent /\ at.depth # 0
              \/ categories[at.seen] # absent /\ categories[at.seen].parent = None
  <2>1. /\ v.pc = "existing" /\ v.row = at.row /\ v.id = at.id
        /\ v.new = at.new
    BY <1>1, <1>5 DEF CategoryCallRows
  <2>2. ASSUME NEW S \in SUBSET Categories, at.row.parent \in S
        PROVE  ~Climbs(categories, S, at.id)
    <3>1. ASSUME Climbs(categories, S, at.id)
          PROVE  FALSE
      <4>1. at.seen \in S
        BY <1>3, <2>2, <3>1
      <4>2. categories[at.seen] # absent /\ categories[at.seen].parent \in S
        BY <1>3, <3>1, <4>1 DEF Climbs
      <4> QED
        BY <1>4, <1>5, <4>2
    <3> QED
      BY <3>1
  <2>3. categories[at.row.parent] # absent
    BY <1>3, <1>5
  <2>4. v.new <=> categories[at.id] = absent
    BY <1>3, <2>1
  <2> QED
    BY <1>3, <2>1, <2>2, <2>3, <2>4 DEF SavesRight
<1>6. CASE /\ v = [at EXCEPT !.seen = categories[at.seen].parent, !.depth = @ + 1]
           /\ categories[at.seen] # absent /\ categories[at.seen].parent # None
           /\ ~Loops(at)
  <2>1. /\ v.pc = "walk" /\ v.row = at.row /\ v.id = at.id /\ v.seen = categories[at.seen].parent
        /\ v.depth = at.depth + 1 /\ v.new = at.new
    BY <1>1, <1>6 DEF CategoryCalls, CategoryCallRows
  <2>2. v.seen # at.id
    BY <1>6, <2>1 DEF Loops
  <2>3. ASSUME NEW S \in SUBSET Categories, at.row.parent \in S, Climbs(categories, S, at.id)
        PROVE  v.seen \in S
    <3>1. at.seen \in S
      BY <1>3, <2>3
    <3> QED
      BY <1>3, <2>1, <2>3, <3>1 DEF Climbs
  <2>4. categories[at.row.parent] # absent /\ v.depth # 0
    BY <1>2, <1>3, <1>6, <2>1
  <2>5. v.new <=> categories[at.id] = absent
    BY <1>3, <2>1
  <2> QED
    BY <1>3, <2>1, <2>2, <2>3, <2>4, <2>5 DEF SavesRight
<1> QED
  BY <1>5, <1>6 DEF WalksOn

LEMMA RenameHolds ==
  ASSUME CatalogueOK, NEW at \in CategoryCalls, at.pc = "existing", SavesRight(categories, at),
         NEW v \in CategoryCalls, Renames(at, v)
  PROVE  SavesRight(categories, v)
<1>1. at \in CategoryCallRows /\ v \in CategoryCallRows
  BY DEF CategoryCalls
<1>2. /\ v.pc = "save" /\ v.row = at.row /\ v.id = at.id /\ v.new = at.new
      /\ at.new \/ v.name = categories[at.id].name
  BY Zenon, <1>1 DEF Renames, CategoryCallRows
<1>3. v.new <=> at.new
  BY <1>2
<1>4. at.row.parent # at.id /\ (at.new <=> categories[at.id] = absent)
  BY DEF SavesRight
<1>5. /\ \A S \in SUBSET Categories : at.row.parent \in S => ~Climbs(categories, S, at.id)
      /\ at.row.parent # None => categories[at.row.parent] # absent
  BY DEF SavesRight
<1> QED
  BY <1>2, <1>3, <1>4, <1>5 DEF SavesRight

LEMMA KeepHolds ==
  ASSUME CatalogueOK, NEW at \in ServiceCalls, FilesRight(categories, services, at),
         NEW v \in ServiceCalls, Keeps(at, v)
  PROVE  FilesRight(categories, services, v)
<1> DEFINE now == services[at.id]
           promoted == now # absent /\ now.promoted
           order == IF now = absent THEN 0 ELSE now.order
<1>1. v = [at EXCEPT !.pc = "save", !.row.promoted = promoted, !.row.order = order]
  BY DEF Keeps
<1>2. promoted => now # absent /\ now.promoted /\ order = now.order
  OBVIOUS
<1> HIDE DEF promoted, order
<1>3. /\ v.pc = "save" /\ v.id = at.id /\ v.row.form = at.row.form /\ v.row.label = at.row.label
      /\ v.row.promoted = promoted /\ v.row.order = order
  BY Zenon, <1>1 DEF ServiceCalls, Service
<1>4. v.row.promoted => now # absent /\ now.promoted /\ v.row.order = now.order
  BY <1>2, <1>3
<1> QED
  BY <1>3, <1>4 DEF FilesRight
-----------------------------------------------------------------------------
(* What a step does to the catalogue and the calls under way: one call     *)
(* commits, one begins, goes on or ends, none moves, or all are lost.      *)
LabelStays(at, v) == at.op = "SaveServiceType" /\ v.row.form = at.row.form /\ v.row.label = at.row.label

GoesOn(h, v) == /\ Quiet(h, v) /\ EditFits(v)
                /\ HoldsNow(v) \/ (late' = late /\ ~HoldsNow(edit[h]))
                /\ v.op = "SaveServiceType" => HoldsNow(v) \/ LabelStays(edit[h], v)

Aside == UNCHANGED <<tables, named, raced, load, edit, late>>

Lost == /\ UNCHANGED <<tables, named, raced, load>>
        /\ edit' = [h \in Handlers |-> idle] /\ late' = {}

LEMMA EndsQuietly ==
  ASSUME NEW h \in Handlers, Quiet(h, idle)
  PROVE  GoesOn(h, idle)
<1>1. idle.op = "idle"
  BY Apart
<1>2. EditFits(idle) /\ HoldsNow(idle)
  BY <1>1, OthersHold DEF EditFits
<1> QED
  BY <1>1, <1>2 DEF GoesOn

LEMMA BeginsQuietly ==
  ASSUME NEW h \in Handlers, NEW v, Quiet(h, v), EditFits(v), HoldsNow(v)
  PROVE  GoesOn(h, v)
BY DEF GoesOn

LEMMA CallsFit ==
  ASSUME NEW at \in CatalogueCalls
  PROVE  EditFits(at)
BY DEF EditFits

LEMMA CataloguedGoesOn ==
  ASSUME EditsOK, CatalogueOK, NEW h \in Handlers, Catalogued(h)
  PROVE  \E v : GoesOn(h, v)
<1>1. ASSUME NEW s \in Services, NEW form \in load.forms, SaveServiceType(h, s, form)
      PROVE  \E v : GoesOn(h, v)
  <2> DEFINE v == ServiceCall(s, form)
  <2>1. Quiet(h, v) /\ v \in ServiceCalls /\ HoldsNow(v)
    BY <1>1, SaveServiceBegins, ServiceCallHolds
  <2> HIDE DEF v
  <2>2. EditFits(v)
    BY <2>1, CallsFit DEF CatalogueCalls
  <2> QED
    BY <2>1, <2>2, BeginsQuietly
<1>2. ASSUME NEW s \in Services, DeleteServiceType(h, s)
      PROVE  \E v : GoesOn(h, v)
  <2> DEFINE v == WithdrawalCall(s)
  <2>1. Quiet(h, v) /\ v \in WithdrawalCalls
    BY <1>2, DeleteServiceBegins
  <2> HIDE DEF v
  <2>2. EditFits(v) /\ v.op = "DeleteServiceType"
    BY <2>1, CallsFit DEF CatalogueCalls, WithdrawalCalls
  <2> QED
    BY <2>1, <2>2, OthersHold, BeginsQuietly
<1>3. ASSUME NEW list \in load.lists, SetPromoted(h, list)
      PROVE  \E v : GoesOn(h, v)
  <2> DEFINE v == FrontCall(list)
  <2>1. Quiet(h, v) /\ v \in FrontCalls
    BY <1>3, SetPromotedBegins
  <2> HIDE DEF v
  <2>2. EditFits(v) /\ v.op = "SetPromoted"
    BY <2>1, CallsFit DEF CatalogueCalls, FrontCalls
  <2> QED
    BY <2>1, <2>2, OthersHold, BeginsQuietly
<1>4. ASSUME NEW scope \in Services \cup {None}, NEW body \in Bodies, SaveCollectionNotice(h, scope, body)
      PROVE  \E v : GoesOn(h, v)
  <2>1. PICK previous \in IF InScope(scope) = {} THEN {absent} ELSE {notices[i] : i \in Latest(scope)} :
           /\ Quiet(h, NoticeCall(scope, body, previous))
           /\ NoticeCall(scope, body, previous) \in NoticeCalls
    BY <1>4, SaveNoticeBegins
  <2> DEFINE v == NoticeCall(scope, body, previous)
  <2>2. HoldsNow(v)
    BY <2>1, NoticeCallHolds
  <2>3. Quiet(h, v) /\ v \in NoticeCalls
    BY <2>1
  <2> HIDE DEF v
  <2>4. EditFits(v)
    BY <2>3, CallsFit DEF CatalogueCalls
  <2> QED
    BY <2>2, <2>3, <2>4, BeginsQuietly
<1>5. ASSUME NEW c \in Categories, NEW row \in Category, SaveCategory(h, c, row)
      PROVE  \E v : GoesOn(h, v)
  <2> DEFINE v == CategoryCall(c, row)
  <2>1. Quiet(h, v) /\ v \in CategoryCalls /\ HoldsNow(v)
    BY <1>5, SaveCategoryBegins, CategoryCallHolds
  <2> HIDE DEF v
  <2>2. EditFits(v)
    BY <2>1, CallsFit DEF CatalogueCalls
  <2> QED
    BY <2>1, <2>2, BeginsQuietly
<1>6. ASSUME NEW c \in Categories, DeleteCategory(h, c)
      PROVE  \E v : GoesOn(h, v)
  <2> DEFINE v == RemovalCall(c)
  <2>1. Quiet(h, v) /\ v \in RemovalCalls /\ HoldsNow(v)
    BY <1>6, DeleteCategoryBegins, RemovalCallHolds
  <2> HIDE DEF v
  <2>2. EditFits(v)
    BY <2>1, CallsFit DEF CatalogueCalls
  <2> QED
    BY <2>1, <2>2, BeginsQuietly
<1> QED
  BY <1>1, <1>2, <1>3, <1>4, <1>5, <1>6 DEF Catalogued, ServiceEdits, NoticeEdits, CategoryEdits

LEMMA StepGoesOn ==
  ASSUME EditsOK, CatalogueOK, NEW h \in Handlers,
         Walk(h) \/ ReadExisting(h) \/ CountServices(h) \/ CountChildren(h) \/ ReadCurrent(h)
  PROVE  \E v : GoesOn(h, v)
<1> DEFINE at == edit[h]
<1>1. ASSUME NEW v, v \in CategoryCalls, at \in CategoryCalls, Quiet(h, v), late' = late,
             SavesRight(categories, at) => SavesRight(categories, v)
      PROVE  GoesOn(h, v)
  <2>1. EditFits(v) /\ v.op = "SaveCategory" /\ at.op = "SaveCategory"
    BY <1>1, CallsFit DEF CatalogueCalls, CategoryCalls, CategoryCallRows
  <2>2. HoldsNow(v) \/ ~HoldsNow(at)
    BY <1>1, <2>1 DEF HoldsNow, HoldsRight
  <2> QED
    BY <1>1, <2>1, <2>2 DEF GoesOn
<1>2. CASE Walk(h)
  <2>1. CASE Quiet(h, idle)
    BY <2>1, EndsQuietly
  <2>2. ASSUME NEW v \in CategoryCalls, Quiet(h, v), WalksOn(at, v), late' = late, at \in CategoryCalls, at.pc = "walk"
        PROVE  GoesOn(h, v)
    BY <1>1, <2>2, WalkHolds
  <2> QED
    BY <1>2, <2>1, <2>2, WalkGoesOn
<1>3. CASE ReadExisting(h)
  <2>1. CASE Quiet(h, idle)
    BY <2>1, EndsQuietly
  <2>2. ASSUME NEW v \in CategoryCalls, Quiet(h, v), Renames(at, v), late' = late, at \in CategoryCalls,
               at.pc = "existing"
        PROVE  GoesOn(h, v)
    BY <1>1, <2>2, RenameHolds
  <2> QED
    BY <1>3, <2>1, <2>2, ExistingGoesOn
<1>4. CASE CountServices(h) \/ CountChildren(h)
  <2>1. CASE Quiet(h, idle)
    BY <2>1, EndsQuietly
  <2>2. ASSUME NEW pc \in {"children", "remove"}, at \in RemovalCalls,
               [at EXCEPT !.pc = pc] \in RemovalCalls,
               Quiet(h, [at EXCEPT !.pc = pc]), late' = late,
               \/ /\ pc = "children" /\ at.pc = "services"
                  /\ \A s \in Services : services[s] # absent => services[s].form.category # at.id
               \/ /\ pc = "remove" /\ at.pc = "children"
                  /\ \A c \in Categories : categories[c] # absent => categories[c].parent # at.id
        PROVE  GoesOn(h, [at EXCEPT !.pc = pc])
    <3> DEFINE v == [at EXCEPT !.pc = pc]
    <3>1. v.pc = pc /\ v.id = at.id /\ v.op = "DeleteCategory" /\ at.op = "DeleteCategory"
      BY <2>2 DEF RemovalCalls
    <3>2. v \in RemovalCalls /\ Quiet(h, v)
      BY <2>2
    <3> HIDE DEF v
    <3>3. EditFits(v)
      BY <3>2, CallsFit DEF CatalogueCalls
    <3>4. RemovesRight(categories, services, at) => RemovesRight(categories, services, v)
      BY <2>2, <3>1 DEF RemovesRight
    <3>5. HoldsNow(v) \/ ~HoldsNow(at)
      BY <3>1, <3>4 DEF HoldsNow, HoldsRight
    <3>6. GoesOn(h, v)
      BY <2>2, <3>1, <3>2, <3>3, <3>5 DEF GoesOn
    <3> QED
      BY <3>6 DEF v
  <2>3. at \in RemovalCalls /\ (Quiet(h, idle) \/ \E pc \in {"children", "remove"} :
                 /\ [at EXCEPT !.pc = pc] \in RemovalCalls
                 /\ Quiet(h, [at EXCEPT !.pc = pc]) /\ late' = late
                 /\ \/ /\ pc = "children" /\ at.pc = "services"
                       /\ \A s \in Services : services[s] # absent => services[s].form.category # at.id
                    \/ /\ pc = "remove" /\ at.pc = "children"
                       /\ \A c \in Categories : categories[c] # absent => categories[c].parent # at.id)
    BY <1>4, CountsGoOn
  <2> QED
    BY <2>1, <2>2, <2>3
<1>5. CASE ReadCurrent(h)
  <2>1. PICK v \in ServiceCalls : Quiet(h, v) /\ Keeps(at, v) /\ late' = late /\ at \in ServiceCalls
    BY <1>5, CurrentGoesOn
  <2>2. EditFits(v) /\ v.op = "SaveServiceType" /\ at.op = "SaveServiceType"
    BY <2>1, CallsFit DEF CatalogueCalls, ServiceCalls
  <2>3. FilesRight(categories, services, at) => FilesRight(categories, services, v)
    BY <2>1, KeepHolds
  <2>4. HoldsNow(v) \/ ~HoldsNow(at)
    BY <2>2, <2>3 DEF HoldsNow, HoldsRight
  <2>5. LabelStays(at, v)
    <3>1. v.row.form = at.row.form /\ v.row.label = at.row.label
      BY Zenon, <2>1 DEF Keeps, ServiceCalls, Service
    <3> QED
      BY <2>2, <3>1 DEF LabelStays
  <2> QED
    BY <2>1, <2>2, <2>4, <2>5 DEF GoesOn
<1> QED
  BY <1>2, <1>3, <1>4, <1>5
LEMMA UpdateGoesOn ==
  ASSUME NEW h \in Handlers, WriteUpdate(h) \/ \E r \in Requests, data \in load.data : Update(h, r, data)
  PROVE  \E v : GoesOn(h, v)
<1>1. CASE WriteUpdate(h)
  <2>1. Quiet(h, idle)
    BY <1>1 DEF WriteUpdate, Quiet
  <2> QED
    BY <2>1, EndsQuietly
<1>2. ASSUME NEW r \in Requests, NEW data \in load.data, Update(h, r, data)
      PROVE  \E v : GoesOn(h, v)
  <2>1. PICK v : Begin(h, v) /\ v.op = "Update"
    BY <1>2 DEF Update
  <2>2. EditFits(v)
    BY <2>1 DEF EditFits
  <2> QED
    BY <2>1, <2>2, OthersHold, BeginIsQuiet, BeginsQuietly
<1> QED
  BY <1>1, <1>2

LEMMA DeskGoesOn ==
  ASSUME NEW h \in Handlers, DeskEdits(h)
  PROVE  Aside \/ \E v : GoesOn(h, v)
<1>1. ASSUME NEW op, DeskEdit(h, op), edit' = edit
      PROVE  Aside
  BY <1>1 DEF DeskEdit, Aside, history
<1>2. ASSUME NEW op, NEW v, DeskEdit(h, op), edit' = [edit EXCEPT ![h] = v],
             v.op \in {"DeleteQueue", "SaveCalendar"}
      PROVE  \E w : GoesOn(h, w)
  <2>1. Quiet(h, v) /\ EditFits(v)
    BY <1>2 DEF DeskEdit, Quiet, EditFits, history
  <2> QED
    BY <1>2, <2>1, OthersHold, BeginsQuietly
<1>3. ASSUME NEW op, Resumes(h, op)
      PROVE  \E v : GoesOn(h, v)
  <2>1. Quiet(h, idle)
    BY <1>3 DEF Resumes, Quiet, history
  <2> QED
    BY <2>1, EndsQuietly
<1>4. CASE RuleEdits(h)
  BY <1>1, <1>4 DEF RuleEdits, SaveRule, DeleteRule
<1>5. CASE QueueEdits(h)
  <2>1. ASSUME NEW q \in Queues, DeleteQueue(h, q)
        PROVE  \E v : GoesOn(h, v)
    BY Zenon, <1>2, <2>1 DEF DeleteQueue
  <2>2. ASSUME NEW q, NEW form, SaveQueue(h, q, form)
        PROVE  Aside
    BY <1>1, <2>2 DEF SaveQueue
  <2>3. ASSUME NEW q, NEW members, SetQueueMembers(h, q, members)
        PROVE  Aside
    BY <1>1, <2>3 DEF SetQueueMembers
  <2> QED
    BY <1>5, <2>1, <2>2, <2>3 DEF QueueEdits
<1>6. CASE PolicyEdits(h)
  <2>1. ASSUME NEW p, NEW form, SaveSLAPolicy(h, p, form)
        PROVE  Aside
    BY <1>1, <2>1 DEF SaveSLAPolicy
  <2>2. ASSUME NEW k, NEW row, SaveCalendar(h, k, row)
        PROVE  \E v : GoesOn(h, v)
    BY Zenon, <1>2, <2>2 DEF SaveCalendar
  <2> QED
    BY <1>6, <2>1, <2>2 DEF PolicyEdits
<1>7. ASSUME NEW u, ChangeStatus(h, u)
      PROVE  Aside
  BY <1>1, <1>7 DEF ChangeStatus
<1>8. CASE DeskStep(h)
  BY <1>3, <1>8 DEF DeskStep, RemoveQueue, DropCalendar
<1> QED
  BY <1>4, <1>5, <1>6, <1>7, <1>8 DEF DeskEdits, Desked

LEMMA FilingIsAside ==
  ASSUME Outside
  PROVE  Aside
BY DEF Outside, Aside, history

LEMMA CatalogueSide ==
  ASSUME EditsOK, CatalogueOK, [Next]_vars
  PROVE  \/ \E h \in Handlers : CommitStep(h)
         \/ \E h \in Handlers : \E v : GoesOn(h, v)
         \/ Aside \/ Lost
<1>1. CASE UNCHANGED vars
  BY <1>1 DEF vars, catalogueVars, Aside, history
<1>2. ASSUME NEW h \in Handlers, Edits(h)
      PROVE  CommitStep(h) \/ \E v : GoesOn(h, v)
  BY <1>2, CataloguedGoesOn, StepGoesOn, UpdateGoesOn DEF Edits, CatalogueStep, CommitStep
<1>3. ASSUME NEW f \in Filers, NEW report \in load.reports, NEW shown \in {0} \cup DOMAIN notices, Submit(f, report, shown)
      PROVE  Aside
  BY <1>3, FilingIsAside DEF Submit
<1>4. ASSUME NEW f \in Filers, FilingStep(f)
      PROVE  Aside
  BY Zenon, <1>4, FilingIsAside DEF FilingStep, ReadService, Route, ReadQueue, TakeTurn, CompareLoads, ReadPolicy, LookUp,
     ReadCalendar, FillCache, Insert, RecordNoticeShown
<1>5. ASSUME NEW r \in Requests, CloseRequest(r)
      PROVE  Aside
  BY <1>5, FilingIsAside DEF CloseRequest
<1>6. CASE Restart
  BY <1>6 DEF Restart, Lost
<1> QED
  BY <1>1, <1>2, <1>3, <1>4, <1>5, <1>6, DeskGoesOn DEF Next

LEMMA CatalogueTypes ==
  ASSUME EditsOK, CatalogueOK, MarksOK, [Next]_vars
  PROVE  EditsOK' /\ CatalogueOK' /\ MarksOK'
<1>1. ASSUME NEW h \in Handlers, CommitStep(h)
      PROVE  EditsOK' /\ CatalogueOK' /\ MarksOK'
  BY <1>1, CommitTypes
<1>2. ASSUME NEW h \in Handlers, NEW v, GoesOn(h, v)
      PROVE  EditsOK' /\ CatalogueOK' /\ MarksOK'
  <2>1. EditsOK'
    BY Zenon, <1>2, TypeOneEdit DEF GoesOn, Quiet
  <2>2. CatalogueOK' /\ MarksOK'
    BY <1>2 DEF GoesOn, Quiet, CatalogueOK, MarksOK, tables
  <2> QED
    BY <2>1, <2>2
<1>3. CASE Aside
  BY <1>3 DEF Aside, EditsOK, CatalogueOK, MarksOK, tables, EditFits
<1>4. CASE Lost
  <2>1. CatalogueOK' /\ MarksOK'
    BY <1>4 DEF Lost, CatalogueOK, MarksOK, tables
  <2>2. EditFits(idle)
    BY Apart DEF EditFits
  <2>3. ASSUME NEW g \in Handlers, NEW at, at = edit'[g]
        PROVE  EditFits(at)
    BY <1>4, <2>2, <2>3 DEF Lost
  <2>4. edit' = [g \in Handlers |-> edit'[g]]
    BY <1>4 DEF Lost
  <2>5. EditsOK'
    BY <2>3, <2>4 DEF EditsOK, EditFits
  <2> QED
    BY <2>1, <2>5
<1> QED
  BY <1>1, <1>2, <1>3, <1>4, CatalogueSide
-----------------------------------------------------------------------------
(* What a call writes that holds what it must leaves the catalogue right.  *)
LEMMA SavesCategoryRight ==
  ASSUME CatalogueOK, HangTogether(categories, services), NEW h \in Handlers, edit[h] \in CategoryCalls,
         HoldsNow(edit[h]), WriteCategory(h)
  PROVE  HangTogether(categories, services)'
<1> DEFINE at == edit[h]
           id == at.id
           row == at.row
<1>1. /\ id \in Categories /\ row \in Category /\ row.name \in Names /\ row.parent \in Categories \cup {None}
      /\ at.op = "SaveCategory" /\ at.pc = "save"
  BY DEF CategoryCalls, CategoryCallRows, Category, WriteCategory, At
<1>2. SavesRight(categories, at)
  BY <1>1 DEF HoldsNow, HoldsRight
<1>3. /\ row.parent # id
      /\ at.new <=> categories[id] = absent
      /\ \A S \in SUBSET Categories : row.parent \in S => ~Climbs(categories, S, id)
      /\ row.parent # None => categories[row.parent] # absent
      /\ ~at.new => at.name = categories[id].name
  BY <1>1, <1>2 DEF SavesRight
<1>4. /\ categories' = [categories EXCEPT ![id] = row]
      /\ services' = IF ~at.new /\ at.name # row.name THEN Relabelled(id, row.name) ELSE services
  BY DEF WriteCategory
<1>5. /\ categories \in [Categories -> Category \cup {absent}]
      /\ categories'[id] = row /\ \A c \in Categories : c # id => categories'[c] = categories[c]
  BY <1>1, <1>4 DEF CatalogueOK
<1>6. row # absent /\ None \notin Categories
  BY <1>1, Apart, CatalogueConstants
<1>7. IsTree(categories) /\ Filed(categories, services) /\ LabelsMatch(categories, services)
      /\ ShortcutsAreOrdered(services)
  BY DEF HangTogether
<1> HIDE DEF at, id, row
<1>8. ASSUME NEW C \in SUBSET Categories, C # {}
      PROVE  \E c \in C : categories'[c] = absent \/ categories'[c].parent \notin C
  <2>1. CASE id \notin C
    BY <1>5, <1>7, <1>8, <2>1 DEF IsTree
  <2>2. CASE id \in C /\ row.parent \in C
    <3>1. ~Climbs(categories, C, id)
      BY <1>3, <2>2
    <3> QED
      BY <1>5, <2>2, <3>1 DEF Climbs
  <2>3. CASE id \in C /\ row.parent \notin C
    BY <1>5, <2>3
  <2> QED
    BY <2>1, <2>2, <2>3
<1>9. ASSUME NEW c \in Categories, categories'[c] # absent, categories'[c].parent # None
      PROVE  categories'[categories'[c].parent] # absent
  <2>1. CASE c = id
    BY <1>1, <1>3, <1>5, <1>9, <2>1
  <2>2. CASE c # id
    <3>1. categories[c] # absent /\ categories'[c] = categories[c] /\ categories[c].parent \in Categories
      BY <1>5, <1>9, <2>2, CategoryIs
    <3>2. categories[categories[c].parent] # absent
      BY <1>7, <1>9, <3>1 DEF IsTree
    <3> QED
      BY <1>5, <1>6, <3>1, <3>2
  <2> QED
    BY <2>1, <2>2
<1>10. IsTree(categories')
  BY <1>8, <1>9 DEF IsTree
<1>11. \A s \in Services :
         /\ services'[s] = absent <=> services[s] = absent
         /\ services[s] # absent =>
              /\ services'[s].form = services[s].form /\ services'[s].promoted = services[s].promoted
              /\ services'[s].order = services[s].order
              /\ services'[s].label = IF ~at.new /\ at.name # row.name /\ services[s].form.category = id
                                      THEN row.name ELSE services[s].label
  <2>1. CASE ~at.new /\ at.name # row.name
    BY <1>1, <1>4, <2>1, RelabelledAre
  <2>2. CASE ~(~at.new /\ at.name # row.name)
    BY <1>4, <2>2
  <2> QED
    BY <2>1, <2>2
<1>12. \A s \in Services : services[s] # absent => services[s].form.category \in Categories \cup {None}
  BY DEF CatalogueOK, Service, Form
<1>13. Filed(categories', services')
  <2> SUFFICES ASSUME NEW s \in Services, services'[s] # absent, services'[s].form.category # None
               PROVE  categories'[services'[s].form.category] # absent
    BY DEF Filed
  <2>1. /\ services[s] # absent /\ services[s].form.category \in Categories
        /\ services'[s].form.category = services[s].form.category
    BY <1>11, <1>12
  <2>2. categories[services[s].form.category] # absent
    BY <1>7, <2>1 DEF Filed
  <2> QED
    BY <1>5, <1>6, <2>1, <2>2
<1>14. LabelsMatch(categories', services')
  <2> SUFFICES ASSUME NEW s \in Services, services'[s] # absent
               PROVE  services'[s].label = IF services'[s].form.category = None THEN NoName
                                           ELSE categories'[services'[s].form.category].name
    BY DEF LabelsMatch
  <2> DEFINE c == services[s].form.category
  <2>1. services[s] # absent /\ c \in Categories \cup {None} /\ services'[s].form.category = c
    BY <1>11, <1>12
  <2>2. services[s].label = IF c = None THEN NoName ELSE categories[c].name
    BY <1>7, <2>1 DEF LabelsMatch
  <2>3. services'[s].label = IF ~at.new /\ at.name # row.name /\ c = id THEN row.name ELSE services[s].label
    BY <1>11, <2>1
  <2>4. CASE c = id
    <3>1. categories[id] # absent /\ c # None
      BY <1>1, <1>6, <1>7, <2>1, <2>4 DEF Filed
    <3>2. ~at.new /\ at.name = categories[id].name
      BY <1>3, <3>1
    <3> QED
      BY <1>5, <2>1, <2>2, <2>3, <2>4, <3>1, <3>2
  <2>5. CASE c # id
    BY <1>1, <1>5, <1>6, <2>1, <2>2, <2>3, <2>5
  <2> QED
    BY <2>4, <2>5
<1>15. ShortcutsAreOrdered(services')
  <2>1. \A s \in Services : s \in Shortcuts(services') <=> s \in Shortcuts(services)
    BY <1>11 DEF Shortcuts
  <2>2. \A s \in Shortcuts(services) : s \in Services /\ services'[s].order = services[s].order
    BY <1>11 DEF Shortcuts
  <2>3. Shortcuts(services') \subseteq Services
    BY DEF Shortcuts
  <2> QED
    BY <1>7, <2>1, <2>2, <2>3 DEF ShortcutsAreOrdered
<1>16. HangTogether(categories', services')
  BY <1>10, <1>13, <1>14, <1>15 DEF HangTogether
<1> QED
  BY <1>16 DEF HangTogether, IsTree, Filed, LabelsMatch, ShortcutsAreOrdered, Shortcuts
(* Services written without their category or label changing, and without  *)
(* a shortcut that was none.                                               *)
LEMMA ServicesHang ==
  ASSUME CatalogueOK, HangTogether(categories, services), categories' = categories,
         \A s \in Services : services'[s] # absent =>
            /\ services[s] # absent /\ services'[s].form.category = services[s].form.category
            /\ services'[s].label = services[s].label,
         ShortcutsAreOrdered(services')
  PROVE  HangTogether(categories, services)'
<1>1. IsTree(categories) /\ Filed(categories, services) /\ LabelsMatch(categories, services)
  BY DEF HangTogether
<1>2. IsTree(categories')
  BY <1>1
<1>3. Filed(categories', services')
  BY <1>1 DEF Filed
<1>4. LabelsMatch(categories', services')
  BY <1>1 DEF LabelsMatch
<1>5. HangTogether(categories', services')
  BY <1>2, <1>3, <1>4 DEF HangTogether
<1> QED
  BY <1>5 DEF HangTogether, IsTree, Filed, LabelsMatch, ShortcutsAreOrdered, Shortcuts

LEMMA SameServicesHang ==
  ASSUME HangTogether(categories, services), UNCHANGED <<categories, services>>
  PROVE  HangTogether(categories, services)'
BY DEF HangTogether, IsTree, Filed, LabelsMatch, ShortcutsAreOrdered, Shortcuts

LEMMA RemovesCategoryRight ==
  ASSUME CatalogueOK, HangTogether(categories, services), NEW h \in Handlers, edit[h] \in RemovalCalls,
         HoldsNow(edit[h]), RemoveCategory(h)
  PROVE  HangTogether(categories, services)'
<1> DEFINE at == edit[h]
           id == at.id
<1>1. id \in Categories /\ at.op = "DeleteCategory" /\ at.pc = "remove"
  BY DEF RemovalCalls, RemoveCategory, At
<1>2. /\ \A s \in Services : services[s] # absent => services[s].form.category # id
      /\ \A c \in Categories : categories[c] # absent => categories[c].parent # id
  BY <1>1 DEF HoldsNow, HoldsRight, RemovesRight
<1>3. categories' = [categories EXCEPT ![id] = absent] /\ services' = services
  BY DEF RemoveCategory
<1>4. categories'[id] = absent /\ \A c \in Categories : c # id => categories'[c] = categories[c]
  BY <1>1, <1>3 DEF CatalogueOK
<1>5. IsTree(categories) /\ Filed(categories, services) /\ LabelsMatch(categories, services)
      /\ ShortcutsAreOrdered(services)
  BY DEF HangTogether
<1>6. \A s \in Services : services[s] # absent => services[s].form.category \in Categories \cup {None}
  BY DEF CatalogueOK, Service, Form
<1> HIDE DEF id
<1>7. ASSUME NEW C \in SUBSET Categories, C # {}
      PROVE  \E c \in C : categories'[c] = absent \/ categories'[c].parent \notin C
  <2>1. CASE id \notin C
    BY <1>4, <1>5, <1>7, <2>1 DEF IsTree
  <2>2. CASE id \in C
    BY <1>4, <2>2
  <2> QED
    BY <2>1, <2>2
<1>8. ASSUME NEW c \in Categories, categories'[c] # absent, categories'[c].parent # None
      PROVE  categories'[categories'[c].parent] # absent
  <2>1. categories[c] # absent /\ categories'[c] = categories[c]
    BY <1>4, <1>8
  <2>2. categories[c].parent \in Categories /\ categories[c].parent # id
    BY <1>2, <1>8, <2>1, CategoryIs
  <2>3. categories[categories[c].parent] # absent
    BY <1>5, <1>8, <2>1 DEF IsTree
  <2> QED
    BY <1>4, <2>1, <2>2, <2>3
<1>9. IsTree(categories')
  BY <1>7, <1>8 DEF IsTree
<1>10. Filed(categories', services')
  BY <1>2, <1>3, <1>4, <1>5, <1>6 DEF Filed
<1>11. LabelsMatch(categories', services')
  BY <1>2, <1>3, <1>4, <1>5, <1>6 DEF LabelsMatch
<1>12. ShortcutsAreOrdered(services')
  BY <1>3, <1>5
<1>13. HangTogether(categories', services')
  BY <1>9, <1>10, <1>11, <1>12 DEF HangTogether
<1> QED
  BY <1>13 DEF HangTogether, IsTree, Filed, LabelsMatch, ShortcutsAreOrdered, Shortcuts

LEMMA SavesServiceRight ==
  ASSUME CatalogueOK, HangTogether(categories, services), NEW h \in Handlers, edit[h] \in ServiceCalls,
         HoldsNow(edit[h]), WriteServiceType(h)
  PROVE  HangTogether(categories, services)'
<1> DEFINE at == edit[h]
           id == at.id
           row == at.row
           c == row.form.category
<1>1. /\ id \in Services /\ row \in Service /\ row # absent
      /\ at.op = "SaveServiceType" /\ at.pc = "save"
  BY Apart DEF ServiceCalls, WriteServiceType, At
<1>2. /\ IF c = None THEN row.label = NoName ELSE categories[c] # absent /\ row.label = categories[c].name
      /\ row.promoted => services[id] # absent /\ services[id].promoted /\ row.order = services[id].order
  BY <1>1 DEF HoldsNow, HoldsRight, FilesRight
<1>3. services' = [services EXCEPT ![id] = row] /\ categories' = categories
  BY DEF WriteServiceType
<1>4. services'[id] = row /\ \A s \in Services : s # id => services'[s] = services[s]
  BY <1>1, <1>3 DEF CatalogueOK
<1>5. IsTree(categories) /\ Filed(categories, services) /\ LabelsMatch(categories, services)
      /\ ShortcutsAreOrdered(services)
  BY DEF HangTogether
<1> HIDE DEF id, row
<1>6. Filed(categories', services')
  BY <1>2, <1>3, <1>4, <1>5 DEF Filed
<1>7. LabelsMatch(categories', services')
  <2> SUFFICES ASSUME NEW s \in Services, services'[s] # absent
               PROVE  services'[s].label = IF services'[s].form.category = None THEN NoName
                                           ELSE categories'[services'[s].form.category].name
    BY DEF LabelsMatch
  <2> QED
    BY <1>2, <1>3, <1>4, <1>5 DEF LabelsMatch
<1>8. ShortcutsAreOrdered(services')
  <2>1. \A s \in Shortcuts(services') : s \in Shortcuts(services) /\ services'[s].order = services[s].order
    <3> SUFFICES ASSUME NEW s \in Services, services'[s] # absent, services'[s].promoted
                 PROVE  services[s] # absent /\ services[s].promoted /\ services'[s].order = services[s].order
      BY DEF Shortcuts
    <3>1. CASE s = id
      BY <1>2, <1>4, <3>1
    <3>2. CASE s # id
      BY <1>4, <3>2
    <3> QED
      BY <3>1, <3>2
  <2> QED
    BY <1>5, <2>1 DEF ShortcutsAreOrdered
<1>9. HangTogether(categories', services')
  BY <1>3, <1>5, <1>6, <1>7, <1>8 DEF HangTogether
<1> QED
  BY <1>9 DEF HangTogether, IsTree, Filed, LabelsMatch, ShortcutsAreOrdered, Shortcuts

LEMMA WithdrawsRight ==
  ASSUME CatalogueOK, HangTogether(categories, services), NEW h \in Handlers, edit[h] \in WithdrawalCalls,
         Archive(h) \/ RemoveServiceType(h)
  PROVE  HangTogether(categories, services)'
<1> DEFINE id == edit[h].id
<1>1. id \in Services /\ categories' = categories
  BY DEF WithdrawalCalls, Archive, RemoveServiceType
<1>2. \/ services' = services
      \/ /\ services[id] # absent
         /\ services' = [services EXCEPT ![id].form.state = "archived", ![id].promoted = FALSE]
      \/ services' = [services EXCEPT ![id] = absent]
  BY DEF Archive, RemoveServiceType
<1> HIDE DEF id
<1>3. CASE services' = services
  BY <1>1, <1>3, SameServicesHang
<1>4. \A s \in Services : s # id => services'[s] = services[s]
  BY Zenon, <1>1, <1>2, ArchivedAre DEF CatalogueOK
<1>5. ASSUME services' # services
      PROVE  services'[id] # absent =>
               /\ services[id] # absent /\ services'[id].form.category = services[id].form.category
               /\ services'[id].label = services[id].label /\ services'[id].promoted = FALSE
  BY Zenon, <1>1, <1>2, <1>5, ArchivedAre DEF CatalogueOK
<1>6. CASE services' # services
  <2>1. \A s \in Services : services'[s] # absent =>
            /\ services[s] # absent /\ services'[s].form.category = services[s].form.category
            /\ services'[s].label = services[s].label
    BY Zenon, <1>4, <1>5, <1>6
  <2>2. \A s \in Shortcuts(services') : s \in Shortcuts(services) /\ services'[s].order = services[s].order
    <3> SUFFICES ASSUME NEW s \in Services, services'[s] # absent, services'[s].promoted
                 PROVE  services[s] # absent /\ services[s].promoted /\ services'[s].order = services[s].order
      BY DEF Shortcuts
    <3>1. s # id
      BY Zenon, <1>5, <1>6
    <3> QED
      BY <1>4, <3>1
  <2>3. ShortcutsAreOrdered(services')
    BY <2>2 DEF HangTogether, ShortcutsAreOrdered
  <2> QED
    BY <1>1, <2>1, <2>3, ServicesHang
<1> QED
  BY <1>3, <1>6

LEMMA PromotesRight ==
  ASSUME CatalogueOK, HangTogether(categories, services), NEW h \in Handlers, edit[h] \in FrontCalls, Promote(h)
  PROVE  HangTogether(categories, services)'
<1> DEFINE list == edit[h].list
<1>1. list \in Seq(Services) /\ Len(list) <= MaxPromoted
  BY DEF FrontCalls
<1>2. services' = Promoted(list) /\ categories' = categories
  BY DEF Promote
<1> HIDE DEF list
<1>3. \A s \in Services : services'[s] # absent =>
            /\ services[s] # absent /\ services'[s].form.category = services[s].form.category
            /\ services'[s].label = services[s].label
  BY <1>1, <1>2, PromotedAre
<1>4. \A s \in Shortcuts(services') : \E i \in 1..Len(list) : list[i] = s /\ services'[s].order = i - 1
  <2> SUFFICES ASSUME NEW s \in Services, services'[s] # absent, services'[s].promoted
               PROVE  \E i \in 1..Len(list) : list[i] = s /\ services'[s].order = i - 1
    BY DEF Shortcuts
  <2>1. services[s] # absent
    BY <1>3
  <2> QED
    BY <1>1, <1>2, <2>1, PromotedAre
<1>5. ShortcutsAreOrdered(services')
  <2> SUFFICES ASSUME NEW s \in Shortcuts(services'), NEW t \in Shortcuts(services'),
                      services'[s].order = services'[t].order
               PROVE  s = t
    BY DEF ShortcutsAreOrdered
  <2>1. PICK i \in 1..Len(list) : list[i] = s /\ services'[s].order = i - 1
    BY <1>4
  <2>2. PICK j \in 1..Len(list) : list[j] = t /\ services'[t].order = j - 1
    BY <1>4
  <2>3. i \in Int /\ j \in Int
    BY <1>1
  <2>4. i = j
    <3>1. i - 1 = j - 1
      BY Zenon, <2>1, <2>2
    <3> QED
      BY <2>3, <3>1
  <2> QED
    BY <2>1, <2>2, <2>4
<1> QED
  BY <1>2, <1>3, <1>5, ServicesHang
LEMMA PublishesRight ==
  ASSUME CatalogueOK, EditsOK, NEW h \in Handlers, HoldsNow(edit[h]), PublishNotice(h), VersionsAscend
  PROVE  VersionsAscend'
<1> DEFINE at == edit[h]
           n == Len(notices)
<1>0. /\ at \in NoticeCalls
      /\ notices' \in Seq(Notice) /\ Len(notices') = n + 1
      /\ \A i \in 1..n : notices'[i] = IF notices[i].scope = at.scope
                                     THEN [notices[i] EXCEPT !.superseded = TRUE] ELSE notices[i]
      /\ notices'[n + 1] = [scope |-> at.scope, version |-> at.version, body |-> at.body, superseded |-> FALSE]
  BY PublishedAre
<1>1. at.op = "SaveCollectionNotice" /\ at.version \in Nat
  BY <1>0 DEF NoticeCalls
<1>2. /\ n \in Nat
      /\ DOMAIN notices = 1..n /\ DOMAIN notices' = 1..(n + 1)
  BY <1>0 DEF CatalogueOK
<1>3. \A i \in 1..n : notices[i] \in Notice
  BY <1>2 DEF CatalogueOK
<1>4. \A i \in 1..n : notices'[i].scope = notices[i].scope /\ notices'[i].version = notices[i].version
  BY Zenon, <1>0, <1>3 DEF Notice
<1>5. notices'[n + 1].scope = at.scope /\ notices'[n + 1].version = at.version
  BY <1>0
<1>6. \A i \in 1..n : notices[i].scope = at.scope => notices[i].version < at.version
  BY <1>1, <1>2 DEF HoldsNow, HoldsRight, NumbersRight
<1> SUFFICES ASSUME NEW i \in 1..(n + 1), NEW j \in 1..(n + 1), i < j, notices'[i].scope = notices'[j].scope
             PROVE  notices'[i].version < notices'[j].version
  BY <1>2 DEF VersionsAscend
<1>7. i \in 1..n
  BY <1>2
<1>8. CASE j = n + 1
  BY <1>4, <1>5, <1>6, <1>7, <1>8
<1>9. CASE j # n + 1
  <2>1. j \in 1..n
    BY <1>2, <1>9
  <2>2. notices[i].version < notices[j].version
    BY <1>2, <1>4, <1>7, <2>1 DEF VersionsAscend
  <2> QED
    BY <1>4, <1>7, <2>1, <2>2
<1> QED
  BY <1>8, <1>9

LEMMA CommitsRight ==
  ASSUME CatalogueOK, EditsOK, HangTogether(categories, services), VersionsAscend,
         NEW h \in Handlers, HoldsNow(edit[h]), CommitStep(h)
  PROVE  HangTogether(categories, services)' /\ VersionsAscend'
<1>1. CASE WriteCategory(h)
  <2>1. edit[h] \in CategoryCalls /\ notices' = notices
    BY <1>1, CallsAre DEF EditsOK, WriteCategory, At
  <2>2. VersionsAscend'
    BY <2>1 DEF VersionsAscend
  <2> QED
    BY <1>1, <2>1, <2>2, SavesCategoryRight
<1>2. CASE RemoveCategory(h)
  <2>1. edit[h] \in RemovalCalls /\ notices' = notices
    BY <1>2, CallsAre DEF EditsOK, RemoveCategory, At
  <2>2. VersionsAscend'
    BY <2>1 DEF VersionsAscend
  <2> QED
    BY <1>2, <2>1, <2>2, RemovesCategoryRight
<1>3. CASE WriteServiceType(h)
  <2>1. edit[h] \in ServiceCalls /\ notices' = notices
    BY <1>3, CallsAre DEF EditsOK, WriteServiceType, At
  <2>2. VersionsAscend'
    BY <2>1 DEF VersionsAscend
  <2> QED
    BY <1>3, <2>1, <2>2, SavesServiceRight
<1>4. CASE Archive(h) \/ RemoveServiceType(h)
  <2>1. edit[h] \in WithdrawalCalls /\ notices' = notices
    BY <1>4, CallsAre DEF EditsOK, Archive, RemoveServiceType, At
  <2>2. VersionsAscend'
    BY <2>1 DEF VersionsAscend
  <2> QED
    BY <1>4, <2>1, <2>2, WithdrawsRight
<1>5. CASE Promote(h)
  <2>1. edit[h] \in FrontCalls /\ notices' = notices
    BY <1>5, CallsAre DEF EditsOK, Promote, At
  <2>2. VersionsAscend'
    BY <2>1 DEF VersionsAscend
  <2> QED
    BY <1>5, <2>1, <2>2, PromotesRight
<1>6. CASE PublishNotice(h)
  <2>1. UNCHANGED <<categories, services>>
    BY <1>6 DEF PublishNotice
  <2> QED
    BY <1>6, <2>1, SameServicesHang, PublishesRight
<1> QED
  BY <1>1, <1>2, <1>3, <1>4, <1>5, <1>6 DEF CommitStep

LEMMA GoodStep ==
  ASSUME EditsOK, CatalogueOK, MarksOK, GoodInv, [Next]_vars
  PROVE  GoodInv'
<1>1. ASSUME UNCHANGED tables
      PROVE  /\ \A at : HoldsRight(categories', services', notices', at) <=> HoldsNow(at)
             /\ HangTogether(categories, services) => HangTogether(categories, services)'
             /\ VersionsAscend => VersionsAscend'
  BY <1>1, SameServicesHang DEF tables, HoldsNow, VersionsAscend
<1>2. ASSUME NEW h \in Handlers, CommitStep(h)
      PROVE  GoodInv'
  <2>1. /\ edit' = [edit EXCEPT ![h] = idle]
        /\ late' = (late \cup {g \in Handlers : edit[g].op \in CatalogueOps}) \ {h}
        /\ raced' = (raced \/ h \in late)
    BY <1>2, CommitsAreDone DEF Done
  <2>2. CASE raced \/ h \in late
    <3>1. raced' = TRUE
      BY Zenon, <2>1, <2>2
    <3> QED
      BY <3>1 DEF GoodInv
  <2>3. CASE ~raced /\ h \notin late
    <3>1. Goodly /\ HoldsNow(edit[h])
      BY <2>3 DEF GoodInv, Goodly
    <3>2. HangTogether(categories, services)' /\ VersionsAscend'
      BY <1>2, <3>1, CommitsRight DEF Goodly
    <3>3. ASSUME NEW g \in Handlers, g \notin late', NEW at, at = edit'[g]
          PROVE  HoldsRight(categories', services', notices', at)
      <4>1. at.op \notin CatalogueOps
        <5>1. CASE g = h
          BY <2>1, <3>3, <5>1, Apart DEF EditsOK, CatalogueOps
        <5>2. CASE g # h
          BY <2>1, <3>3, <5>2 DEF EditsOK
        <5> QED
          BY <5>1, <5>2
      <4> QED
        BY <4>1 DEF HoldsRight, CatalogueOps
    <3>4. \A g \in Handlers : g \in late' \/ HoldsRight(categories', services', notices', edit'[g])
      BY <3>3
    <3> QED
      BY <3>2, <3>4 DEF GoodInv, Goodly, HoldsNow
  <2> QED
    BY <2>2, <2>3
<1>3. ASSUME NEW h \in Handlers, NEW v, GoesOn(h, v)
      PROVE  GoodInv'
  <2>1. /\ edit' = [edit EXCEPT ![h] = v] /\ UNCHANGED <<tables, raced>>
        /\ late' = late \/ late' = late \ {h}
        /\ HoldsNow(v) \/ (late' = late /\ ~HoldsNow(edit[h]))
    BY <1>3 DEF GoesOn, Quiet
  <2>2. CASE raced
    BY <2>1, <2>2 DEF GoodInv
  <2>3. CASE Goodly
    <3>1. ASSUME NEW g \in Handlers
          PROVE  g \in late' \/ HoldsRight(categories', services', notices', edit'[g])
      <4>1. g \in late \/ HoldsNow(edit[g])
        BY <2>3 DEF Goodly
      <4>2. CASE g = h
        BY <1>1, <2>1, <4>1, <4>2 DEF EditsOK
      <4>3. CASE g # h
        <5>1. edit'[g] = edit[g] /\ (g \in late => g \in late')
          BY <2>1, <4>3 DEF EditsOK
        <5> QED
          BY <1>1, <2>1, <4>1, <5>1
      <4> QED
        BY <4>2, <4>3
    <3>2. HangTogether(categories, services)' /\ VersionsAscend'
      BY <1>1, <2>1, <2>3 DEF Goodly
    <3> QED
      BY <3>1, <3>2 DEF GoodInv, Goodly, HoldsNow
  <2> QED
    BY <2>2, <2>3 DEF GoodInv
<1>4. CASE Aside
  <2>1. UNCHANGED <<tables, raced, edit, late>>
    BY <1>4 DEF Aside
  <2>2. CASE raced
    BY <2>1, <2>2 DEF GoodInv
  <2>3. CASE Goodly
    BY <1>1, <2>1, <2>3 DEF GoodInv, Goodly, HoldsNow
  <2> QED
    BY <2>2, <2>3 DEF GoodInv
<1>5. CASE Lost
  <2>1. UNCHANGED <<tables, raced>> /\ edit' = [g \in Handlers |-> idle]
    BY <1>5 DEF Lost
  <2>2. CASE raced
    BY <2>1, <2>2 DEF GoodInv
  <2>3. CASE Goodly
    <3>1. HoldsNow(idle)
      BY Apart, OthersHold
    <3>2. \A g \in Handlers : HoldsRight(categories', services', notices', edit'[g])
      BY <1>1, <2>1, <3>1
    <3>3. HangTogether(categories, services)' /\ VersionsAscend'
      BY <1>1, <2>1, <2>3 DEF Goodly
    <3> QED
      BY <3>2, <3>3 DEF GoodInv, Goodly, HoldsNow
  <2> QED
    BY <2>2, <2>3 DEF GoodInv
<1> QED
  BY <1>2, <1>3, <1>4, <1>5, CatalogueSide
-----------------------------------------------------------------------------
(* Whatever calls overlap: labels are names, and one notice stands.        *)
Named(names, row) == IF row.form.category = None THEN row.label = NoName
                     ELSE row.label \in names[row.form.category]

NameInv == /\ named \in [Categories -> SUBSET Names]
           /\ \A c \in Categories : categories[c] # absent => categories[c].name \in named[c]
           /\ \A s \in Services : services[s] # absent => Named(named, services[s])
           /\ \A h \in Handlers : edit[h].op = "SaveServiceType" => Named(named, edit[h].row)
           /\ LastNoticeStands

LEMMA NamesGrow ==
  ASSUME NameInv, EditsOK, CatalogueOK, NEW h \in Handlers, CommitStep(h)
  PROVE  /\ named' \in [Categories -> SUBSET Names]
         /\ \A c \in Categories : named[c] \subseteq named'[c]
         /\ \A c \in Categories : categories'[c] # absent => categories'[c].name \in named'[c]
<1>1. CASE WriteCategory(h)
  <2>1. edit[h] \in CategoryCallRows
    BY <1>1, CallsAre DEF EditsOK, WriteCategory, At, CategoryCalls
  <2>2. edit[h].id \in Categories /\ edit[h].row.name \in Names
    BY <2>1 DEF CategoryCallRows, Category
  <2>3. /\ categories' = [categories EXCEPT ![edit[h].id] = edit[h].row]
        /\ named' = [named EXCEPT ![edit[h].id] = @ \cup {edit[h].row.name}]
    BY <1>1 DEF WriteCategory
  <2> QED
    BY <2>2, <2>3 DEF NameInv, CatalogueOK
<1>2. CASE RemoveCategory(h)
  <2>1. named' = named /\ categories' = [categories EXCEPT ![edit[h].id] = absent]
    BY <1>2 DEF RemoveCategory
  <2> QED
    BY <2>1 DEF NameInv, CatalogueOK
<1>3. CASE named' = named /\ categories' = categories
  BY <1>3 DEF NameInv
<1> QED
  BY <1>1, <1>2, <1>3
     DEF CommitStep, WriteServiceType, Archive, RemoveServiceType, Promote, PublishNotice

LEMMA LabelsStayNames ==
  ASSUME NameInv, EditsOK, CatalogueOK, NEW h \in Handlers, CommitStep(h), NEW s \in Services, services'[s] # absent
  PROVE  Named(named', services'[s])
<1>1. \A c \in Categories : named[c] \subseteq named'[c]
  BY NamesGrow
<1>2. \A t \in Services : services[t] # absent =>
         Named(named, services[t]) /\ services[t].form.category \in Categories \cup {None}
  BY DEF NameInv, CatalogueOK, Service, Form
<1>3. ASSUME services[s] # absent, services'[s].form.category = services[s].form.category,
             services'[s].label = services[s].label
      PROVE  Named(named', services'[s])
  BY <1>1, <1>2, <1>3 DEF Named
<1>4. CASE services'[s] = services[s]
  BY <1>3, <1>4
<1>5. CASE WriteCategory(h)
  <2> DEFINE at == edit[h]
  <2>1. at \in CategoryCallRows
    BY <1>5, CallsAre DEF EditsOK, WriteCategory, At, CategoryCalls
  <2>2. at.id \in Categories /\ at.row.name \in Names
    BY <2>1 DEF CategoryCallRows, Category
  <2>3. CASE services' = services
    BY <1>4, <2>3
  <2>4. CASE services' = Relabelled(at.id, at.row.name)
    <3>1. /\ services[s] # absent /\ services'[s].form = services[s].form
          /\ services'[s].label = IF services[s].form.category = at.id THEN at.row.name ELSE services[s].label
      BY <2>2, <2>4, RelabelledAre
    <3>2. at.row.name \in named'[at.id] /\ at.id # None
      BY <1>5, <2>2, CatalogueConstants DEF NameInv, WriteCategory
    <3> QED
      BY <1>3, <3>1, <3>2 DEF Named
  <2> QED
    BY <1>5, <2>3, <2>4 DEF WriteCategory
<1>6. CASE WriteServiceType(h)
  <2>1. edit[h] \in ServiceCalls /\ edit[h].op = "SaveServiceType"
    BY <1>6, CallsAre DEF EditsOK, WriteServiceType, At
  <2>2. CASE s = edit[h].id
    <3>1. services'[s] = edit[h].row
      BY <1>6, <2>2 DEF WriteServiceType, CatalogueOK
    <3>2. edit[h].row.form.category \in Categories \cup {None}
      BY <2>1 DEF ServiceCalls, Service, Form
    <3>3. Named(named, edit[h].row)
      BY <2>1 DEF NameInv
    <3> QED
      BY <1>1, <3>1, <3>2, <3>3 DEF Named
  <2>3. CASE s # edit[h].id
    BY <1>4, <1>6, <2>3 DEF WriteServiceType, CatalogueOK
  <2> QED
    BY <2>2, <2>3
<1>7. CASE Archive(h)
  <2>1. edit[h].id \in Services
    BY <1>7, CallsAre DEF EditsOK, Archive, At, WithdrawalCalls
  <2>2. CASE services[edit[h].id] # absent
    BY Zenon, <1>3, <1>4, <1>7, <2>1, <2>2, ArchivedAre DEF Archive
  <2> QED
    BY <1>4, <1>7, <2>2 DEF Archive
<1>8. CASE RemoveServiceType(h)
  BY <1>4, <1>8 DEF RemoveServiceType, CatalogueOK
<1>9. CASE Promote(h)
  <2>1. edit[h].list \in Seq(Services) /\ Len(edit[h].list) <= MaxPromoted
    BY <1>9, CallsAre DEF EditsOK, Promote, At, FrontCalls
  <2> QED
    BY <1>3, <1>9, <2>1, PromotedAre DEF Promote
<1> QED
  BY <1>4, <1>5, <1>6, <1>7, <1>8, <1>9 DEF CommitStep, RemoveCategory, PublishNotice

LEMMA LastStillStands ==
  ASSUME LastNoticeStands, EditsOK, CatalogueOK, NEW h \in Handlers, CommitStep(h)
  PROVE  LastNoticeStands'
<1>1. CASE notices' = notices
  BY <1>1 DEF LastNoticeStands
<1>2. CASE PublishNotice(h)
  <2> DEFINE at == edit[h]
             n == Len(notices)
  <2>1. /\ notices' \in Seq(Notice) /\ Len(notices') = n + 1
        /\ \A i \in 1..n : notices'[i] = IF notices[i].scope = at.scope
                                       THEN [notices[i] EXCEPT !.superseded = TRUE] ELSE notices[i]
        /\ notices'[n + 1] = [scope |-> at.scope, version |-> at.version, body |-> at.body, superseded |-> FALSE]
    BY <1>2, PublishedAre
  <2>2. /\ n \in Nat /\ DOMAIN notices = 1..n /\ DOMAIN notices' = 1..(n + 1)
    BY <2>1 DEF CatalogueOK
  <2>3. \A i \in 1..n : notices[i] \in Notice
    BY <2>2 DEF CatalogueOK
  <2>4. \A i \in 1..n : /\ notices'[i].scope = notices[i].scope
                        /\ notices'[i].superseded = IF notices[i].scope = at.scope THEN TRUE ELSE notices[i].superseded
    BY Zenon, <2>1, <2>3 DEF Notice
  <2>5. notices'[n + 1].scope = at.scope
    BY <2>1
  <2> SUFFICES ASSUME NEW i \in 1..(n + 1), NEW j \in 1..(n + 1), i < j, notices'[i].scope = notices'[j].scope
               PROVE  notices'[i].superseded
    BY <2>2 DEF LastNoticeStands
  <2>6. i \in 1..n
    BY <2>2
  <2>7. CASE notices[i].scope = at.scope
    BY Zenon, <2>4, <2>6, <2>7
  <2>8. CASE notices[i].scope # at.scope
    <3>1. j # n + 1
      BY Zenon, <2>4, <2>5, <2>6, <2>8
    <3>2. j \in 1..n
      BY <2>2, <3>1
    <3>3. notices[i].superseded
      BY Zenon, <2>2, <2>4, <2>6, <3>2 DEF LastNoticeStands
    <3> QED
      BY Zenon, <2>4, <2>6, <2>8, <3>3
  <2> QED
    BY <2>7, <2>8
<1> QED
  BY <1>1, <1>2 DEF CommitStep, WriteCategory, RemoveCategory, WriteServiceType, Archive, RemoveServiceType, Promote

LEMMA NameStep ==
  ASSUME NameInv, EditsOK, CatalogueOK, [Next]_vars
  PROVE  NameInv'
<1>1. ASSUME NEW h \in Handlers, CommitStep(h)
      PROVE  NameInv'
  <2>1. edit' = [edit EXCEPT ![h] = idle]
    BY <1>1, CommitsAreDone DEF Done
  <2>2. /\ named' \in [Categories -> SUBSET Names]
        /\ \A c \in Categories : named[c] \subseteq named'[c]
        /\ \A c \in Categories : categories'[c] # absent => categories'[c].name \in named'[c]
    BY <1>1, NamesGrow
  <2>3. ASSUME NEW g \in Handlers, edit'[g].op = "SaveServiceType"
        PROVE  Named(named', edit'[g].row)
    <3>1. edit'[g] = edit[g]
      BY <2>1, <2>3, Apart DEF EditsOK
    <3>2. edit[g] \in ServiceCalls
      BY <2>3, <3>1, CallsAre DEF EditsOK
    <3>3. edit[g].row.form.category \in Categories \cup {None} /\ Named(named, edit[g].row)
      BY <2>3, <3>1, <3>2 DEF ServiceCalls, Service, Form, NameInv
    <3> QED
      BY <2>2, <3>1, <3>3 DEF Named
  <2>4. \A s \in Services : services'[s] # absent => Named(named', services'[s])
    BY <1>1, LabelsStayNames
  <2>5. LastNoticeStands'
    BY <1>1, LastStillStands DEF NameInv
  <2> QED
    BY <2>2, <2>3, <2>4, <2>5 DEF NameInv
<1>2. ASSUME UNCHANGED <<tables, named>>,
             \A g \in Handlers : edit'[g].op = "SaveServiceType" => Named(named', edit'[g].row)
      PROVE  NameInv'
  <2>1. LastNoticeStands'
    BY <1>2 DEF NameInv, LastNoticeStands, tables
  <2>2. UNCHANGED <<categories, services, named>>
    BY <1>2 DEF tables
  <2> QED
    BY <1>2, <2>1, <2>2 DEF NameInv
<1>3. ASSUME NEW h \in Handlers, NEW v, GoesOn(h, v)
      PROVE  NameInv'
  <2>1. /\ edit' = [edit EXCEPT ![h] = v] /\ UNCHANGED <<tables, named>> /\ EditFits(v)
        /\ v.op = "SaveServiceType" => HoldsNow(v) \/ LabelStays(edit[h], v)
    BY <1>3 DEF GoesOn, Quiet
  <2>2. ASSUME v.op = "SaveServiceType"
        PROVE  Named(named, v.row)
    <3>1. v.row.form.category \in Categories \cup {None}
      BY <2>1, <2>2, CallsAre DEF ServiceCalls, Service, Form
    <3>2. CASE HoldsNow(v)
      <4>1. FilesRight(categories, services, v)
        BY <2>2, <3>2 DEF HoldsNow, HoldsRight
      <4> QED
        BY <3>1, <4>1 DEF FilesRight, NameInv, Named
    <3>3. CASE LabelStays(edit[h], v)
      BY <3>3 DEF LabelStays, NameInv, Named
    <3> QED
      BY <2>1, <2>2, <3>2, <3>3
  <2>3. \A g \in Handlers : edit'[g].op = "SaveServiceType" => Named(named', edit'[g].row)
    BY <2>1, <2>2 DEF EditsOK, NameInv
  <2> QED
    BY <1>2, <2>1, <2>3
<1>4. CASE Aside
  BY <1>2, <1>4 DEF Aside, NameInv
<1>5. CASE Lost
  BY <1>2, <1>5, Apart DEF Lost
<1> QED
  BY <1>1, <1>3, <1>4, <1>5, CatalogueSide

LEMMA CatalogueInits == Init => NameInv /\ GoodInv
<1> SUFFICES ASSUME Init
             PROVE  NameInv /\ GoodInv
  OBVIOUS
<1>1. EditsOK /\ CatalogueOK
  BY TypeInit DEF TypeInv
<1>2. HangTogether(categories, services) /\ notices = <<>>
  BY CatalogueConstants DEF Init
<1>3. VersionsAscend /\ LastNoticeStands
  BY <1>2 DEF VersionsAscend, LastNoticeStands
<1>4. \A h \in Handlers : edit[h] = idle
  BY DEF Init
<1>5. GoodInv
  BY <1>2, <1>3, <1>4, Apart, OthersHold DEF GoodInv, Goodly
<1>6. named = [c \in Categories |-> IF categories[c] = absent THEN {} ELSE {categories[c].name}]
  BY DEF Init
<1>7. /\ named \in [Categories -> SUBSET Names]
      /\ \A c \in Categories : categories[c] # absent => categories[c].name \in named[c]
  BY <1>1, <1>6, CategoryIs
<1>8. ASSUME NEW s \in Services, services[s] # absent
      PROVE  Named(named, services[s])
  <2>1. services[s].form.category \in Categories \cup {None}
    BY <1>1, <1>8 DEF CatalogueOK, Service, Form
  <2>2. services[s].label = IF services[s].form.category = None THEN NoName
                            ELSE categories[services[s].form.category].name
    BY <1>2, <1>8 DEF HangTogether, LabelsMatch
  <2>3. services[s].form.category # None => categories[services[s].form.category] # absent
    BY <1>2, <1>8 DEF HangTogether, Filed
  <2> QED
    BY <1>7, <2>1, <2>2, <2>3 DEF Named
<1> QED
  BY <1>3, <1>4, <1>5, <1>7, <1>8, Apart DEF NameInv
CatalogueInv == EditsOK /\ CatalogueOK /\ MarksOK /\ NameInv /\ GoodInv

LEMMA CatalogueStays == CatalogueInv /\ [Next]_vars => CatalogueInv'
<1> SUFFICES ASSUME CatalogueInv, [Next]_vars
             PROVE  CatalogueInv'
  OBVIOUS
<1>1. EditsOK' /\ CatalogueOK' /\ MarksOK'
  BY CatalogueTypes DEF CatalogueInv
<1>2. NameInv'
  BY NameStep DEF CatalogueInv
<1>3. GoodInv'
  BY GoodStep DEF CatalogueInv
<1> QED
  BY <1>1, <1>2, <1>3 DEF CatalogueInv

(* The catalogue hangs together (SaveCategory, DeleteCategory,             *)
(* SaveServiceType, SetPromoted, SaveCollectionNotice), for any categories *)
(* and services and however many calls overlap.                            *)
THEOREM CatalogueAlwaysHangs == Spec => []CatalogueHangsTogether
<1>1. Init => CatalogueInv
  BY CatalogueInits, TypeInit DEF CatalogueInv, TypeInv
<1>2. CatalogueInv => CatalogueHangsTogether
  <2> SUFFICES ASSUME CatalogueInv
               PROVE  CatalogueHangsTogether
    OBVIOUS
  <2>1. LabelsAreNames
    BY DEF CatalogueInv, NameInv, LabelsAreNames, Named
  <2>2. LastNoticeStands
    BY DEF CatalogueInv, NameInv
  <2>3. ~raced => HangTogether(categories, services) /\ VersionsAscend
    BY DEF CatalogueInv, GoodInv, Goodly
  <2> QED
    BY <2>1, <2>2, <2>3 DEF CatalogueHangsTogether
<1> QED
  BY <1>1, <1>2, CatalogueStays, PTL DEF Spec
-----------------------------------------------------------------------------
(* Types of the desk.                                                      *)
LEMMA TypesStarted ==
  ASSUME TurnsOK, NEW Q, StartsOver(Q)
  PROVE  turns' \in [Queues -> [Members -> Nat]] /\ slips' \in [Queues -> Nat]
BY DEF TurnsOK, StartsOver

LEMMA DeskEditTypes ==
  ASSUME DeskOK, TurnsOK, NEW h \in Handlers, DeskEdits(h)
  PROVE  DeskOK' /\ TurnsOK'
<1>1. CASE RuleEdits(h)
  <2>1. ASSUME NEW p \in ToSet(Places), NEW rule \in Rules, SaveRule(h, p, rule)
        PROVE  DeskOK' /\ TurnsOK'
    <3>1. [rule EXCEPT !.active = TRUE] \in Rules
      BY DeskConstants
    <3>2. /\ rules' = [rules EXCEPT ![p] = IF rules[p] = absent THEN [rule EXCEPT !.active = TRUE] ELSE rule]
          /\ UNCHANGED <<queues, staff, policies, calendars, cache, turns, slips, overtaken>>
      BY <2>1 DEF SaveRule, deskHistory
    <3> QED
      BY <3>1, <3>2 DEF DeskOK, TurnsOK
  <2>2. ASSUME NEW p \in ToSet(Places), DeleteRule(h, p)
        PROVE  DeskOK' /\ TurnsOK'
    BY <2>2 DEF DeleteRule, deskHistory, DeskOK, TurnsOK
  <2> QED
    BY <1>1, <2>1, <2>2 DEF RuleEdits
<1>2. CASE QueueEdits(h)
  <2>1. ASSUME NEW q \in Queues, NEW form \in QueueForm, SaveQueue(h, q, form)
        PROVE  DeskOK' /\ TurnsOK'
    <3> DEFINE members == IF queues[q] = absent THEN {} ELSE queues[q].members
    <3>1. /\ queues' = [queues EXCEPT ![q] = [form |-> form, cursor |-> 0, members |-> members]]
          /\ UNCHANGED <<rules, staff, policies, calendars, cache, overtaken>> /\ StartsOver({q})
      BY <2>1 DEF SaveQueue
    <3>2. members \subseteq Members /\ 0 \in 0..(CursorModulus - 1)
      BY DeskConstants DEF DeskOK, Queue
    <3> HIDE DEF members
    <3>3. [form |-> form, cursor |-> 0, members |-> members] \in Queue
      BY <3>2 DEF Queue
    <3> QED
      BY <3>1, <3>3, TypesStarted DEF DeskOK, TurnsOK
  <2>2. ASSUME NEW q \in Queues, NEW members \in SUBSET ToSet(Users), SetQueueMembers(h, q, members)
        PROVE  DeskOK' /\ TurnsOK'
    <3> DEFINE all == members \cup (queues[q].members \cap Systems)
    <3>1. /\ queues' = [queues EXCEPT ![q] = [queues[q] EXCEPT !.members = all]] /\ queues[q] # absent
          /\ UNCHANGED <<rules, staff, policies, calendars, cache, overtaken>> /\ StartsOver({q})
      BY <2>2 DEF SetQueueMembers, DeskOK, Queue
    <3>2. all \subseteq Members
      BY DEF Members
    <3> HIDE DEF all
    <3>3. [queues[q] EXCEPT !.members = all] \in Queue
      BY <3>1, <3>2 DEF DeskOK, Queue
    <3> QED
      BY <3>1, <3>3, TypesStarted DEF DeskOK, TurnsOK
  <2>3. ASSUME NEW q \in Queues, DeleteQueue(h, q)
        PROVE  DeskOK' /\ TurnsOK'
    BY <2>3 DEF DeleteQueue, deskVars, deskTables, deskHistory, DeskOK, TurnsOK
  <2> QED
    BY <1>2, <2>1, <2>2, <2>3 DEF QueueEdits
<1>3. CASE PolicyEdits(h)
  <2>1. ASSUME NEW p \in Policies, NEW form \in PolicyForms, SaveSLAPolicy(h, p, form)
        PROVE  DeskOK' /\ TurnsOK'
    BY <2>1 DEF SaveSLAPolicy, deskHistory, DeskOK, TurnsOK, SavedPolicies
  <2>2. ASSUME NEW k \in Calendars, NEW row \in Calendar, SaveCalendar(h, k, row)
        PROVE  DeskOK' /\ TurnsOK'
    BY <2>2 DEF SaveCalendar, deskHistory, DeskOK, TurnsOK
  <2> QED
    BY <1>3, <2>1, <2>2 DEF PolicyEdits
<1>4. ASSUME NEW u \in Members, ChangeStatus(h, u)
      PROVE  DeskOK' /\ TurnsOK'
  <2>1. /\ staff' = IF u \in staff THEN staff \ {u} ELSE staff \cup {u}
        /\ UNCHANGED <<rules, queues, policies, calendars, cache, overtaken>>
        /\ StartsOver({q \in Queues : queues[q] # absent /\ u \in queues[q].members})
    BY <1>4 DEF ChangeStatus
  <2> QED
    BY <2>1, TypesStarted DEF DeskOK, TurnsOK
<1>5. CASE RemoveQueue(h)
  <2>1. /\ queues' = [queues EXCEPT ![edit[h].id] = absent]
        /\ UNCHANGED <<rules, staff, policies, calendars, cache, overtaken>> /\ StartsOver({edit[h].id})
    BY <1>5 DEF RemoveQueue
  <2> QED
    BY Zenon, <2>1, TypesStarted DEF DeskOK, TurnsOK
<1>6. CASE DropCalendar(h)
  BY Zenon, <1>6 DEF DropCalendar, Without, deskTables, DeskOK, TurnsOK
<1> QED
  BY <1>1, <1>2, <1>3, <1>4, <1>5, <1>6 DEF DeskEdits, Desked, DeskStep

LEMMA InTurnIs ==
  ASSUME NEW X, NEW e \in Seq(X), e # <<>>, NEW c \in Nat
  PROVE  (c % Len(e)) + 1 \in 1..Len(e) /\ InTurn(e, c) \in X
<1>1. Len(e) \in Nat /\ Len(e) > 0
  OBVIOUS
<1>2. c % Len(e) \in 0..(Len(e) - 1)
  BY <1>1
<1>3. (c % Len(e)) + 1 \in 1..Len(e)
  BY <1>1, <1>2
<1> QED
  BY <1>3 DEF InTurn

LEMMA GiveTurnTypes ==
  ASSUME DeskOK, TurnsOK, NEW q \in Queues, NEW e \in Seq(ToSet(Users)), e # <<>>,
         NEW c \in 0..(CursorModulus - 1), GiveTurn(q, e, c)
  PROVE  /\ queues' \in [Queues -> Queue \cup {absent}]
         /\ turns' \in [Queues -> [Members -> Nat]] /\ slips' \in [Queues -> Nat]
<1>1. CursorModulus \in Nat /\ CursorModulus > 0 /\ c \in Nat
  BY DeskConstants
<1>2. Rotated(c) \in 0..(CursorModulus - 1)
  BY <1>1 DEF Rotated
<1>3. queues' \in [Queues -> Queue \cup {absent}]
  <2> DEFINE next == Rotated(c)
  <2>1. queues' = [queues EXCEPT ![q] = IF @ = absent THEN absent ELSE [@ EXCEPT !.cursor = next]]
    BY DEF GiveTurn
  <2>2. next \in 0..(CursorModulus - 1)
    BY <1>2
  <2> HIDE DEF next
  <2>3. queues[q] # absent => [queues[q] EXCEPT !.cursor = next] \in Queue
    BY Zenon, <2>2 DEF DeskOK, Queue
  <2> QED
    BY <2>1, <2>3 DEF DeskOK
<1>4. CASE queues[q] = absent
  BY <1>3, <1>4 DEF GiveTurn, TurnsOK
<1>5. CASE queues[q] # absent
  <2> DEFINE u == InTurn(e, c)
  <2>1. turns' = [turns EXCEPT ![q][u] = @ + 1]
    BY <1>5 DEF GiveTurn
  <2>2. u \in Members
    BY <1>1, InTurnIs DEF Members
  <2> HIDE DEF u
  <2>3. turns' \in [Queues -> [Members -> Nat]]
    BY <2>1, <2>2 DEF TurnsOK
  <2> DEFINE n == IF Slips(q, e, c) THEN 1 ELSE 0
  <2>4. slips' = [slips EXCEPT ![q] = @ + n]
    BY <1>5 DEF GiveTurn
  <2>5. n \in Nat
    OBVIOUS
  <2> HIDE DEF n
  <2>6. slips' \in [Queues -> Nat]
    BY <2>4, <2>5 DEF TurnsOK
  <2> QED
    BY <1>3, <2>3, <2>6
<1> QED
  BY <1>4, <1>5
-----------------------------------------------------------------------------
(* Types of submissions.                                                   *)
LEMMA ListedRules ==
  ASSUME DeskOK
  PROVE  /\ ListRules \in Seq(ToSet(Places))
         /\ ToSet(ListRules) = {p \in ToSet(Places) : rules[p] # absent /\ rules[p].active}
         /\ \A i \in DOMAIN ListRules : rules[ListRules[i]] \in Rules
<1> DEFINE S == {p \in ToSet(Places) : rules[p] # absent /\ rules[p].active}
<1>1. ListRules = Those(Places, S)
  BY DEF ListRules
<1> HIDE DEF S
<1>2. ListRules \in Seq(ToSet(Places)) /\ ToSet(ListRules) = ToSet(Places) \cap S
  BY <1>1, ThoseAre, DeskConstants
<1>3. ToSet(ListRules) = S
  BY <1>2 DEF S
<1>4. ASSUME NEW i \in DOMAIN ListRules
      PROVE  rules[ListRules[i]] \in Rules
  <2>1. ListRules[i] \in S
    BY <1>3 DEF ToSet
  <2> QED
    BY <2>1 DEF S, DeskOK
<1> QED
  BY <1>2, <1>3, <1>4 DEF S

LEMMA OutcomesAre ==
  ASSUME DeskOK, NEW facts, NEW o \in Outcomes
  PROVE  \/ Evaluate(ListRules, rules, facts).outcomes[o] = NoOutcome
         \/ \E rule \in Rules : Evaluate(ListRules, rules, facts).outcomes[o] = rule.actions.outcomes[o]
<1>1. Evaluate(ListRules, rules, facts).outcomes[o] = FirstOutcome(ListRules, rules, facts, o)
  BY ListedRules, EvaluateDecides
<1> DEFINE F == Fired(ListRules, rules, facts)
<1>2. F \subseteq DOMAIN ListRules
  BY DEF Fired, Candidates
<1> HIDE DEF F
<1>3. CASE \A j \in F : Said(rules, ListRules, j, o) = NoOutcome
  BY <1>1, <1>3, ListedRules, FirstIsFirst DEF F
<1>4. CASE \E j \in F : Said(rules, ListRules, j, o) # NoOutcome
  <2> DEFINE S == {j \in F : Said(rules, ListRules, j, o) # NoOutcome}
  <2>1. S \subseteq Nat /\ S # {}
    BY <1>2, <1>4, ListedRules
  <2>2. PICK k \in S : \A j \in S : k <= j
    BY Zenon, <2>1, LeastOf
  <2>3. IsFirst(F, rules, ListRules, o, k)
    BY <2>2 DEF IsFirst
  <2>4. FirstOutcome(ListRules, rules, facts, o) = Said(rules, ListRules, k, o)
    BY <2>3, ListedRules, FirstIsFirst DEF F
  <2>5. rules[ListRules[k]] \in Rules
    BY <1>2, <2>2, ListedRules
  <2> QED
    BY <1>1, <2>4, <2>5 DEF Said
<1> QED
  BY <1>3, <1>4

LEMMA OneFiling ==
  ASSUME FilingsOK, NEW f \in Filers, NEW v, FilingFits(v), filing' = [filing EXCEPT ![f] = v]
  PROVE  FilingsOK'
<1>1. \A g \in Filers : filing'[g] = IF g = f THEN v ELSE filing[g]
  BY DEF FilingsOK
<1>2. filing' = [g \in Filers |-> filing'[g]]
  BY DEF FilingsOK
<1>3. ASSUME NEW g \in Filers, NEW at, at = filing'[g]
      PROVE  FilingFits(at)
  BY <1>1, <1>3 DEF FilingsOK
<1> QED
  BY Zenon, <1>2, <1>3 DEF FilingsOK, FilingFits

LEMMA FilingIs ==
  ASSUME FilingsOK, NEW f \in Filers, filing[f] # idle
  PROVE  /\ FilingFits(filing[f]) /\ filing[f] = [k \in FilingFields |-> filing[f][k]]
         /\ filing[f].pc \in FilingSteps /\ filing[f].report.service \in Services
BY DEF FilingsOK, FilingFits

LEMMA NoFilingFits == FilingFits(idle)
BY DEF FilingFits

(* A step that only goes on to a place that asks for nothing more.         *)
LEMMA FilingJumps ==
  ASSUME FilingsOK, NEW f \in Filers, filing[f] # idle, filing[f].pc # "read",
         NEW pc \in {"policy", "insert", "rows"}, pc = "rows" => filing[f].pc = "hours", Now(f, pc)
  PROVE  FilingsOK'
<1> DEFINE at == filing[f]
           v == [at EXCEPT !.pc = pc]
<1>1. filing' = [filing EXCEPT ![f] = v]
  BY DEF Now, FilingsOK
<1>2. FilingFits(at) /\ at = [k \in FilingFields |-> at[k]]
  BY FilingIs
<1>3. /\ v = [k \in FilingFields |-> v[k]] /\ v.pc = pc /\ v.report = at.report /\ v.placed = at.placed
      /\ v.policy = at.policy
  BY <1>2 DEF FilingFields
<1>4. at.pc = "hours" => at.policy \in SavedPolicies
  BY <1>2 DEF FilingFits
<1> HIDE DEF v
<1>5. FilingFits(v)
  BY Zenon, <1>2, <1>3, <1>4 DEF FilingFits, FilingSteps
<1> QED
  BY Zenon, <1>1, <1>5, OneFiling
LEMMA SubmitFits ==
  ASSUME FilingsOK, CatalogueOK, NEW f \in Filers, NEW report \in load.reports, NEW shown, Submit(f, report, shown)
  PROVE  FilingsOK'
<1> DEFINE v == [pc |-> "read", report |-> report, shown |-> shown, row |-> None, category |-> NoName,
                 fields |-> <<>>, answers |-> report.answers, placed |-> NoDecision, tags |-> {}, ruled |-> absent,
                 eligible |-> <<>>, cursor |-> 0, policy |-> absent, hours |-> absent]
<1>1. filing' = [filing EXCEPT ![f] = v]
  BY DEF Submit
<1>2. v = [k \in FilingFields |-> v[k]] /\ v.pc = "read" /\ v.report = report
  BY Zenon DEF FilingFields
<1>3. report.service \in Services
  BY TriageConstants DEF CatalogueOK
<1> HIDE DEF v
<1>4. FilingFits(v)
  BY <1>2, <1>3 DEF FilingFits, FilingSteps
<1> QED
  BY Zenon, <1>1, <1>4, OneFiling

LEMMA ReadServiceFits ==
  ASSUME FilingsOK, CatalogueOK, NEW f \in Filers, ReadService(f)
  PROVE  FilingsOK'
<1> DEFINE at == filing[f]
           s == at.report.service
           given == services[s].form.defaults
<1>1. CASE Stops(f)
  BY Zenon, <1>1, NoFilingFits, OneFiling DEF Stops
<1>2. ASSUME LiveAt(s, at.report.at), NEW answers,
             filing' = [filing EXCEPT
                   ![f].pc = "route", ![f].tags = at.report.tags, ![f].category = services[s].label,
                   ![f].fields = services[s].form.fields, ![f].answers = answers,
                   ![f].placed = [NoDecision EXCEPT
                      !["queue"] = services[s].form.defaults.queue,
                      !["policy"] = services[s].form.defaults.policy,
                      !["priority"] = IF at.report.priority = NoOutcome THEN services[s].form.defaults.priority
                                      ELSE at.report.priority]]
      PROVE  FilingsOK'
  <2> DEFINE priority == IF at.report.priority = NoOutcome THEN given.priority ELSE at.report.priority
             placed == [NoDecision EXCEPT !["queue"] = given.queue, !["policy"] = given.policy, !["priority"] = priority]
             v == [at EXCEPT !.pc = "route", !.tags = at.report.tags, !.category = services[s].label,
                             !.fields = services[s].form.fields, !.answers = answers, !.placed = placed]
  <2>1. filing' = [filing EXCEPT ![f] = v]
    BY Zenon, <1>2 DEF FilingsOK
  <2>2. at = [k \in FilingFields |-> at[k]] /\ s \in Services
    BY Zenon, FilingIs DEF ReadService, On
  <2>3. services[s] \in Service
    BY Zenon, <1>2, <2>2 DEF LiveAt, CatalogueOK
  <2>4. given.queue \in Queues \cup {None} /\ given.policy \in Policies \cup {None}
    BY <2>3, DeskConstants DEF Service, Form
  <2> HIDE DEF given, priority
  <2>5. /\ placed = [o \in Outcomes |-> placed[o]] /\ placed["queue"] = given.queue /\ placed["policy"] = given.policy
    BY Zenon DEF NoDecision, Outcomes
  <2> HIDE DEF placed
  <2>6. v = [k \in FilingFields |-> v[k]] /\ v.pc = "route" /\ v.report = at.report /\ v.placed = placed
    BY Zenon, <2>2 DEF FilingFields
  <2> HIDE DEF v
  <2>7. FilingFits(v)
    BY Zenon, <2>2, <2>4, <2>5, <2>6 DEF FilingFits, FilingSteps
  <2> QED
    BY Zenon, <2>1, <2>7, OneFiling
<1> QED
  BY Zenon, <1>1, <1>2 DEF ReadService

LEMMA RouteFits ==
  ASSUME FilingsOK, DeskOK, NEW f \in Filers, Route(f)
  PROVE  FilingsOK'
<1> DEFINE at == filing[f]
           d == Evaluate(ListRules, rules, Facts(at))
           placed == ApplyDecision(at.placed, d)
           ruled == [rules |-> [p \in ToSet(ListRules) |-> rules[p]], facts |-> Facts(at), placed |-> at.placed]
           pc == IF placed["queue"] # None /\ ~Assigned(placed) THEN "queue" ELSE "policy"
           v == [at EXCEPT !.placed = placed, !.tags = @ \cup d.tags, !.ruled = ruled, !.pc = pc]
<1>1. at # idle /\ at.pc = "route" /\ FilingFits(at) /\ at = [k \in FilingFields |-> at[k]]
  BY Zenon, FilingIs DEF Route, On
<1>2. filing' = [filing EXCEPT ![f] = v]
  BY Zenon DEF Route, FilingsOK
<1>3. at.placed["queue"] \in Queues \cup {None} /\ at.placed["policy"] \in Policies \cup {None}
      /\ at.report.service \in Services
  BY <1>1 DEF FilingFits
<1>4. {"queue", "policy"} \subseteq Outcomes
  BY DEF Outcomes
<1>5. \A o \in Outcomes : placed[o] = at.placed[o] \/ \E rule \in Rules : placed[o] = rule.actions.outcomes[o] /\ placed[o] # NoOutcome
  BY OutcomesAre DEF ApplyDecision
<1>6. placed = [o \in Outcomes |-> placed[o]]
  BY DEF ApplyDecision
<1> HIDE DEF placed, ruled, d
<1>7. placed["queue"] \in Queues \cup {None} /\ placed["policy"] \in Policies \cup {None}
  BY Zenon, <1>3, <1>4, <1>5, DeskConstants
<1>8. pc \in {"queue", "policy"} /\ (pc = "queue" => placed["queue"] \in Queues)
  BY <1>7
<1> HIDE DEF pc
<1>9. v = [k \in FilingFields |-> v[k]] /\ v.pc = pc /\ v.report = at.report /\ v.placed = placed
  BY Zenon, <1>1 DEF FilingFields
<1> HIDE DEF v
<1>10. FilingFits(v)
  BY Zenon, <1>3, <1>6, <1>7, <1>8, <1>9 DEF FilingFits, FilingSteps
<1> QED
  BY Zenon, <1>2, <1>10, OneFiling

LEMMA EligibleAre ==
  ASSUME DeskOK, NEW q
  PROVE  /\ Eligible(q) \in Seq(ToSet(Users)) /\ IsInjective(Eligible(q))
         /\ ToSet(Eligible(q)) = ToSet(Users) \cap queues[q].members \cap staff
<1> DEFINE S == queues[q].members \cap staff
<1>1. Eligible(q) = Those(Users, S)
  BY DEF Eligible
<1> HIDE DEF S
<1>2. Eligible(q) \in Seq(ToSet(Users)) /\ IsInjective(Eligible(q)) /\ ToSet(Eligible(q)) = ToSet(Users) \cap S
  BY <1>1, ThoseAre, DeskConstants
<1> QED
  BY <1>2 DEF S

LEMMA ReadQueueFits ==
  ASSUME FilingsOK, DeskOK, NEW f \in Filers, ReadQueue(f)
  PROVE  FilingsOK'
<1> DEFINE at == filing[f]
           q == at.placed["queue"]
<1>1. at # idle /\ at.pc = "queue" /\ FilingFits(at) /\ at = [k \in FilingFields |-> at[k]]
  BY FilingIs DEF ReadQueue, On
<1>2. /\ at.report.service \in Services /\ q \in Queues /\ at.placed = [o \in Outcomes |-> at.placed[o]]
      /\ at.placed["policy"] \in Policies \cup {None}
  BY <1>1 DEF FilingFits
<1>3. CASE Now(f, "policy")
  BY <1>1, <1>3, FilingJumps
<1>4. ASSUME NEW y, filing' = [filing EXCEPT ![f].pc = "policy", ![f].placed["system"] = y]
      PROVE  FilingsOK'
  <2> DEFINE placed == [at.placed EXCEPT !["system"] = y]
             v == [at EXCEPT !.pc = "policy", !.placed = placed]
  <2>1. filing' = [filing EXCEPT ![f] = v]
    BY Zenon, <1>1, <1>4 DEF FilingsOK, FilingFields
  <2>2. /\ placed = [o \in Outcomes |-> placed[o]] /\ placed["queue"] = q
        /\ placed["policy"] = at.placed["policy"]
    BY <1>2 DEF Outcomes
  <2> HIDE DEF placed
  <2>3. v = [k \in FilingFields |-> v[k]] /\ v.pc = "policy" /\ v.report = at.report /\ v.placed = placed
    BY Zenon, <1>1 DEF FilingFields
  <2> HIDE DEF v
  <2>4. FilingFits(v)
    BY Zenon, <1>2, <2>2, <2>3 DEF FilingFits, FilingSteps
  <2> QED
    BY Zenon, <2>1, <2>4, OneFiling
<1>5. ASSUME queues[q] # absent, Eligible(q) # <<>>, NEW pc \in {"turn", "loads"},
             filing' = [filing EXCEPT ![f].eligible = Eligible(q), ![f].cursor = queues[q].cursor, ![f].pc = pc]
      PROVE  FilingsOK'
  <2> DEFINE e == Eligible(q)
             c == queues[q].cursor
             v == [at EXCEPT !.eligible = e, !.cursor = c, !.pc = pc]
  <2>1. filing' = [filing EXCEPT ![f] = v]
    BY Zenon, <1>5 DEF FilingsOK
  <2>2. c \in 0..(CursorModulus - 1)
    BY Zenon, <1>2, <1>5 DEF DeskOK, Queue
  <2>3. e \in Seq(ToSet(Users)) /\ e # <<>>
    BY <1>5, EligibleAre
  <2> HIDE DEF e, c
  <2>4. /\ v = [k \in FilingFields |-> v[k]] /\ v.pc = pc /\ v.report = at.report /\ v.placed = at.placed
        /\ v.eligible = e /\ v.cursor = c
    BY Zenon, <1>1 DEF FilingFields
  <2> HIDE DEF v
  <2>5. FilingFits(v)
    BY Zenon, <1>2, <2>2, <2>3, <2>4 DEF FilingFits, FilingSteps
  <2> QED
    BY Zenon, <2>1, <2>5, OneFiling
<1> QED
  BY <1>3, <1>4, <1>5 DEF ReadQueue
LEMMA OwnerFits ==
  ASSUME FilingsOK, NEW f \in Filers, filing[f] # idle, filing[f].pc \in {"turn", "loads"}, NEW u,
         filing' = [filing EXCEPT ![f].pc = "policy", ![f].placed["assignee"] = u]
  PROVE  FilingsOK'
<1> DEFINE at == filing[f]
           placed == [at.placed EXCEPT !["assignee"] = u]
           v == [at EXCEPT !.pc = "policy", !.placed = placed]
<1>1. FilingFits(at) /\ at = [k \in FilingFields |-> at[k]] /\ at.report.service \in Services
  BY FilingIs
<1>2. /\ at.placed = [o \in Outcomes |-> at.placed[o]] /\ at.placed["queue"] \in Queues
      /\ at.placed["policy"] \in Policies \cup {None}
  BY <1>1 DEF FilingFits
<1>3. filing' = [filing EXCEPT ![f] = v]
  BY Zenon, <1>1 DEF FilingsOK, FilingFields
<1>4. /\ placed = [o \in Outcomes |-> placed[o]] /\ placed["queue"] = at.placed["queue"]
      /\ placed["policy"] = at.placed["policy"]
  BY <1>2 DEF Outcomes
<1> HIDE DEF placed
<1>5. v = [k \in FilingFields |-> v[k]] /\ v.pc = "policy" /\ v.report = at.report /\ v.placed = placed
  BY Zenon, <1>1 DEF FilingFields
<1> HIDE DEF v
<1>6. FilingFits(v)
  BY Zenon, <1>1, <1>2, <1>4, <1>5 DEF FilingFits, FilingSteps
<1> QED
  BY Zenon, <1>3, <1>6, OneFiling

LEMMA ReadPolicyFits ==
  ASSUME FilingsOK, DeskOK, NEW f \in Filers, ReadPolicy(f)
  PROVE  FilingsOK'
<1> DEFINE at == filing[f]
           p == at.placed["policy"]
           policy == policies[p]
           v == [at EXCEPT !.pc = "hours", !.policy = policy]
<1>1. at # idle /\ at.pc = "policy" /\ FilingFits(at) /\ at = [k \in FilingFields |-> at[k]]
  BY FilingIs DEF ReadPolicy, On
<1>2. /\ at.report.service \in Services /\ p \in Policies \cup {None} /\ at.placed = [o \in Outcomes |-> at.placed[o]]
      /\ at.placed["queue"] \in Queues \cup {None}
  BY <1>1 DEF FilingFits
<1>3. CASE Now(f, "insert")
  BY <1>1, <1>3, FilingJumps
<1>4. ASSUME p # None, policy # absent, filing' = [filing EXCEPT ![f].pc = "hours", ![f].policy = policy]
      PROVE  FilingsOK'
  <2>1. filing' = [filing EXCEPT ![f] = v]
    BY Zenon, <1>4 DEF FilingsOK
  <2>2. policy \in SavedPolicies
    BY <1>2, <1>4 DEF DeskOK
  <2> HIDE DEF policy
  <2>3. /\ v = [k \in FilingFields |-> v[k]] /\ v.pc = "hours" /\ v.report = at.report /\ v.placed = at.placed
        /\ v.policy = policy
    BY Zenon, <1>1 DEF FilingFields
  <2> HIDE DEF v
  <2>4. FilingFits(v)
    BY Zenon, <1>2, <2>2, <2>3 DEF FilingFits, FilingSteps
  <2> QED
    BY Zenon, <2>1, <2>4, OneFiling
<1> QED
  BY <1>3, <1>4 DEF ReadPolicy

LEMMA HoursFit ==
  ASSUME FilingsOK, NEW f \in Filers, filing[f] # idle, filing[f].pc \in {"hours", "rows"},
         NEW pc \in {"insert", "fill"}, NEW hours, pc = "fill" => hours \in Hours,
         filing' = [filing EXCEPT ![f].pc = pc, ![f].hours = hours]
  PROVE  FilingsOK'
<1> DEFINE at == filing[f]
           v == [at EXCEPT !.pc = pc, !.hours = hours]
<1>1. FilingFits(at) /\ at = [k \in FilingFields |-> at[k]] /\ at.report.service \in Services
  BY FilingIs
<1>2. /\ at.policy \in SavedPolicies /\ at.placed["policy"] \in Policies \cup {None}
      /\ at.placed = [o \in Outcomes |-> at.placed[o]] /\ at.placed["queue"] \in Queues \cup {None}
  BY <1>1 DEF FilingFits
<1>3. filing' = [filing EXCEPT ![f] = v]
  BY Zenon DEF FilingsOK
<1>4. /\ v = [k \in FilingFields |-> v[k]] /\ v.pc = pc /\ v.report = at.report /\ v.placed = at.placed
      /\ v.policy = at.policy /\ v.hours = hours
  BY Zenon, <1>1 DEF FilingFields
<1> HIDE DEF v
<1>5. FilingFits(v)
  BY Zenon, <1>1, <1>2, <1>4 DEF FilingFits, FilingSteps
<1> QED
  BY Zenon, <1>3, <1>5, OneFiling

LEMMA CalendarRowsAre ==
  ASSUME DeskOK, NEW k \in Calendars \cup {None}, NEW row \in CalendarRows(k)
  PROVE  row = absent \/ (row \in Calendar /\ row.hours \in Hours)
<1>1. row \in Calendar \cup {absent}
  BY DEF CalendarRows, DeskOK
<1> QED
  BY <1>1 DEF Calendar

LEMMA HoursReadFit ==
  ASSUME FilingsOK, DeskOK, NEW f \in Filers, LookUp(f) \/ ReadCalendar(f)
  PROVE  FilingsOK'
<1> DEFINE at == filing[f]
           k == at.policy.calendar
<1>1. at # idle /\ at.pc \in {"hours", "rows"} /\ FilingFits(at)
  BY Zenon, FilingIs DEF LookUp, ReadCalendar, On
<1>2. k \in Calendars \cup {None}
  BY <1>1, PoliciesHaveCalendars DEF FilingFits
<1>3. CASE LookUp(f)
  <2>1. CASE Now(f, "rows")
    <3>1. at.pc = "hours"
      BY <1>3 DEF LookUp, On
    <3> QED
      BY <1>1, <2>1, <3>1, FilingJumps
  <2>2. CASE filing' = [filing EXCEPT ![f].pc = "insert", ![f].hours = cache[k]]
    BY Zenon, <1>1, <2>2, HoursFit
  <2> QED
    BY <1>3, <2>1, <2>2 DEF LookUp
<1>4. CASE ReadCalendar(f)
  <2>1. PICK row \in CalendarRows(k) :
          filing' = [filing EXCEPT ![f].pc = IF row = absent THEN "insert" ELSE "fill",
                                   ![f].hours = IF row = absent THEN AlwaysOpenCalendar ELSE row.hours]
    BY Zenon, <1>4 DEF ReadCalendar
  <2> DEFINE pc == IF row = absent THEN "insert" ELSE "fill"
             hours == IF row = absent THEN AlwaysOpenCalendar ELSE row.hours
  <2>2. pc \in {"insert", "fill"} /\ (pc = "fill" => hours \in Hours)
    BY <1>2, <2>1, CalendarRowsAre
  <2>3. filing' = [filing EXCEPT ![f].pc = pc, ![f].hours = hours]
    BY <2>1
  <2> HIDE DEF pc, hours
  <2> QED
    BY Zenon, <1>1, <2>2, <2>3, HoursFit
<1> QED
  BY <1>3, <1>4

LEMMA InsertFits ==
  ASSUME FilingsOK, NEW f \in Filers, Insert(f)
  PROVE  FilingsOK'
<1> DEFINE at == filing[f]
<1>1. at # idle /\ at.pc = "insert" /\ FilingFits(at) /\ at = [k \in FilingFields |-> at[k]]
  BY FilingIs DEF Insert, On
<1>2. /\ at.report.service \in Services /\ at.placed = [o \in Outcomes |-> at.placed[o]]
      /\ at.placed["queue"] \in Queues \cup {None} /\ at.placed["policy"] \in Policies \cup {None}
  BY <1>1 DEF FilingFits
<1>3. PICK r \in Requests :
        filing' = [filing EXCEPT ![f] = IF at.report.way = "portal" THEN [at EXCEPT !.pc = "notice", !.row = r] ELSE idle]
  BY Zenon DEF Insert
<1> DEFINE v == [at EXCEPT !.pc = "notice", !.row = r]
<1>4. /\ v = [k \in FilingFields |-> v[k]] /\ v.pc = "notice" /\ v.report = at.report /\ v.placed = at.placed
  BY Zenon, <1>1 DEF FilingFields
<1> HIDE DEF v
<1>5. FilingFits(v)
  BY Zenon, <1>2, <1>4 DEF FilingFits, FilingSteps
<1>6. filing' = [filing EXCEPT ![f] = v] \/ filing' = [filing EXCEPT ![f] = idle]
  BY Zenon, <1>3 DEF v
<1> QED
  BY <1>5, <1>6, NoFilingFits, OneFiling

LEMMA FilingStepTypes ==
  ASSUME FilingsOK, DeskOK, CatalogueOK, TurnsOK, NEW f \in Filers, FilingStep(f)
  PROVE  FilingsOK' /\ DeskOK' /\ TurnsOK'
<1>1. ASSUME UNCHANGED deskVars
      PROVE  DeskOK' /\ TurnsOK'
  BY <1>1 DEF deskVars, deskTables, deskHistory, DeskOK, TurnsOK
<1>2. CASE ReadService(f)
  BY Zenon, <1>1, <1>2, ReadServiceFits DEF ReadService
<1>3. CASE Route(f)
  BY Zenon, <1>1, <1>3, RouteFits DEF Route
<1>4. CASE ReadQueue(f)
  BY Zenon, <1>1, <1>4, ReadQueueFits DEF ReadQueue
<1>5. CASE TakeTurn(f)
  <2> DEFINE at == filing[f]
  <2>1. at # idle /\ at.pc = "turn" /\ FilingFits(at)
    BY Zenon, <1>5, FilingIs DEF TakeTurn, On
  <2>2. /\ at.placed["queue"] \in Queues /\ at.eligible \in Seq(ToSet(Users)) /\ at.eligible # <<>>
        /\ at.cursor \in 0..(CursorModulus - 1)
    BY <2>1 DEF FilingFits
  <2>3. /\ GiveTurn(at.placed["queue"], at.eligible, at.cursor)
        /\ filing' = [filing EXCEPT ![f].pc = "policy", ![f].placed["assignee"] = InTurn(at.eligible, at.cursor)]
        /\ UNCHANGED <<rules, staff, policies, calendars, cache, overtaken>>
    BY <1>5 DEF TakeTurn
  <2>4. FilingsOK'
    BY Zenon, <2>1, <2>3, OwnerFits
  <2> HIDE DEF at
  <2>5. /\ queues' \in [Queues -> Queue \cup {absent}]
        /\ turns' \in [Queues -> [Members -> Nat]] /\ slips' \in [Queues -> Nat]
    BY <2>2, <2>3, GiveTurnTypes
  <2> QED
    BY <2>3, <2>4, <2>5 DEF DeskOK, TurnsOK
<1>6. CASE CompareLoads(f)
  <2>1. filing[f] # idle /\ filing[f].pc = "loads"
    BY <1>6 DEF CompareLoads, On
  <2> QED
    BY Zenon, <1>1, <1>6, <2>1, OwnerFits DEF CompareLoads
<1>7. CASE ReadPolicy(f)
  BY <1>1, <1>7, ReadPolicyFits DEF ReadPolicy
<1>8. CASE LookUp(f) \/ ReadCalendar(f)
  BY Zenon, <1>1, <1>8, HoursReadFit DEF LookUp, ReadCalendar
<1>9. CASE FillCache(f)
  <2> DEFINE at == filing[f]
             k == at.policy.calendar
  <2>1. at # idle /\ at.pc = "fill" /\ FilingFits(at)
    BY Zenon, <1>9, FilingIs DEF FillCache, On
  <2>2. at.hours \in Hours /\ k \in Calendars \cup {None}
    BY <2>1, PoliciesHaveCalendars DEF FilingFits
  <2>3. FilingsOK'
    BY <1>9, <2>1, FilingJumps DEF FillCache
  <2>4. /\ cache' = [cache EXCEPT ![k] = at.hours]
        /\ overtaken' = overtaken \/ (k # None /\ overtaken' = overtaken \cup {k})
        /\ UNCHANGED <<rules, queues, staff, policies, calendars, turns, slips>>
    BY <1>9 DEF FillCache, Remember, deskTables
  <2> HIDE DEF at, k
  <2> QED
    BY <2>2, <2>3, <2>4 DEF DeskOK, TurnsOK
<1>10. CASE Insert(f)
  BY Zenon, <1>1, <1>10, InsertFits DEF Insert
<1>11. CASE RecordNoticeShown(f)
  BY Zenon, <1>1, <1>11, NoFilingFits, OneFiling DEF RecordNoticeShown, Stops
<1> QED
  BY <1>2, <1>3, <1>4, <1>5, <1>6, <1>7, <1>8, <1>9, <1>10, <1>11 DEF FilingStep

LEMMA TypesStay == TypeInv /\ [Next]_vars => TypeInv'
<1> SUFFICES ASSUME TypeInv, [Next]_vars
             PROVE  TypeInv'
  OBVIOUS
<1>1. EditsOK' /\ CatalogueOK' /\ MarksOK'
  BY CatalogueTypes DEF TypeInv
<1>2. ASSUME UNCHANGED deskVars
      PROVE  DeskOK' /\ TurnsOK'
  BY <1>2 DEF deskVars, deskTables, deskHistory, DeskOK, TurnsOK, TypeInv
<1>3. ASSUME UNCHANGED filing
      PROVE  FilingsOK'
  BY <1>3 DEF FilingsOK, TypeInv, FilingFits
<1>4. DeskOK' /\ TurnsOK' /\ FilingsOK'
  <2>1. CASE UNCHANGED vars
    BY <1>2, <1>3, <2>1 DEF vars
  <2>2. ASSUME NEW h \in Handlers, Edits(h)
        PROVE  DeskOK' /\ TurnsOK' /\ FilingsOK'
    BY <1>2, <1>3, <2>2 DEF Edits
  <2>3. ASSUME NEW h \in Handlers, DeskEdits(h)
        PROVE  DeskOK' /\ TurnsOK' /\ FilingsOK'
    BY <1>3, <2>3, DeskEditTypes DEF DeskEdits, TypeInv
  <2>4. ASSUME NEW f \in Filers, NEW report \in load.reports, NEW shown, Submit(f, report, shown)
        PROVE  DeskOK' /\ TurnsOK' /\ FilingsOK'
    BY Zenon, <1>2, <2>4, SubmitFits DEF Submit, TypeInv
  <2>5. ASSUME NEW f \in Filers, FilingStep(f)
        PROVE  DeskOK' /\ TurnsOK' /\ FilingsOK'
    BY <2>5, FilingStepTypes DEF TypeInv
  <2>6. ASSUME NEW r \in Requests, CloseRequest(r)
        PROVE  DeskOK' /\ TurnsOK' /\ FilingsOK'
    BY <1>2, <1>3, <2>6 DEF CloseRequest
  <2>7. CASE Restart
    <3>1. FilingsOK'
      BY <2>7 DEF Restart, FilingsOK, FilingFits
    <3> QED
      BY <2>7, <3>1 DEF Restart, deskTables, DeskOK, TurnsOK, TypeInv
  <2> QED
    BY <2>1, <2>2, <2>3, <2>4, <2>5, <2>6, <2>7 DEF Next
<1> QED
  BY <1>1, <1>4 DEF TypeInv

(* The state of the catalogue, the desk and the submissions has its types. *)
THEOREM TriageIsTyped == Spec => []TypeOK
<1>1. Init => TypeInv
  BY TypeInit
<1>2. TypeInv => TypeOK
  BY Zenon DEF TypeInv, CatalogueOK, DeskOK, TurnsOK, MarksOK, FilingsOK, FilingFits, TypeOK
<1> QED
  BY <1>1, <1>2, TypesStay, PTL DEF Spec
-----------------------------------------------------------------------------
(* Calendars and their copies.                                             *)
LEMMA EditsAreNoSaves ==
  ASSUME NEW h \in Handlers, Edits(h)
  PROVE  edit[h].op # "SaveCalendar"
<1>1. ASSUME edit[h] = idle
      PROVE  edit[h].op # "SaveCalendar"
  BY <1>1, Apart
<1>2. CASE Catalogued(h)
  BY <1>1, <1>2
     DEF Catalogued, ServiceEdits, NoticeEdits, CategoryEdits, SaveServiceType, DeleteServiceType, SetPromoted,
         SaveCollectionNotice, SaveCategory, DeleteCategory, Begin
<1>3. CASE CatalogueStep(h)
  BY Zenon, <1>3 DEF CatalogueStep, Walk, ReadExisting, WriteCategory, CountServices, CountChildren, RemoveCategory,
     ReadCurrent, WriteServiceType, Archive, RemoveServiceType, Promote, PublishNotice, At
<1>4. CASE WriteUpdate(h)
  BY <1>4 DEF WriteUpdate, At
<1>5. ASSUME NEW r \in Requests, NEW data \in load.data, Update(h, r, data)
      PROVE  edit[h].op # "SaveCalendar"
  BY <1>1, <1>5 DEF Update, Begin
<1> QED
  BY <1>2, <1>3, <1>4, <1>5 DEF Edits

LEMMA EditsMoveOne ==
  ASSUME EditsOK, CatalogueOK, NEW h \in Handlers, Edits(h)
  PROVE  \E v : edit' = [edit EXCEPT ![h] = v]
<1>1. ASSUME CommitStep(h)
      PROVE  \E v : edit' = [edit EXCEPT ![h] = v]
  BY <1>1, CommitsAreDone DEF Done
<1>2. ASSUME NEW v, GoesOn(h, v)
      PROVE  edit' = [edit EXCEPT ![h] = v]
  BY <1>2 DEF GoesOn, Quiet
<1> QED
  BY <1>1, <1>2, CataloguedGoesOn, StepGoesOn, UpdateGoesOn DEF Edits, CatalogueStep, CommitStep

LEMMA SavingGoesOn ==
  ASSUME EditsOK, NEW h \in Handlers, NEW v, edit' = [edit EXCEPT ![h] = v], NEW k, Saving(k),
         edit[h].op # "SaveCalendar" \/ edit[h].id # k
  PROVE  Saving(k)'
<1>1. PICK g \in Handlers : edit[g].op = "SaveCalendar" /\ edit[g].id = k
  BY DEF Saving
<1>2. g # h /\ edit'[g] = edit[g]
  BY <1>1 DEF EditsOK
<1> QED
  BY <1>1, <1>2 DEF Saving

LEMMA FreshKept ==
  ASSUME HoursAreFresh, UNCHANGED <<calendars, cache, overtaken>>,
         \A k \in Calendars : Saving(k) => Saving(k)'
  PROVE  HoursAreFresh'
BY DEF HoursAreFresh

LEMMA FreshFilled ==
  ASSUME TypeInv, HoursAreFresh, NEW f \in Filers, FillCache(f)
  PROVE  HoursAreFresh'
<1> DEFINE at == filing[f]
           k == at.policy.calendar
<1>1. at # idle /\ at.pc = "fill" /\ FilingFits(at)
  BY Zenon, FilingIs DEF FillCache, On, TypeInv
<1>2. k \in Calendars \cup {None}
  BY <1>1, PoliciesHaveCalendars DEF FilingFits
<1>3. /\ cache' = [cache EXCEPT ![k] = at.hours] /\ UNCHANGED <<calendars, edit>>
      /\ overtaken' = IF k # None /\ (calendars[k] = absent \/ calendars[k].hours # at.hours)
                      THEN overtaken \cup {k} ELSE overtaken
  BY DEF FillCache, Remember, deskTables, Outside
<1> HIDE DEF at, k
<1> SUFFICES ASSUME NEW c \in Calendars
             PROVE  \/ cache'[c] = absent \/ Saving(c)' \/ c \in overtaken'
                    \/ calendars'[c] # absent /\ cache'[c] = calendars'[c].hours
  BY DEF HoursAreFresh
<1>4. Saving(c) => Saving(c)'
  BY <1>3 DEF Saving
<1>5. CASE c = k
  <2>1. cache'[c] = at.hours
    BY <1>3, <1>5 DEF TypeInv, DeskOK
  <2>2. k # None
    BY <1>5, DeskConstants
  <2> QED
    BY <1>3, <1>5, <2>1, <2>2
<1>6. CASE c # k
  <2>1. cache'[c] = cache[c] /\ (c \in overtaken => c \in overtaken')
    BY <1>3, <1>6 DEF TypeInv, DeskOK
  <2> QED
    BY <1>3, <1>4, <2>1 DEF HoursAreFresh
<1> QED
  BY <1>5, <1>6

LEMMA FreshEdited ==
  ASSUME TypeInv, HoursAreFresh, NEW h \in Handlers, DeskEdits(h)
  PROVE  HoursAreFresh'
<1>1. EditsOK /\ DeskOK
  BY DEF TypeInv
<1>2. ASSUME NEW k \in Calendars, NEW row \in Calendar, SaveCalendar(h, k, row)
      PROVE  HoursAreFresh'
  <2> DEFINE v == [op |-> "SaveCalendar", id |-> k]
  <2>1. /\ calendars' = [calendars EXCEPT ![k] = row] /\ edit' = [edit EXCEPT ![h] = v] /\ edit[h] = idle
        /\ UNCHANGED <<cache, overtaken>>
    BY <1>2 DEF SaveCalendar, DeskEdit, deskHistory
  <2>2. edit'[h].op = "SaveCalendar" /\ edit'[h].id = k
    BY <1>1, <2>1 DEF EditsOK
  <2>3. Saving(k)'
    BY <2>2 DEF Saving
  <2>4. \A c \in Calendars : Saving(c) => Saving(c)'
    BY Zenon, <1>1, <2>1, SavingGoesOn, Apart
  <2>5. \A c \in Calendars : c # k => calendars'[c] = calendars[c]
    BY <1>1, <2>1 DEF DeskOK
  <2> QED
    BY <2>1, <2>3, <2>4, <2>5 DEF HoursAreFresh
<1>3. CASE DropCalendar(h)
  <2>1. /\ cache' = [cache EXCEPT ![edit[h].id] = absent] /\ overtaken' = overtaken \ {edit[h].id}
        /\ edit' = [edit EXCEPT ![h] = idle] /\ UNCHANGED calendars
    BY <1>3 DEF DropCalendar, Resumes, Without, deskTables
  <2> SUFFICES ASSUME NEW c \in Calendars
               PROVE  \/ cache'[c] = absent \/ Saving(c)' \/ c \in overtaken'
                      \/ calendars'[c] # absent /\ cache'[c] = calendars'[c].hours
    BY DEF HoursAreFresh
  <2>2. CASE c = edit[h].id
    BY <1>1, <2>1, <2>2 DEF DeskOK
  <2>3. CASE c # edit[h].id
    <3>1. cache'[c] = cache[c] /\ (c \in overtaken => c \in overtaken')
      BY <1>1, <2>1, <2>3 DEF DeskOK
    <3>2. Saving(c) => Saving(c)'
      BY Zenon, <1>1, <2>1, <2>3, SavingGoesOn
    <3> QED
      BY <2>1, <3>1, <3>2 DEF HoursAreFresh
  <2> QED
    BY <2>2, <2>3
<1>4. ASSUME UNCHANGED <<calendars, cache, overtaken>>, edit' = edit
      PROVE  HoursAreFresh'
  <2>1. \A k \in Calendars : Saving(k) => Saving(k)'
    BY <1>4 DEF Saving
  <2> QED
    BY <1>4, <2>1, FreshKept
<1>5. ASSUME UNCHANGED <<calendars, cache, overtaken>>, NEW v, edit' = [edit EXCEPT ![h] = v],
             edit[h].op # "SaveCalendar"
      PROVE  HoursAreFresh'
  <2>1. \A k \in Calendars : Saving(k) => Saving(k)'
    BY Zenon, <1>1, <1>5, SavingGoesOn
  <2> QED
    BY <1>5, <2>1, FreshKept
<1>6. CASE RuleEdits(h)
  BY <1>4, <1>6 DEF RuleEdits, SaveRule, DeleteRule, deskHistory
<1>7. CASE QueueEdits(h)
  <2>1. ASSUME NEW q \in Queues, DeleteQueue(h, q)
        PROVE  HoursAreFresh'
    <3>1. edit[h] = idle /\ UNCHANGED <<calendars, cache, overtaken>>
      BY <2>1 DEF DeleteQueue, DeskEdit, deskVars, deskTables, deskHistory
    <3> QED
      BY Zenon, <1>5, <2>1, <3>1, Apart DEF DeleteQueue
  <2> QED
    BY Zenon, <1>4, <1>7, <2>1 DEF QueueEdits, SaveQueue, SetQueueMembers
<1>8. CASE PolicyEdits(h)
  BY <1>2, <1>4, <1>8 DEF PolicyEdits, SaveSLAPolicy, deskHistory
<1>9. ASSUME NEW u, ChangeStatus(h, u)
      PROVE  HoursAreFresh'
  BY <1>4, <1>9 DEF ChangeStatus
<1>10. CASE RemoveQueue(h)
  <2>1. /\ edit[h].op = "DeleteQueue" /\ edit' = [edit EXCEPT ![h] = idle]
        /\ UNCHANGED <<calendars, cache, overtaken>>
    BY <1>10 DEF RemoveQueue, Resumes
  <2> QED
    BY Zenon, <1>5, <2>1
<1> QED
  BY <1>3, <1>6, <1>7, <1>8, <1>9, <1>10 DEF DeskEdits, Desked, DeskStep

LEMMA FreshStays == TypeInv /\ HoursAreFresh /\ [Next]_vars => HoursAreFresh'
<1> SUFFICES ASSUME TypeInv, HoursAreFresh, [Next]_vars
             PROVE  HoursAreFresh'
  OBVIOUS
<1>1. ASSUME UNCHANGED <<calendars, cache, overtaken, edit>>
      PROVE  HoursAreFresh'
  <2>1. \A k \in Calendars : Saving(k) => Saving(k)'
    BY <1>1 DEF Saving
  <2> QED
    BY <1>1, <2>1, FreshKept
<1>2. ASSUME UNCHANGED deskVars, Outside
      PROVE  HoursAreFresh'
  BY <1>1, <1>2 DEF deskVars, deskTables, deskHistory, Outside
<1>3. CASE UNCHANGED vars
  BY <1>1, <1>3 DEF vars, catalogueVars, deskVars, deskTables, deskHistory
<1>4. ASSUME NEW h \in Handlers, Edits(h)
      PROVE  HoursAreFresh'
  <2>1. UNCHANGED <<calendars, cache, overtaken>>
    BY <1>4 DEF Edits, deskVars, deskTables, deskHistory
  <2>2. PICK v : edit' = [edit EXCEPT ![h] = v]
    BY <1>4, EditsMoveOne DEF TypeInv
  <2>3. \A k \in Calendars : Saving(k) => Saving(k)'
    BY Zenon, <1>4, <2>2, EditsAreNoSaves, SavingGoesOn DEF TypeInv
  <2> QED
    BY <2>1, <2>3, FreshKept
<1>5. ASSUME NEW f \in Filers, NEW report \in load.reports, NEW shown, Submit(f, report, shown)
      PROVE  HoursAreFresh'
  BY <1>2, <1>5 DEF Submit
<1>6. ASSUME NEW f \in Filers, FilingStep(f)
      PROVE  HoursAreFresh'
  <2>1. CASE TakeTurn(f)
    BY <1>1, <2>1 DEF TakeTurn, Outside
  <2>2. CASE FillCache(f)
    BY <2>2, FreshFilled
  <2> QED
    BY Zenon, <1>2, <1>6, <2>1, <2>2 DEF FilingStep, ReadService, Route, ReadQueue, CompareLoads, ReadPolicy, LookUp,
       ReadCalendar, Insert, RecordNoticeShown
<1>7. ASSUME NEW r \in Requests, CloseRequest(r)
      PROVE  HoursAreFresh'
  BY <1>2, <1>7 DEF CloseRequest
<1>8. CASE Restart
  BY <1>8 DEF Restart, HoursAreFresh
<1> QED
  BY <1>3, <1>4, <1>5, <1>6, <1>7, <1>8, FreshEdited DEF Next

(* The copy of a calendar is its row, or a save is on its way to drop it,  *)
(* or it was filled from a row read before the last save (CalendarFor,     *)
(* SaveCalendar), for any calendars and any overlap of saves and reads.    *)
THEOREM HoursStayFresh == Spec => []HoursAreFresh
<1>1. Init => TypeInv /\ HoursAreFresh
  <2>1. Init => HoursAreFresh
    BY DEF Init, HoursAreFresh
  <2> QED
    BY <2>1, TypeInit
<1>2. TypeInv /\ HoursAreFresh /\ [Next]_vars => (TypeInv /\ HoursAreFresh)'
  BY TypesStay, FreshStays
<1> QED
  BY <1>1, <1>2, PTL DEF Spec
-----------------------------------------------------------------------------
(* The rotation.                                                           *)
LEMMA Divided ==
  ASSUME NEW q \in Nat, NEW n \in Nat \ {0}, NEW r \in 0..(n - 1)
  PROVE  ((n * q) + r) % n = r
BY SMT

(* A counter goes round, n at a time.                                      *)
LEMMA GoesRound ==
  ASSUME NEW c \in Nat, NEW n \in Nat \ {0}
  PROVE  /\ c % n \in 0..(n - 1)
         /\ (c + 1) % n = IF (c % n) + 1 = n THEN 0 ELSE (c % n) + 1
<1> DEFINE q == c \div n
           r == c % n
<1>1. q \in Nat /\ r \in 0..(n - 1) /\ c = (n * q) + r
  OBVIOUS
<1> HIDE DEF q, r
<1>2. CASE r + 1 = n
  <2>1. c + 1 = (n * (q + 1)) + 0 /\ q + 1 \in Nat
    <3>1. n * (q + 1) = (n * q) + n /\ n * q \in Nat
      BY <1>1
    <3> QED
      BY <1>1, <1>2, <3>1
  <2>2. ((n * (q + 1)) + 0) % n = 0
    <3>1. 0 \in 0..(n - 1)
      OBVIOUS
    <3> QED
      BY Zenon, <2>1, <3>1, Divided
  <2> QED
    BY <1>1, <1>2, <2>1, <2>2 DEF r
<1>3. CASE r + 1 # n
  <2>1. c + 1 = (n * q) + (r + 1) /\ r + 1 \in 0..(n - 1)
    <3>1. n * q \in Nat
      BY <1>1
    <3> QED
      BY <1>1, <1>3, <3>1
  <2>2. ((n * q) + (r + 1)) % n = r + 1
    BY <1>1, <2>1, Divided
  <2> QED
    BY <1>1, <1>3, <2>1, <2>2 DEF r
<1> QED
  BY <1>2, <1>3

(* With the cursor at p of n members, the next turns are those of p+1..n,  *)
(* then of 1..p: the turn of i comes before that of j, or is the same.     *)
Ahead(p, i, j) == IF i > p THEN j <= p \/ i <= j ELSE j <= p /\ i <= j

(* Who is ahead has no more turns than who comes after, and at most one    *)
(* less, to within two for each slip.                                      *)
Even(n, p, given, s) ==
    \A i, j \in 1..n : Ahead(p, i, j) => /\ given[i] <= given[j] + 2 * s
                                         /\ given[j] <= given[i] + 1 + 2 * s

Shares(e, t) == [i \in 1..Len(e) |-> t[e[i]]]

FairAt(q) ==
    queues[q] # absent =>
       Even(Len(Eligible(q)), queues[q].cursor % Len(Eligible(q)), Shares(Eligible(q), turns[q]), slips[q])

RotationInv == \A q \in Queues : FairAt(q)

LEMMA OneMoreTurn ==
  ASSUME NEW x \in Nat, NEW y \in Nat, NEW d \in Nat
  PROVE  /\ x <= y + d => x + 1 <= y + 1 + d /\ x <= y + 1 + d
         /\ x <= x + 1 /\ x <= x /\ x + 1 \in Nat
         /\ x <= x + d /\ x <= x + 1 + d
OBVIOUS

LEMMA NextOneTakes ==
  ASSUME NEW n \in Nat \ {0}, NEW p \in 0..(n - 1), NEW s \in Nat, NEW a \in [1..n -> Nat], NEW b \in [1..n -> Nat],
         Even(n, p, a, s), b = [a EXCEPT ![p + 1] = @ + 1]
  PROVE  Even(n, IF p + 1 = n THEN 0 ELSE p + 1, b, s)
<1> DEFINE next == IF p + 1 = n THEN 0 ELSE p + 1
           d == 2 * s
<1> SUFFICES ASSUME NEW i \in 1..n, NEW j \in 1..n, Ahead(next, i, j)
             PROVE  b[i] <= b[j] + d /\ b[j] <= b[i] + 1 + d
  BY DEF Even
<1>1. /\ \A x \in 1..n : b[x] = IF x = p + 1 THEN a[x] + 1 ELSE a[x]
      /\ a[i] \in Nat /\ a[j] \in Nat /\ d \in Nat
  OBVIOUS
<1>2. \A x, y \in 1..n : Ahead(p, x, y) => a[x] <= a[y] + d /\ a[y] <= a[x] + 1 + d
  BY DEF Even
<1> HIDE DEF d
<1>3. CASE i # p + 1 /\ j # p + 1
  <2>1. Ahead(p, i, j)
    BY <1>3 DEF Ahead
  <2>2. a[i] <= a[j] + d /\ a[j] <= a[i] + 1 + d
    BY <1>2, <2>1
  <2>3. b[i] = a[i] /\ b[j] = a[j]
    BY <1>1, <1>3
  <2> QED
    BY Zenon, <2>2, <2>3
<1>4. CASE j = p + 1 /\ i # p + 1
  <2>1. Ahead(p, j, i)
    BY <1>4 DEF Ahead
  <2>2. a[j] <= a[i] + d /\ a[i] <= a[j] + 1 + d
    BY <1>2, <2>1
  <2>3. b[i] = a[i] /\ b[j] = a[j] + 1
    BY <1>1, <1>4
  <2> QED
    BY Zenon, <1>1, <2>2, <2>3, OneMoreTurn
<1>5. CASE j = p + 1 /\ i = p + 1
  <2>1. b[j] = b[i] /\ b[i] \in Nat
    BY <1>5
  <2> QED
    BY Zenon, <1>1, <2>1, OneMoreTurn
<1>6. CASE i = p + 1 /\ j # p + 1
  BY <1>6 DEF Ahead
<1> QED
  BY Zenon, <1>3, <1>4, <1>5, <1>6

LEMMA AFewMoreTurns ==
  ASSUME NEW x \in Nat, NEW y \in Nat, NEW d \in Nat, x <= y + 1 + d,
         NEW v \in Nat, NEW w \in Nat, v <= x + 1, y <= w
  PROVE  v <= w + (d + 2) /\ v <= w + 1 + (d + 2)
OBVIOUS

LEMMA AnyOneTakes ==
  ASSUME NEW n \in Nat, NEW p \in Int, NEW next \in Int, NEW s \in Nat, NEW a \in [1..n -> Nat], NEW b \in [1..n -> Nat],
         Even(n, p, a, s), \A i \in 1..n : b[i] = a[i] \/ b[i] = a[i] + 1
  PROVE  Even(n, next, b, s + 1)
<1> SUFFICES ASSUME NEW i \in 1..n, NEW j \in 1..n
             PROVE  b[i] <= b[j] + 2 * (s + 1) /\ b[j] <= b[i] + 1 + 2 * (s + 1)
  BY DEF Even
<1>1. Ahead(p, i, j) \/ Ahead(p, j, i)
  BY DEF Ahead
<1> DEFINE d == 2 * s
<1>2. a[i] <= a[j] + d \/ a[i] <= a[j] + 1 + d
  BY <1>1 DEF Even
<1>3. a[j] <= a[i] + d \/ a[j] <= a[i] + 1 + d
  BY <1>1 DEF Even
<1>4. d \in Nat /\ 2 * (s + 1) = d + 2
  OBVIOUS
<1> HIDE DEF d
<1>5. /\ a[i] \in Nat /\ a[j] \in Nat /\ b[i] \in Nat /\ b[j] \in Nat
      /\ b[i] = a[i] \/ b[i] = a[i] + 1
      /\ b[j] = a[j] \/ b[j] = a[j] + 1
  BY Zenon
<1>6. a[i] <= a[j] + 1 + d /\ a[j] <= a[i] + 1 + d
  BY Zenon, <1>2, <1>3, <1>4, <1>5, OneMoreTurn
<1>7. a[i] <= b[i] /\ b[i] <= a[i] + 1 /\ a[j] <= b[j] /\ b[j] <= a[j] + 1
  BY Zenon, <1>5, OneMoreTurn
<1>8. b[i] <= b[j] + (d + 2)
  BY Zenon, <1>4, <1>5, <1>6, <1>7, AFewMoreTurns
<1>9. b[j] <= b[i] + 1 + (d + 2)
  BY Zenon, <1>4, <1>5, <1>6, <1>7, AFewMoreTurns
<1> QED
  BY Zenon, <1>4, <1>8, <1>9

LEMMA AllHaveNone ==
  ASSUME NEW n \in Nat, NEW p, NEW a, \A i \in 1..n : a[i] = 0
  PROVE  Even(n, p, a, 0)
BY DEF Even

LEMMA TeamsAre ==
  ASSUME NEW S
  PROVE  /\ Those(Users, S) \in Seq(ToSet(Users)) /\ IsInjective(Those(Users, S))
         /\ \A i \in 1..Len(Those(Users, S)) : Those(Users, S)[i] \in Members
<1> DEFINE e == Those(Users, S)
<1>1. e \in Seq(ToSet(Users)) /\ IsInjective(e)
  BY ThoseAre, DeskConstants
<1> HIDE DEF e
<1>2. \A i \in 1..Len(e) : e[i] \in Members
  BY <1>1 DEF Members
<1> QED
  BY <1>1, <1>2 DEF e

LEMMA FairKept ==
  ASSUME NEW q, FairAt(q), queues'[q] = queues[q], queues[q] # absent => Eligible(q)' = Eligible(q),
         turns'[q] = turns[q], slips'[q] = slips[q]
  PROVE  FairAt(q)'
BY DEF FairAt

LEMMA FairAnew ==
  ASSUME NEW q, turns'[q] = [u \in Members |-> 0], slips'[q] = 0
  PROVE  FairAt(q)'
<1> DEFINE e == Eligible(q)'
<1>1. e = Those(Users, queues'[q].members \cap staff')
  BY DEF Eligible
<1>2. e \in Seq(ToSet(Users)) /\ \A i \in 1..Len(e) : e[i] \in Members
  BY <1>1, TeamsAre
<1> HIDE DEF e
<1>3. Len(e) \in Nat /\ \A i \in 1..Len(e) : Shares(e, turns'[q])[i] = 0
  BY <1>2 DEF Shares
<1>4. Even(Len(e), queues'[q].cursor % Len(e), Shares(e, turns'[q]), 0)
  BY <1>3, AllHaveNone
<1> QED
  BY <1>4 DEF FairAt, e

(* An edit of queues, members or accounts starts the turns of the queues   *)
(* it touches over, and leaves the others alone.                           *)
LEMMA FairStarted ==
  ASSUME RotationInv, NEW Q, StartsOver(Q),
         \A q \in Queues \ Q : queues'[q] = queues[q] /\ (queues[q] # absent => Eligible(q)' = Eligible(q))
  PROVE  RotationInv'
<1> SUFFICES ASSUME NEW q \in Queues
             PROVE  FairAt(q)'
  BY DEF RotationInv
<1>1. CASE q \in Q
  BY <1>1, FairAnew DEF StartsOver
<1>2. CASE q \notin Q
  BY <1>2, FairKept DEF StartsOver, RotationInv
<1> QED
  BY <1>1, <1>2

LEMMA FairUntouched ==
  ASSUME RotationInv, UNCHANGED <<queues, staff, turns, slips>>
  PROVE  RotationInv'
<1> SUFFICES ASSUME NEW q \in Queues
             PROVE  FairAt(q)'
  BY DEF RotationInv
<1>1. Eligible(q)' = Eligible(q)
  BY DEF Eligible
<1> QED
  BY <1>1, FairKept DEF RotationInv

LEMMA FairEdited ==
  ASSUME TypeInv, RotationInv, NEW h \in Handlers, DeskEdits(h)
  PROVE  RotationInv'
<1>1. DeskOK
  BY DEF TypeInv
<1>2. ASSUME NEW q, StartsOver({q}), \A g \in Queues \ {q} : queues'[g] = queues[g], UNCHANGED staff
      PROVE  RotationInv'
  <2>1. \A g \in Queues \ {q} : Eligible(g)' = Eligible(g)
    BY Zenon, <1>2 DEF Eligible
  <2> QED
    BY <1>2, <2>1, FairStarted
<1>3. CASE QueueEdits(h)
  <2>1. ASSUME NEW q \in Queues, NEW form \in QueueForm, SaveQueue(h, q, form)
        PROVE  RotationInv'
    BY Zenon, <1>1, <1>2, <2>1 DEF SaveQueue, DeskOK
  <2>2. ASSUME NEW q \in Queues, NEW members \in SUBSET ToSet(Users), SetQueueMembers(h, q, members)
        PROVE  RotationInv'
    BY Zenon, <1>1, <1>2, <2>2 DEF SetQueueMembers, DeskOK
  <2>3. ASSUME NEW q \in Queues, DeleteQueue(h, q)
        PROVE  RotationInv'
    BY <2>3, FairUntouched DEF DeleteQueue, deskVars, deskTables, deskHistory
  <2> QED
    BY <1>3, <2>1, <2>2, <2>3 DEF QueueEdits
<1>4. CASE RemoveQueue(h)
  BY Zenon, <1>1, <1>2, <1>4 DEF RemoveQueue, DeskOK
<1>5. ASSUME NEW u \in Members, ChangeStatus(h, u)
      PROVE  RotationInv'
  <2> DEFINE Q == {q \in Queues : queues[q] # absent /\ u \in queues[q].members}
  <2>1. /\ staff' = IF u \in staff THEN staff \ {u} ELSE staff \cup {u}
        /\ UNCHANGED queues /\ StartsOver(Q)
    BY <1>5 DEF ChangeStatus
  <2>2. ASSUME NEW q \in Queues \ Q, queues[q] # absent
        PROVE  Eligible(q)' = Eligible(q)
    <3>1. u \notin queues[q].members
      BY <2>2
    <3>2. queues[q].members \cap staff' = queues[q].members \cap staff
      BY <2>1, <3>1
    <3> QED
      BY Zenon, <2>1, <3>2 DEF Eligible
  <2> HIDE DEF Q
  <2> QED
    BY <2>1, <2>2, FairStarted
<1>6. CASE RuleEdits(h) \/ PolicyEdits(h) \/ DropCalendar(h)
  BY <1>6, FairUntouched DEF RuleEdits, SaveRule, DeleteRule, PolicyEdits, SaveSLAPolicy, SaveCalendar, DropCalendar,
     deskHistory, deskTables
<1> QED
  BY <1>3, <1>4, <1>5, <1>6 DEF DeskEdits, Desked, DeskStep

(* A turn from the queue as it stands: the cursor goes to the next member. *)
LEMMA CursorMovesOn ==
  ASSUME NEW n \in Nat \ {0}, NEW c \in 0..(CursorModulus - 1), c + 1 = CursorModulus => CursorModulus % n = 0
  PROVE  Rotated(c) % n = IF (c % n) + 1 = n THEN 0 ELSE (c % n) + 1
<1>1. CursorModulus \in Nat /\ CursorModulus > 0 /\ c \in Nat
  BY DeskConstants
<1>2. c % n \in 0..(n - 1) /\ (c + 1) % n = IF (c % n) + 1 = n THEN 0 ELSE (c % n) + 1
  BY Zenon, <1>1, GoesRound
<1>3. CASE c + 1 = CursorModulus
  <2>1. Rotated(c) = 0
    BY <1>1, <1>3 DEF Rotated
  <2>2. 0 % n = 0
    OBVIOUS
  <2>3. (c % n) + 1 # 0
    BY <1>2
  <2> QED
    BY <1>2, <1>3, <2>1, <2>2, <2>3
<1>4. CASE c + 1 # CursorModulus
  <2>1. c + 1 \in 0..(CursorModulus - 1)
    BY <1>1, <1>4
  <2>2. Rotated(c) = c + 1
    BY <1>1, <2>1 DEF Rotated
  <2> QED
    BY <1>2, <2>2
<1> QED
  BY <1>3, <1>4

LEMMA TurnIsFair ==
  ASSUME DeskOK, TurnsOK, RotationInv, UNCHANGED staff, NEW q \in Queues, queues[q] # absent,
         NEW e \in Seq(ToSet(Users)), e # <<>>, NEW c \in 0..(CursorModulus - 1), GiveTurn(q, e, c)
  PROVE  FairAt(q)'
<1> DEFINE team == Eligible(q)
           n == Len(team)
           p == queues[q].cursor % n
           u == InTurn(e, c)
           a == Shares(team, turns[q])
           b == Shares(team, turns'[q])
           s == slips[q]
<1>1. /\ queues' = [queues EXCEPT ![q] = [queues[q] EXCEPT !.cursor = Rotated(c)]]
      /\ turns' = [turns EXCEPT ![q][u] = @ + 1]
      /\ slips' = [slips EXCEPT ![q] = @ + IF Slips(q, e, c) THEN 1 ELSE 0]
  BY DEF GiveTurn
<1>2. queues[q] \in Queue /\ queues[q].cursor \in 0..(CursorModulus - 1)
  BY DEF DeskOK, Queue
<1>3. queues'[q] # absent => queues'[q].members = queues[q].members /\ queues'[q].cursor = Rotated(c)
  BY <1>1, <1>2 DEF DeskOK, Queue
<1>4. queues'[q] # absent => Eligible(q)' = team
  BY Zenon, <1>3 DEF Eligible
<1>5. /\ team \in Seq(ToSet(Users)) /\ IsInjective(team) /\ \A i \in 1..n : team[i] \in Members
      /\ n \in Nat /\ DOMAIN team = 1..n
  BY TeamsAre DEF Eligible
<1>6. c \in Nat /\ queues[q].cursor \in Nat /\ CursorModulus \in Nat
  BY <1>2, DeskConstants
<1>7. u \in Members
  BY <1>6, InTurnIs DEF Members
<1>8. Even(n, p, a, s)
  BY DEF RotationInv, FairAt
<1>9. s \in Nat /\ turns[q] \in [Members -> Nat]
  BY DEF TurnsOK
<1>10. turns'[q] = [turns[q] EXCEPT ![u] = @ + 1]
  BY <1>1 DEF TurnsOK
<1> HIDE DEF u
<1>11. a \in [1..n -> Nat] /\ b \in [1..n -> Nat]
       /\ \A i \in 1..n : a[i] = turns[q][team[i]] /\ b[i] = IF team[i] = u THEN a[i] + 1 ELSE a[i]
  BY <1>5, <1>7, <1>9, <1>10 DEF Shares
<1> SUFFICES ASSUME queues'[q] # absent
             PROVE  Even(n, Rotated(c) % n, b, slips'[q])
  BY <1>3, <1>4 DEF FairAt
<1>12. CASE n = 0
  BY <1>12 DEF Even
<1>13. CASE n # 0 /\ Slips(q, e, c)
  <2>1. slips'[q] = s + 1
    BY <1>1, <1>13 DEF TurnsOK
  <2>2. Rotated(c) \in Nat
    <3>1. c + 1 \in Nat /\ CursorModulus \in Nat \ {0}
      BY <1>6, DeskConstants
    <3>2. Rotated(c) \in 0..(CursorModulus - 1)
      BY <3>1, GoesRound DEF Rotated
    <3> QED
      BY <3>1, <3>2
  <2>3. p \in Int /\ Rotated(c) % n \in Int
    <3>1. n \in Nat \ {0}
      BY <1>5, <1>13
    <3> HIDE DEF n
    <3>2. p \in 0..(n - 1) /\ Rotated(c) % n \in 0..(n - 1)
      BY Zenon, <1>6, <2>2, <3>1, GoesRound
    <3> HIDE DEF p
    <3> QED
      BY <3>1, <3>2
  <2>4. \A i \in 1..n : b[i] = a[i] \/ b[i] = a[i] + 1
    BY Zenon, <1>11
  <2> HIDE DEF team, n, p, a, b, s
  <2>5. Even(n, Rotated(c) % n, b, s + 1)
    BY Zenon, <1>5, <1>8, <1>9, <1>11, <2>3, <2>4, AnyOneTakes
  <2> QED
    BY <2>1, <2>5
<1>14. CASE n # 0 /\ ~Slips(q, e, c)
  <2>1. e = team /\ c = queues[q].cursor /\ (c + 1 = CursorModulus => CursorModulus % n = 0)
    BY <1>14 DEF Slips
  <2>2. slips'[q] = s
    BY <1>1, <1>9, <1>14 DEF TurnsOK
  <2>3. p \in 0..(n - 1)
    BY Zenon, <1>5, <1>6, <1>14, GoesRound
  <2>4. u = team[p + 1]
    BY <2>1 DEF InTurn, u
  <2>5. Rotated(c) % n = IF p + 1 = n THEN 0 ELSE p + 1
    BY Zenon, <1>5, <1>14, <2>1, CursorMovesOn
  <2>6. \A i \in 1..n : team[i] = u => i = p + 1
    BY <1>5, <2>3, <2>4 DEF IsInjective
  <2>7. \A i \in 1..n : b[i] = IF i = p + 1 THEN a[i] + 1 ELSE a[i]
    BY <1>11, <2>4, <2>6
  <2> HIDE DEF team, n, p, a, b, s
  <2>8. b = [a EXCEPT ![p + 1] = @ + 1]
    BY <1>11, <2>7
  <2>9. Even(n, IF p + 1 = n THEN 0 ELSE p + 1, b, s)
    BY Zenon, <1>5, <1>8, <1>9, <1>11, <1>14, <2>3, <2>8, NextOneTakes
  <2> QED
    BY <2>2, <2>5, <2>9
<1> QED
  BY <1>12, <1>13, <1>14

LEMMA FairTurn ==
  ASSUME TypeInv, RotationInv, NEW f \in Filers, TakeTurn(f)
  PROVE  RotationInv'
<1> DEFINE at == filing[f]
           q == at.placed["queue"]
<1>1. at # idle /\ at.pc = "turn" /\ FilingFits(at)
  BY Zenon, FilingIs DEF TakeTurn, On, TypeInv
<1>2. /\ q \in Queues /\ at.eligible \in Seq(ToSet(Users)) /\ at.eligible # <<>>
      /\ at.cursor \in 0..(CursorModulus - 1)
  BY <1>1 DEF FilingFits
<1>3. GiveTurn(q, at.eligible, at.cursor) /\ UNCHANGED staff
  BY DEF TakeTurn
<1> HIDE DEF at, q
<1> SUFFICES ASSUME NEW g \in Queues
             PROVE  FairAt(g)'
  BY DEF RotationInv
<1>4. CASE queues[q] = absent
  <2>1. UNCHANGED <<queues, turns, slips>>
    BY <1>2, <1>3, <1>4 DEF GiveTurn, TypeInv, DeskOK
  <2> QED
    BY <1>3, <2>1, FairUntouched DEF RotationInv
<1>5. CASE queues[q] # absent /\ g = q
  BY <1>2, <1>3, <1>5, TurnIsFair DEF TypeInv
<1>6. CASE queues[q] # absent /\ g # q
  <2>1. queues'[g] = queues[g] /\ turns'[g] = turns[g] /\ slips'[g] = slips[g]
    BY <1>2, <1>3, <1>6 DEF GiveTurn, TypeInv, DeskOK, TurnsOK
  <2>2. Eligible(g)' = Eligible(g)
    BY <1>3, <2>1 DEF Eligible
  <2> QED
    BY <2>1, <2>2, FairKept DEF RotationInv
<1> QED
  BY <1>4, <1>5, <1>6

LEMMA FairStays == TypeInv /\ RotationInv /\ [Next]_vars => RotationInv'
<1> SUFFICES ASSUME TypeInv, RotationInv, [Next]_vars
             PROVE  RotationInv'
  OBVIOUS
<1>1. CASE UNCHANGED deskVars
  BY <1>1, FairUntouched DEF deskVars, deskTables, deskHistory
<1>2. CASE UNCHANGED vars
  BY <1>1, <1>2 DEF vars
<1>3. ASSUME NEW h \in Handlers, Edits(h)
      PROVE  RotationInv'
  BY <1>1, <1>3 DEF Edits
<1>4. ASSUME NEW f \in Filers, NEW report \in load.reports, NEW shown, Submit(f, report, shown)
      PROVE  RotationInv'
  BY <1>1, <1>4 DEF Submit
<1>5. ASSUME NEW f \in Filers, FilingStep(f)
      PROVE  RotationInv'
  <2>1. CASE FillCache(f)
    BY <2>1, FairUntouched DEF FillCache, deskTables
  <2> QED
    BY Zenon, <1>1, <1>5, <2>1, FairTurn DEF FilingStep, ReadService, Route, ReadQueue, CompareLoads, ReadPolicy, LookUp,
       ReadCalendar, Insert, RecordNoticeShown
<1>6. ASSUME NEW r \in Requests, CloseRequest(r)
      PROVE  RotationInv'
  BY <1>1, <1>6 DEF CloseRequest
<1>7. CASE Restart
  BY <1>7, FairUntouched DEF Restart, deskTables
<1> QED
  BY <1>2, <1>3, <1>4, <1>5, <1>6, <1>7, FairEdited DEF Next

(* The rotation of a queue is fair (PickAssignee, advanceCursor), for any  *)
(* members, any modulus of the cursor and any overlap of submissions and   *)
(* edits.                                                                  *)
THEOREM RotationStaysFair == Spec => []RotationIsFair
<1>1. Init => TypeInv /\ RotationInv
  <2> SUFFICES ASSUME Init
               PROVE  RotationInv
    BY TypeInit
  <2> SUFFICES ASSUME NEW q \in Queues
               PROVE  FairAt(q)
    BY DEF RotationInv
  <2>1. turns[q] = [u \in Members |-> 0] /\ slips[q] = 0
    BY DEF Init
  <2> DEFINE e == Eligible(q)
  <2>2. e \in Seq(ToSet(Users)) /\ \A i \in 1..Len(e) : e[i] \in Members
    BY TeamsAre DEF Eligible
  <2> HIDE DEF e
  <2>3. Len(e) \in Nat /\ \A i \in 1..Len(e) : Shares(e, turns[q])[i] = 0
    BY <2>1, <2>2 DEF Shares
  <2>4. Even(Len(e), queues[q].cursor % Len(e), Shares(e, turns[q]), 0)
    BY <2>3, AllHaveNone
  <2> QED
    BY <2>1, <2>4 DEF FairAt, e
<1>2. TypeInv /\ RotationInv => RotationIsFair
  <2> SUFFICES ASSUME TypeInv, RotationInv, NEW q \in Queues, queues[q] # absent,
                      NEW u \in ToSet(Eligible(q)), NEW v \in ToSet(Eligible(q))
               PROVE  turns[q][u] <= turns[q][v] + 1 + 2 * slips[q]
    BY DEF RotationIsFair
  <2> DEFINE e == Eligible(q)
             n == Len(e)
             p == queues[q].cursor % n
             a == Shares(e, turns[q])
  <2>1. e \in Seq(ToSet(Users)) /\ \A i \in 1..n : e[i] \in Members
    BY TeamsAre DEF Eligible
  <2>2. Even(n, p, a, slips[q])
    BY DEF RotationInv, FairAt
  <2>3. slips[q] \in Nat /\ turns[q] \in [Members -> Nat]
    BY DEF TypeInv, TurnsOK
  <2>4. n \in Nat /\ \A i \in 1..n : a[i] = turns[q][e[i]] /\ a[i] \in Nat
    BY <2>1, <2>3 DEF Shares
  <2>5. PICK i \in 1..n, j \in 1..n : u = e[i] /\ v = e[j]
    BY <2>1 DEF ToSet
  <2>6. p \in Int
    <3>1. n \in Nat \ {0}
      BY <2>4, <2>5
    <3>2. queues[q].cursor \in Nat
      BY DeskConstants DEF TypeInv, DeskOK, Queue
    <3> HIDE DEF n
    <3>3. p \in 0..(n - 1)
      BY Zenon, <3>1, <3>2, GoesRound
    <3> HIDE DEF p
    <3> QED
      BY <3>1, <3>3
  <2> HIDE DEF p, a, n, e
  <2>7. Ahead(p, i, j) \/ Ahead(p, j, i)
    BY <2>4, <2>6 DEF Ahead
  <2>8. a[i] <= a[j] + 1 + 2 * slips[q]
    BY <2>2, <2>3, <2>4, <2>7 DEF Even
  <2> QED
    BY <2>4, <2>5, <2>8
<1>3. TypeInv /\ RotationInv /\ [Next]_vars => (TypeInv /\ RotationInv)'
  BY TypesStay, FairStays
<1> QED
  BY <1>1, <1>2, <1>3, PTL DEF Spec
=============================================================================
