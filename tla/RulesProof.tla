----------------------------- MODULE RulesProof -----------------------------
(***************************************************************************)
(* Proofs that what Triage files follows the rules, the forms and the      *)
(* calendars, for any of them, any submissions and any edits in between.   *)
(***************************************************************************)
EXTENDS TriageProof

-----------------------------------------------------------------------------
(* Walks.  A recursion on the steps 0..L has a solution.                   *)

IsWalk(h, D, base, L, F) ==
    /\ h \in [0..L -> D] /\ h[0] = base
    /\ \A n \in 1..L : h[n] = F[<<h[n - 1], n>>]

LEMMA WalkExists ==
  ASSUME NEW D, NEW base \in D, NEW L \in Nat, NEW F \in [D \X (1..L) -> D]
  PROVE  \E h : IsWalk(h, D, base, L, F)
<1>1. PICK g : IsFold(g, D, base, L, F)
  BY Zenon, FoldExists
<1> DEFINE h == [n \in 0..L |-> g[1..n]]
<1>2. \A n \in 0..L : 1..n \in SUBSET (1..L)
  OBVIOUS
<1>3. h \in [0..L -> D]
  BY Zenon, <1>1, <1>2 DEF IsFold
<1>4. h[0] = base
  <2>1. 1..0 = {} /\ 0 \in 0..L
    OBVIOUS
  <2> QED
    BY Zenon, <1>1, <1>2, <2>1 DEF IsFold
<1>5. ASSUME NEW n \in 1..L
      PROVE  h[n] = F[<<h[n - 1], n>>]
  <2>1. n \in Nat \ {0} /\ n \in 0..L /\ n - 1 \in 0..L
    OBVIOUS
  <2>2. Max(1..n) = n /\ (1..n) \ {Max(1..n)} = 1..(n - 1) /\ 1..n # {}
    BY Zenon, <2>1, MaxUpTo
  <2> QED
    BY Zenon, <1>1, <1>2, <2>1, <2>2 DEF IsFold
<1> QED
  BY Zenon, <1>3, <1>4, <1>5 DEF IsWalk

(* What holds at the start of a walk and at each step after one where it   *)
(* held, holds at its end.                                                 *)
LEMMA WalkKeeps ==
  ASSUME NEW L \in Nat, NEW S \in SUBSET (0..L), 0 \in S,
         \A n \in 1..L : n - 1 \in S => n \in S
  PROVE  \A n \in 0..L : n \in S
<1>1. ASSUME (0..L) \ S # {}
      PROVE  FALSE
  <2>1. (0..L) \ S \subseteq Nat
    OBVIOUS
  <2>2. PICK n \in (0..L) \ S : \A m \in (0..L) \ S : n <= m
    BY Zenon, <1>1, <2>1, LeastOf
  <2>3. n \in 1..L /\ n - 1 \in 0..L /\ ~(n <= n - 1)
    BY <2>2
  <2> QED
    BY <2>2, <2>3
<1> QED
  BY Zenon, <1>1
-----------------------------------------------------------------------------
(* Open minutes.                                                           *)

OpenFrom(cal, a, b) == {t \in a..(b - 1) : IsOpen(cal, t)}

LEMMA OpenIsFinite ==
  ASSUME NEW cal, NEW a \in Int, NEW b \in Int
  PROVE  /\ IsFiniteSet(OpenFrom(cal, a, b)) /\ OpenMinutes(cal, a, b) = Cardinality(OpenFrom(cal, a, b))
         /\ OpenMinutes(cal, a, b) \in Nat
<1>1. IsFiniteSet(a..(b - 1))
  <2>1. b - 1 \in Int
    OBVIOUS
  <2> QED
    BY Zenon, <2>1, FS_Interval
<1>2. OpenFrom(cal, a, b) \in SUBSET (a..(b - 1))
  BY Zenon DEF OpenFrom
<1>3. IsFiniteSet(OpenFrom(cal, a, b))
  BY Zenon, <1>1, <1>2, FS_Subset
<1>4. OpenMinutes(cal, a, b) = Cardinality(OpenFrom(cal, a, b))
  BY Zenon DEF OpenMinutes, OpenFrom
<1> QED
  BY Zenon, <1>3, <1>4, FS_CardinalityType

LEMMA NatInt == \A n \in Nat : n \in Int
OBVIOUS

LEMMA OpenAddsUp ==
  ASSUME NEW cal, NEW a \in Int, NEW b \in Int, NEW c \in Int, a <= b, b <= c
  PROVE  OpenMinutes(cal, a, c) = OpenMinutes(cal, a, b) + OpenMinutes(cal, b, c)
<1> DEFINE A == OpenFrom(cal, a, b)
           B == OpenFrom(cal, b, c)
<1>1. a..(c - 1) = (a..(b - 1)) \cup (b..(c - 1)) /\ (a..(b - 1)) \cap (b..(c - 1)) = {}
  OBVIOUS
<1>2. OpenFrom(cal, a, c) = A \cup B /\ A \cap B = {}
  BY Zenon, <1>1 DEF OpenFrom
<1>3. IsFiniteSet(A) /\ IsFiniteSet(B)
  BY Zenon, OpenIsFinite
<1>4. Cardinality(A \cup B) = Cardinality(A) + Cardinality(B) - Cardinality(A \cap B)
  BY Zenon, <1>3, FS_Union
<1>5. Cardinality(A \cap B) = 0
  BY Zenon, <1>2, FS_EmptySet
<1>6. /\ OpenMinutes(cal, a, c) = Cardinality(A \cup B)
      /\ OpenMinutes(cal, a, b) = Cardinality(A) /\ OpenMinutes(cal, b, c) = Cardinality(B)
  BY Zenon, <1>2, OpenIsFinite
<1>7. OpenMinutes(cal, a, b) \in Nat /\ OpenMinutes(cal, b, c) \in Nat
  BY Zenon, OpenIsFinite
<1> QED
  BY <1>4, <1>5, <1>6, <1>7

LEMMA NoneIsOpen ==
  ASSUME NEW cal, NEW a \in Int, NEW b \in Int, \A t \in a..(b - 1) : ~IsOpen(cal, t)
  PROVE  OpenMinutes(cal, a, b) = 0
<1>1. OpenFrom(cal, a, b) = {}
  BY Zenon DEF OpenFrom
<1> QED
  BY Zenon, <1>1, OpenIsFinite, FS_EmptySet

LEMMA AllIsOpen ==
  ASSUME NEW cal, NEW a \in Int, NEW b \in Int, a <= b, \A t \in a..(b - 1) : IsOpen(cal, t)
  PROVE  OpenMinutes(cal, a, b) = b - a
<1>1. OpenFrom(cal, a, b) = a..(b - 1)
  BY Zenon DEF OpenFrom
<1>2. b - 1 \in Int
  OBVIOUS
<1>3. Cardinality(a..(b - 1)) = IF a > b - 1 THEN 0 ELSE (b - 1) - a + 1
  BY Zenon, <1>2, FS_Interval
<1>4. OpenMinutes(cal, a, b) = Cardinality(a..(b - 1))
  BY Zenon, <1>1, OpenIsFinite
<1> QED
  BY <1>3, <1>4

(* Those of them on days that are surely looked at from f.                 *)
SureFrom(cal, f, a, b) == {t \in a..(b - 1) : IsOpen(cal, t) /\ ~MayPassOver(cal, f, DayOf(t))}

SureIn(cal, f, a, b) == Cardinality(SureFrom(cal, f, a, b))

LEMMA SureAre == \A cal, from, to : SureMinutes(cal, from, to) = SureIn(cal, from, from, to)
BY Zenon DEF SureMinutes, SureIn, SureFrom

LEMMA SureIsFinite ==
  ASSUME NEW cal, NEW f, NEW a \in Int, NEW b \in Int
  PROVE  /\ IsFiniteSet(SureFrom(cal, f, a, b)) /\ SureIn(cal, f, a, b) \in Nat
         /\ SureIn(cal, f, a, b) <= OpenMinutes(cal, a, b)
<1>1. IsFiniteSet(OpenFrom(cal, a, b)) /\ OpenMinutes(cal, a, b) = Cardinality(OpenFrom(cal, a, b))
  BY Zenon, OpenIsFinite
<1>2. SureFrom(cal, f, a, b) \in SUBSET OpenFrom(cal, a, b)
  BY Zenon DEF SureFrom, OpenFrom
<1>3. /\ IsFiniteSet(SureFrom(cal, f, a, b))
      /\ Cardinality(SureFrom(cal, f, a, b)) <= Cardinality(OpenFrom(cal, a, b))
  BY Zenon, <1>1, <1>2, FS_Subset
<1> QED
  BY Zenon, <1>1, <1>3, FS_CardinalityType DEF SureIn

LEMMA SureAddsUp ==
  ASSUME NEW cal, NEW f, NEW a \in Int, NEW b \in Int, NEW c \in Int, a <= b, b <= c
  PROVE  SureIn(cal, f, a, c) = SureIn(cal, f, a, b) + SureIn(cal, f, b, c)
<1> DEFINE A == SureFrom(cal, f, a, b)
           B == SureFrom(cal, f, b, c)
<1>1. a..(c - 1) = (a..(b - 1)) \cup (b..(c - 1)) /\ (a..(b - 1)) \cap (b..(c - 1)) = {}
  OBVIOUS
<1>2. SureFrom(cal, f, a, c) = A \cup B /\ A \cap B = {}
  BY Zenon, <1>1 DEF SureFrom
<1>3. IsFiniteSet(A) /\ IsFiniteSet(B)
  BY Zenon, SureIsFinite
<1>4. Cardinality(A \cup B) = Cardinality(A) + Cardinality(B) - Cardinality(A \cap B)
  BY Zenon, <1>3, FS_Union
<1>5. Cardinality(A \cap B) = 0
  BY Zenon, <1>2, FS_EmptySet
<1>6. /\ SureIn(cal, f, a, c) = Cardinality(A \cup B)
      /\ SureIn(cal, f, a, b) = Cardinality(A) /\ SureIn(cal, f, b, c) = Cardinality(B)
  BY Zenon, <1>2 DEF SureIn
<1>7. SureIn(cal, f, a, b) \in Nat /\ SureIn(cal, f, b, c) \in Nat
  BY Zenon, SureIsFinite
<1> QED
  BY <1>4, <1>5, <1>6, <1>7

LEMMA NoneIsSure ==
  ASSUME NEW cal, NEW f, NEW a \in Int, NEW b \in Int, \A t \in a..(b - 1) : MayPassOver(cal, f, DayOf(t))
  PROVE  SureIn(cal, f, a, b) = 0
<1>1. SureFrom(cal, f, a, b) = {}
  BY Zenon DEF SureFrom
<1> QED
  BY Zenon, <1>1, FS_EmptySet DEF SureIn
-----------------------------------------------------------------------------
(* Days and windows.                                                       *)

LEMMA DividedInto ==
  ASSUME NEW q \in Nat, NEW n \in Nat \ {0}, NEW r \in 0..(n - 1)
  PROVE  ((n * q) + r) \div n = q
BY SMT

LEMMA DaysAre ==
  /\ DayLength \in Nat \ {0} /\ Week \in Nat \ {0} /\ MaxDays \in Nat \ {0}
  /\ \A day \in Nat : Midnight(day) \in Nat /\ Midnight(day + 1) = Midnight(day) + DayLength
<1>1. DayLength \in Nat \ {0} /\ Week \in Nat \ {0} /\ MaxDays \in Nat \ {0}
  BY TimeAssumption
<1>2. ASSUME NEW day \in Nat
      PROVE  Midnight(day) \in Nat /\ Midnight(day + 1) = Midnight(day) + DayLength
  <2>1. day * DayLength \in Nat /\ (day + 1) * DayLength = (day * DayLength) + DayLength
    BY <1>1
  <2> QED
    BY <2>1 DEF Midnight
<1> QED
  BY Zenon, <1>1, <1>2

LEMMA MinutesOfDay ==
  ASSUME NEW day \in Nat, NEW t \in Midnight(day)..(Midnight(day + 1) - 1)
  PROVE  DayOf(t) = day /\ t % DayLength = t - Midnight(day)
<1> DEFINE r == t - Midnight(day)
<1>1. DayLength \in Nat \ {0} /\ Midnight(day) \in Nat /\ Midnight(day + 1) = Midnight(day) + DayLength
  BY Zenon, DaysAre
<1>2. r \in 0..(DayLength - 1) /\ t = Midnight(day) + r
  BY <1>1
<1>3. t = (DayLength * day) + r
  <2>1. DayLength * day = day * DayLength
    BY <1>1
  <2> QED
    BY <1>2, <2>1 DEF Midnight
<1> HIDE DEF r
<1>4. ((DayLength * day) + r) \div DayLength = day /\ ((DayLength * day) + r) % DayLength = r
  BY Zenon, <1>1, <1>2, Divided, DividedInto
<1>5. DayOf(t) = day /\ t % DayLength = r
  BY Zenon, <1>3, <1>4 DEF DayOf
<1> QED
  BY Zenon, <1>5 DEF r

LEMMA DayOfMinute ==
  ASSUME NEW t \in Nat
  PROVE  DayOf(t) \in Nat /\ t \in Midnight(DayOf(t))..(Midnight(DayOf(t) + 1) - 1)
<1>1. DayLength \in Nat \ {0}
  BY Zenon, DaysAre
<1> DEFINE q == t \div DayLength
           r == t % DayLength
<1>2. q \in Nat /\ r \in 0..(DayLength - 1) /\ t = (DayLength * q) + r
  BY <1>1
<1> HIDE DEF q, r
<1>3. Midnight(q) \in Nat /\ Midnight(q + 1) = Midnight(q) + DayLength
  BY Zenon, <1>2, DaysAre
<1>4. Midnight(q) = DayLength * q
  BY <1>1, <1>2 DEF Midnight
<1>5. t \in Midnight(q)..(Midnight(q + 1) - 1)
  BY <1>1, <1>2, <1>3, <1>4
<1> QED
  BY Zenon, <1>2, <1>5 DEF DayOf, q

LEMMA ThoseTyped ==
  ASSUME NEW X, NEW seq \in Seq(X), NEW S
  PROVE  Those(seq, S) \in Seq(X \cap S)
<1> DEFINE L == Len(seq)
<1>1. L \in Nat /\ <<>> \in Seq(X \cap S) /\ 0 \in 0..L
  OBVIOUS
<1>2. PICK w : /\ w[0] = <<>>
               /\ \A i \in 1..L : w[i] = IF seq[i] \in S THEN Append(w[i - 1], seq[i]) ELSE w[i - 1]
               /\ Those(seq, S) = w[L]
  BY Zenon, ThoseWalk
<1> DEFINE Typed == {i \in 0..L : w[i] \in Seq(X \cap S)}
<1>3. 0 \in Typed
  BY Zenon, <1>1, <1>2
<1>4. ASSUME NEW i \in 1..L, i - 1 \in Typed
      PROVE  i \in Typed
  <2>1. w[i - 1] \in Seq(X \cap S) /\ i \in 0..L /\ seq[i] \in X
    BY <1>4
  <2>2. seq[i] \in S => Append(w[i - 1], seq[i]) \in Seq(X \cap S)
    BY <2>1
  <2>3. w[i] = IF seq[i] \in S THEN Append(w[i - 1], seq[i]) ELSE w[i - 1]
    BY Zenon, <1>2
  <2> QED
    BY Zenon, <2>1, <2>2, <2>3
<1>5. Typed \in SUBSET (0..L)
  OBVIOUS
<1> HIDE DEF Typed
<1>6. \A i \in 0..L : i \in Typed
  BY Zenon, <1>1, <1>3, <1>4, <1>5, WalkKeeps
<1>7. L \in Typed
  BY <1>1, <1>6
<1> QED
  BY Zenon, <1>2, <1>7 DEF Typed

RealWindow == {w \in Window : w.start < w.end}

LEMMA WindowsAre ==
  ASSUME NEW cal, IsCalendar(cal), NEW day \in Nat
  PROVE  WindowsOn(cal, day) \in Seq(RealWindow)
<1> DEFINE d == day % Week
           of == cal.windows[d]
<1>1. d \in 0..(Week - 1)
  BY Zenon, DaysAre, GoesRound
<1>2. of \in Seq(Window)
  BY Zenon, <1>1 DEF IsCalendar
<1>3. WindowsOf(cal, d) \in Seq(Window \cap {w \in ToSet(of) : w.start < w.end})
  BY Zenon, <1>2, ThoseTyped DEF WindowsOf
<1>4. Window \cap {w \in ToSet(of) : w.start < w.end} \subseteq RealWindow
  BY Zenon DEF RealWindow
<1>5. WindowsOf(cal, d) \in Seq(RealWindow)
  <2> HIDE DEF d, of
  <2> QED
    BY <1>3, <1>4
<1>6. <<>> \in Seq(RealWindow)
  OBVIOUS
<1> QED
  BY Zenon, <1>5, <1>6 DEF WindowsOn

(* In a calendar whose windows are in order, a day's are apart and end by  *)
(* midnight.                                                               *)
LEMMA WindowsInOrder ==
  ASSUME NEW cal, IsCalendar(cal), Orderly(cal), NEW day \in Nat,
         NEW i \in 1..Len(WindowsOn(cal, day))
  PROVE  LET w == WindowsOn(cal, day)[i] IN
         /\ w.start \in Nat /\ w.end \in Nat /\ w.start < w.end /\ w.end <= DayLength
         /\ \A j \in 1..Len(WindowsOn(cal, day)) : i < j => w.end <= WindowsOn(cal, day)[j].start
<1> DEFINE ws == WindowsOn(cal, day)
           w == ws[i]
<1>1. ws \in Seq(RealWindow)
  BY Zenon, WindowsAre
<1>2. w \in RealWindow /\ DOMAIN ws = 1..Len(ws)
  BY <1>1
<1>3. day % Week \in 0..(Week - 1)
  BY Zenon, DaysAre, GoesRound
<1>4. day \notin cal.holidays
  <2>1. Len(<<>>) = 0 /\ ~(i \in 1..0)
    OBVIOUS
  <2> QED
    BY Zenon, <2>1 DEF WindowsOn
<1>5. ws = WindowsOf(cal, day % Week)
  BY Zenon, <1>4 DEF WindowsOn
<1>6. ws[i].end <= DayLength /\ \A j \in DOMAIN ws : i < j => ws[i].end <= ws[j].start
  BY Zenon, <1>2, <1>3, <1>5 DEF Orderly
<1>7. w.start \in Nat /\ w.end \in Nat /\ w.start < w.end
  BY <1>2 DEF RealWindow, Window
<1> QED
  BY Zenon, <1>2, <1>6, <1>7

(* A calendar that shuts before midnight has no day that closes at it.     *)
LEMMA ShutsEveryDay ==
  ASSUME NEW cal, ShutsBeforeMidnight(cal), NEW day \in Nat
  PROVE  ~ClosesAtMidnight(cal, day)
<1>1. DayLength \in Nat /\ day % Week \in 0..(Week - 1)
  BY Zenon, DaysAre, GoesRound
<1>2. \A w \in ToSet(WindowsOf(cal, day % Week)) : w.end < DayLength
  BY Zenon, <1>1 DEF ShutsBeforeMidnight
<1>3. ToSet(<<>>) = {} /\ ~(DayLength < DayLength)
  BY <1>1 DEF ToSet
<1> QED
  BY Zenon, <1>2, <1>3 DEF ClosesAtMidnight, WindowsOn

LEMMA AllIsSure ==
  ASSUME NEW cal, ShutsBeforeMidnight(cal), NEW from \in Nat, NEW to \in Int
  PROVE  SureMinutes(cal, from, to) = OpenMinutes(cal, from, to)
<1>1. ASSUME NEW t \in from..(to - 1)
      PROVE  ~MayPassOver(cal, from, DayOf(t))
  <2>1. DayOf(from) \in Nat /\ DayOf(t) \in Nat
    <3>1. t \in Nat
      OBVIOUS
    <3> QED
      BY Zenon, <3>1, DayOfMinute
  <2>2. DayOf(t) > DayOf(from) => DayOf(t) - 1 \in Nat
    <3> DEFINE a == DayOf(from)
               b == DayOf(t)
    <3> HIDE DEF a, b
    <3>1. a \in Nat /\ b \in Nat
      BY Zenon, <2>1 DEF a, b
    <3>2. b > a => b - 1 \in Nat
      BY <3>1
    <3> QED
      BY Zenon, <3>2 DEF a, b
  <2> QED
    BY Zenon, <2>2, ShutsEveryDay DEF MayPassOver
<1>2. {t \in from..(to - 1) : IsOpen(cal, t) /\ ~MayPassOver(cal, from, DayOf(t))} =
      {t \in from..(to - 1) : IsOpen(cal, t)}
  BY Zenon, <1>1
<1> QED
  BY Zenon, <1>2 DEF SureMinutes, OpenMinutes

LEMMA SinceMidnight ==
  ASSUME NEW m \in Nat, NEW s \in Nat, NEW e \in Nat, NEW t \in (m + s)..((m + e) - 1)
  PROVE  t - m \in s..(e - 1)
OBVIOUS

LEMMA WithinTheDay ==
  ASSUME NEW m \in Nat, NEW l \in Nat, NEW s \in Nat, NEW e \in Nat, NEW t \in (m + s)..((m + e) - 1), e <= l
  PROVE  t \in m..((m + l) - 1)
OBVIOUS

LEMMA OpenInWindow ==
  ASSUME NEW cal, IsCalendar(cal), Orderly(cal), NEW day \in Nat,
         NEW i \in 1..Len(WindowsOn(cal, day)),
         NEW t \in (Midnight(day) + WindowsOn(cal, day)[i].start)..((Midnight(day) + WindowsOn(cal, day)[i].end) - 1)
  PROVE  IsOpen(cal, t)
<1> DEFINE w == WindowsOn(cal, day)[i]
<1>1. w.start \in Nat /\ w.end \in Nat /\ w.end <= DayLength
  BY Zenon, WindowsInOrder
<1>0. t \in (Midnight(day) + w.start)..((Midnight(day) + w.end) - 1)
  OBVIOUS
<1> DEFINE ws == WindowsOn(cal, day)
<1>6. w \in ToSet(ws)
  <2>1. ws \in Seq(RealWindow)
    BY Zenon, WindowsAre
  <2> QED
    BY <2>1 DEF ToSet
<1> HIDE DEF w, ws
<1>2. DayLength \in Nat /\ Midnight(day) \in Nat /\ Midnight(day + 1) = Midnight(day) + DayLength
  BY DaysAre
<1>3. t \in Midnight(day)..(Midnight(day + 1) - 1)
  <2>1. t \in Midnight(day)..((Midnight(day) + DayLength) - 1)
    BY Zenon, <1>0, <1>1, <1>2, WithinTheDay
  <2> QED
    BY Zenon, <1>2, <2>1
<1>4. DayOf(t) = day /\ t % DayLength = t - Midnight(day)
  BY Zenon, <1>3, MinutesOfDay
<1>5. t - Midnight(day) \in w.start..(w.end - 1)
  BY Zenon, <1>0, <1>1, <1>2, SinceMidnight
<1> QED
  BY Zenon, <1>4, <1>5, <1>6 DEF IsOpen, ws

LEMMA ClosedBetween ==
  ASSUME NEW cal, IsCalendar(cal), ~AlwaysOpen(cal), NEW day \in Nat,
         NEW t \in Midnight(day)..(Midnight(day + 1) - 1),
         \A i \in 1..Len(WindowsOn(cal, day)) :
            \/ t < Midnight(day) + WindowsOn(cal, day)[i].start
            \/ Midnight(day) + WindowsOn(cal, day)[i].end <= t
  PROVE  ~IsOpen(cal, t)
<1>1. DayOf(t) = day /\ t % DayLength = t - Midnight(day)
  BY Zenon, MinutesOfDay
<1>2. WindowsOn(cal, day) \in Seq(RealWindow)
  BY Zenon, WindowsAre
<1>3. ASSUME NEW w \in ToSet(WindowsOn(cal, day))
      PROVE  ~(t - Midnight(day) \in w.start..(w.end - 1))
  <2>1. PICK i \in 1..Len(WindowsOn(cal, day)) : w = WindowsOn(cal, day)[i]
    BY <1>2, <1>3 DEF ToSet
  <2>2. w \in RealWindow
    BY <1>2, <2>1
  <2>3. w.start \in Nat /\ w.end \in Nat
    BY <2>2 DEF RealWindow, Window
  <2>4. t < Midnight(day) + w.start \/ Midnight(day) + w.end <= t
    BY Zenon, <2>1
  <2>5. Midnight(day) \in Nat /\ t \in Int
    <3>1. Midnight(day) \in Nat
      BY Zenon, DaysAre
    <3> QED
      BY <3>1
  <2> QED
    BY <2>3, <2>4, <2>5
<1> QED
  BY Zenon, <1>1, <1>3 DEF IsOpen
-----------------------------------------------------------------------------
(* Add spends what is asked for, window after window and day after day.    *)

Clock == [at : Nat, left : Nat]

Spends(c, opens, closes, e) ==
    /\ e \in Clock
    /\ c.left = 0 \/ c.at >= closes => e = c
    /\ c.left # 0 /\ c.at < closes =>
         \E from \in {c.at, opens} :
            /\ from >= c.at /\ from >= opens
            /\ \/ closes - from >= c.left /\ e.at = from + c.left /\ e.left = 0
               \/ closes - from < c.left /\ e.at = closes /\ e.left = c.left - (closes - from)

LEMMA SpendInIs ==
  ASSUME NEW c \in Clock, NEW day \in Nat, NEW w, w.start \in Nat, w.end \in Nat
  PROVE  Spends(c, Midnight(day) + w.start, Midnight(day) + w.end, SpendIn(c, day, w))
<1> DEFINE opens == Midnight(day) + w.start
           closes == Midnight(day) + w.end
           e == SpendIn(c, day, w)
           from == Later(c.at, opens)
<1>1. c.at \in Nat /\ c.left \in Nat
  BY DEF Clock
<1>2. opens \in Nat /\ closes \in Nat
  <2>1. Midnight(day) \in Nat
    BY Zenon, DaysAre
  <2> QED
    BY <2>1
<1>3. /\ c.left = 0 \/ c.at >= closes => e = c
      /\ ~(c.left = 0 \/ c.at >= closes) =>
           e = IF closes - from >= c.left THEN [at |-> from + c.left, left |-> 0]
               ELSE [at |-> closes, left |-> c.left - (closes - from)]
  BY Zenon DEF SpendIn
<1>4. /\ from \in {c.at, opens} /\ from \in Nat /\ from >= c.at /\ from >= opens
  <2> HIDE DEF opens
  <2> QED
    BY <1>1, <1>2 DEF Later
<1>5. Spends(c, opens, closes, e) <=>
        /\ e \in Clock
        /\ c.left = 0 \/ c.at >= closes => e = c
        /\ c.left # 0 /\ c.at < closes =>
             \E f \in {c.at, opens} :
                /\ f >= c.at /\ f >= opens
                /\ \/ closes - f >= c.left /\ e.at = f + c.left /\ e.left = 0
                   \/ closes - f < c.left /\ e.at = closes /\ e.left = c.left - (closes - f)
  BY Zenon DEF Spends
<1> HIDE DEF opens, closes, e, from
<1>6. CASE c.left = 0 \/ c.at >= closes
  <2>1. ~(c.left # 0 /\ c.at < closes)
    BY <1>1, <1>2, <1>6
  <2> QED
    BY Zenon, <1>3, <1>5, <1>6, <2>1 DEF opens, closes, e
<1>7. CASE ~(c.left = 0 \/ c.at >= closes) /\ closes - from >= c.left
  <2>1. e = [at |-> from + c.left, left |-> 0]
    BY Zenon, <1>3, <1>7
  <2>2. e.at = from + c.left /\ e.left = 0 /\ e \in Clock
    BY <1>1, <1>4, <2>1 DEF Clock
  <2> QED
    BY Zenon, <1>4, <1>5, <1>7, <2>2 DEF opens, closes, e
<1>8. CASE ~(c.left = 0 \/ c.at >= closes) /\ ~(closes - from >= c.left)
  <2>1. e = [at |-> closes, left |-> c.left - (closes - from)]
    BY Zenon, <1>3, <1>8
  <2>2. closes - from < c.left /\ c.left - (closes - from) \in Nat
    BY <1>1, <1>2, <1>4, <1>8
  <2>3. e.at = closes /\ e.left = c.left - (closes - from) /\ e \in Clock
    BY <1>2, <2>1, <2>2 DEF Clock
  <2> QED
    BY Zenon, <1>4, <1>5, <1>8, <2>2, <2>3 DEF opens, closes, e
<1> QED
  BY Zenon, <1>6, <1>7, <1>8

LEMMA SpendWalk ==
  ASSUME NEW cal, IsCalendar(cal), NEW c \in Clock
  PROVE  \E h : /\ h[0] = c
                /\ \A i \in 1..Len(WindowsOn(cal, DayOf(c.at))) :
                      h[i] = SpendIn(h[i - 1], DayOf(c.at), WindowsOn(cal, DayOf(c.at))[i])
                /\ SpendDay(c, cal) =
                      IF h[Len(WindowsOn(cal, DayOf(c.at)))].left = 0 THEN h[Len(WindowsOn(cal, DayOf(c.at)))]
                      ELSE [h[Len(WindowsOn(cal, DayOf(c.at)))] EXCEPT
                              !.at = Midnight(DayOf(h[Len(WindowsOn(cal, DayOf(c.at)))].at) + 1)]
<1> DEFINE day == DayOf(c.at)
           ws == WindowsOn(cal, day)
           L == Len(ws)
           F == [step \in Clock \X (1..L) |-> SpendIn(step[1], day, ws[step[2]])]
           Solves(g) == g = [s \in SUBSET DOMAIN ws |->
                               IF s = {} THEN c ELSE SpendIn(g[s \ {Max(s)}], day, ws[Max(s)])]
           iter == CHOOSE g : Solves(g)
<1>1. day \in Nat
  <2>1. c.at \in Nat
    BY DEF Clock
  <2> QED
    BY Zenon, <2>1, DayOfMinute
<1>2. ws \in Seq(RealWindow)
  BY Zenon, <1>1, WindowsAre
<1>3. L \in Nat /\ DOMAIN ws = 1..L
  <2> HIDE DEF ws
  <2> QED
    BY <1>2
<1>4. \A d \in Clock, i \in 1..L : SpendIn(d, day, ws[i]) \in Clock
  <2>1. \A i \in 1..L : ws[i] \in RealWindow
    <3> HIDE DEF ws
    <3> QED
      BY <1>2
  <2>2. \A w \in RealWindow : w.start \in Nat /\ w.end \in Nat
    BY DEF RealWindow, Window
  <2> QED
    BY Zenon, <1>1, <2>1, <2>2, SpendInIs DEF Spends
<1>5. F \in [Clock \X (1..L) -> Clock]
  <2> HIDE DEF L, ws, day
  <2> QED
    BY <1>4
<1>6. \A d \in Clock, i \in 1..L : F[<<d, i>>] = SpendIn(d, day, ws[i])
  <2> HIDE DEF L, ws, day
  <2> QED
    OBVIOUS
<1>7. \E g : Solves(g)
  <2> HIDE DEF F
  <2>1. PICK g : IsFold(g, Clock, c, L, F)
    BY Zenon, <1>3, <1>5, FoldExists
  <2>2. ASSUME NEW s \in SUBSET (1..L), s # {}
        PROVE  F[<<g[s \ {Max(s)}], Max(s)>>] = SpendIn(g[s \ {Max(s)}], day, ws[Max(s)])
    <3>1. Max(s) \in 1..L
      BY Zenon, <1>3, <2>2, MaxIsIn
    <3>2. g[s \ {Max(s)}] \in Clock
      BY Zenon, <2>1 DEF IsFold
    <3> QED
      BY Zenon, <3>1, <3>2, <1>6
  <2>3. Solves(g)
    BY Zenon, <1>3, <2>1, <2>2 DEF IsFold
  <2> QED
    BY Zenon, <2>3
<1>8. Solves(iter)
  BY Zenon, <1>7
<1> DEFINE spent == FoldLeft(LAMBDA d, w : SpendIn(d, day, w), c, ws)
<1>9. spent = iter[DOMAIN ws]
  BY Zenon DEF FoldLeft, MapThenFoldSet
<1>10. SpendDay(c, cal) = IF spent.left = 0 THEN spent ELSE [spent EXCEPT !.at = Midnight(DayOf(spent.at) + 1)]
  BY Zenon DEF SpendDay
<1> DEFINE h == [i \in 0..L |-> iter[1..i]]
<1> HIDE DEF iter, spent, L, ws, day
<1>11. h[0] = c
  <2>1. 1..0 = {} /\ 0 \in 0..L
    BY <1>3
  <2> QED
    BY <1>8, <2>1
<1>12. ASSUME NEW i \in 1..L
       PROVE  h[i] = SpendIn(h[i - 1], day, ws[i])
  <2>1. Max(1..i) = i /\ (1..i) \ {Max(1..i)} = 1..(i - 1) /\ 1..i # {}
    BY MaxUpTo
  <2>2. 1..i \in SUBSET DOMAIN ws /\ i \in 0..L /\ i - 1 \in 0..L
    BY <1>3
  <2> QED
    BY Zenon, <1>8, <2>1, <2>2
<1>13. h[L] = spent
  BY <1>3, <1>9
<1> HIDE DEF h
<1> QED
  BY Zenon, <1>10, <1>11, <1>12, <1>13 DEF L, ws, day

(* Where the clock stands after the first i windows of its day.            *)
SpentWithin(cal, c, i, d) ==
    /\ d \in Clock /\ c.at <= d.at /\ d.at <= Midnight(DayOf(c.at) + 1)
    /\ d.at = Midnight(DayOf(c.at) + 1) => ClosesAtMidnight(cal, DayOf(c.at))
    /\ OpenMinutes(cal, c.at, d.at) + d.left = c.left
    /\ d.left # 0 => \A j \in 1..i : Midnight(DayOf(c.at)) + WindowsOn(cal, DayOf(c.at))[j].end <= d.at
    /\ d.left = 0 => IsOpen(cal, d.at - 1)

LEMMA BeforeTheNext ==
  ASSUME NEW m \in Nat, NEW s \in Nat, NEW e \in Nat, NEW next \in Nat, NEW t \in Int,
         t < m + s, s < e, e <= next
  PROVE  t < m + next
OBVIOUS

LEMMA StillThatDay ==
  ASSUME NEW m \in Nat, NEW l \in Nat, NEW s \in Nat, NEW e \in Nat, NEW at \in Nat, NEW t \in Int,
         m <= at, at <= t, t < m + s, s < e, e <= l
  PROVE  t \in m..((m + l) - 1)
OBVIOUS

LEMMA WaitsUntil ==
  ASSUME NEW cal, IsCalendar(cal), Orderly(cal), ~AlwaysOpen(cal), NEW day \in Nat,
         NEW i \in 1..Len(WindowsOn(cal, day)), NEW at \in Nat, at >= Midnight(day),
         \A j \in 1..(i - 1) : Midnight(day) + WindowsOn(cal, day)[j].end <= at,
         NEW from \in {at, Midnight(day) + WindowsOn(cal, day)[i].start}, from <= Midnight(day) + WindowsOn(cal, day)[i].end
  PROVE  OpenMinutes(cal, at, from) = 0
<1> DEFINE w == WindowsOn(cal, day)[i]
<1>1. Midnight(day) \in Nat /\ Midnight(day + 1) = Midnight(day) + DayLength /\ DayLength \in Nat
  BY Zenon, DaysAre, DaysAre
<1>2. w.start \in Nat /\ w.end \in Nat /\ w.start < w.end /\ w.end <= DayLength
  BY Zenon, WindowsInOrder
<1>3. from \in Int /\ Len(WindowsOn(cal, day)) \in Nat
  <2>1. WindowsOn(cal, day) \in Seq(RealWindow)
    BY Zenon, WindowsAre
  <2> QED
    BY <1>1, <1>2, <2>1
<1>0. from = at \/ from = Midnight(day) + w.start
  OBVIOUS
<1>5. ASSUME NEW j \in 1..Len(WindowsOn(cal, day)), i < j
      PROVE  w.end <= WindowsOn(cal, day)[j].start
  BY Zenon, <1>5, WindowsInOrder
<1> HIDE DEF w
<1>4. ASSUME NEW t \in at..(from - 1)
      PROVE  ~IsOpen(cal, t)
  <2>1. from = Midnight(day) + w.start /\ t < from /\ at <= t /\ t \in Int
    BY <1>0, <1>1, <1>2
  <2>2. t \in Midnight(day)..(Midnight(day + 1) - 1)
    <3>1. t < Midnight(day) + w.start /\ Midnight(day) <= at
      <4>1. at >= Midnight(day) => Midnight(day) <= at
        BY <1>1
      <4> QED
        BY Zenon, <2>1, <4>1
    <3>2. t \in Midnight(day)..((Midnight(day) + DayLength) - 1)
      BY Zenon, <1>1, <1>2, <2>1, <3>1, StillThatDay
    <3> QED
      BY Zenon, <1>1, <3>2
  <2>3. ASSUME NEW j \in 1..Len(WindowsOn(cal, day))
        PROVE  \/ t < Midnight(day) + WindowsOn(cal, day)[j].start
               \/ Midnight(day) + WindowsOn(cal, day)[j].end <= t
    <3> DEFINE v == WindowsOn(cal, day)[j]
    <3>1. v.start \in Nat /\ v.end \in Nat /\ v.start < v.end
      BY Zenon, WindowsInOrder
    <3>5. j < i => Midnight(day) + v.end <= at
      <4>1. j < i => j \in 1..(i - 1)
        BY <1>3
      <4> QED
        BY Zenon, <4>1
    <3>6. i < j => w.end <= v.start
      BY Zenon, <1>5
    <3>7. j = i => v = w
      BY DEF w
    <3> HIDE DEF v
    <3>9. Midnight(day) + v.end <= at => Midnight(day) + v.end <= t
      BY <1>1, <2>1, <3>1
    <3>2. ASSUME j < i
          PROVE  Midnight(day) + v.end <= t
      BY Zenon, <3>2, <3>5, <3>9
    <3>3. ASSUME j = i
          PROVE  t < Midnight(day) + v.start
      BY Zenon, <2>1, <3>3, <3>7
    <3>4. ASSUME i < j
          PROVE  t < Midnight(day) + v.start
      BY Zenon, <1>1, <1>2, <2>1, <3>1, <3>4, <3>6, BeforeTheNext
    <3>8. j < i \/ j = i \/ i < j
      BY <1>3
    <3> QED
      BY Zenon, <3>2, <3>3, <3>4, <3>8 DEF v
  <2> QED
    BY Zenon, <2>2, <2>3, ClosedBetween
<1> QED
  BY <1>3, <1>4, NoneIsOpen

(* From b on with rest to spend of what was left at a, the minutes from     *)
(* from to closes being open.                                              *)
Spending(cal, a, left, b, rest, from, closes) ==
    /\ {a, left, b, rest, from, closes} \subseteq Nat /\ rest # 0
    /\ a <= b /\ b <= from /\ from < closes
    /\ OpenMinutes(cal, a, b) + rest = left /\ OpenMinutes(cal, b, from) = 0
    /\ \A t \in from..(closes - 1) : IsOpen(cal, t)

LeavesOf(from, closes, rest, to, last) ==
    \/ closes - from >= rest /\ to = from + rest /\ last = 0
    \/ closes - from < rest /\ to = closes /\ last = rest - (closes - from)

Spent(cal, a, left, to, last, closes) ==
    /\ a <= to /\ to <= closes /\ (last # 0 => to = closes)
    /\ OpenMinutes(cal, a, to) + last = left
    /\ IsOpen(cal, to - 1)

LEMMA SpendingOn ==
  ASSUME NEW cal, NEW a, NEW left, NEW b, NEW rest, NEW from, NEW closes, NEW to \in Nat, NEW last \in Nat,
         Spending(cal, a, left, b, rest, from, closes), LeavesOf(from, closes, rest, to, last)
  PROVE  Spent(cal, a, left, to, last, closes)
<1>0. /\ a \in Nat /\ left \in Nat /\ b \in Nat /\ rest \in Nat \ {0} /\ from \in Nat /\ closes \in Nat
      /\ a <= b /\ b <= from /\ from < closes
      /\ OpenMinutes(cal, a, b) + rest = left /\ OpenMinutes(cal, b, from) = 0
      /\ \A t \in from..(closes - 1) : IsOpen(cal, t)
  BY Zenon DEF Spending
<1>1. from < to /\ to <= closes /\ (to - from) + last = rest /\ (last # 0 => to = closes)
  BY <1>0 DEF LeavesOf
<1>2. a <= b /\ b <= to /\ a <= to /\ b <= from /\ from <= to
  BY <1>0, <1>1
<1>3. \A t \in from..(to - 1) : IsOpen(cal, t)
  BY <1>0, <1>1
<1>4. from \in Int /\ to \in Int /\ a \in Int /\ b \in Int
  BY <1>0
<1>5. OpenMinutes(cal, from, to) = to - from
  BY Zenon, <1>2, <1>3, <1>4, AllIsOpen
<1>6. OpenMinutes(cal, b, to) = OpenMinutes(cal, b, from) + OpenMinutes(cal, from, to)
  BY Zenon, <1>2, <1>4, OpenAddsUp
<1>7. OpenMinutes(cal, a, to) = OpenMinutes(cal, a, b) + OpenMinutes(cal, b, to)
  BY Zenon, <1>2, <1>4, OpenAddsUp
<1>8. OpenMinutes(cal, a, b) \in Nat
  BY Zenon, <1>4, OpenIsFinite
<1>9. OpenMinutes(cal, a, to) + last = left
  BY <1>0, <1>1, <1>5, <1>6, <1>7, <1>8
<1>10. IsOpen(cal, to - 1)
  <2>1. to - 1 \in from..(to - 1)
    BY <1>0, <1>1
  <2> QED
    BY Zenon, <1>3, <2>1
<1> QED
  BY Zenon, <1>1, <1>2, <1>9, <1>10 DEF Spent

LEMMA SpendingWithin ==
  ASSUME NEW cal, IsCalendar(cal), Orderly(cal), ~AlwaysOpen(cal), NEW c \in Clock,
         NEW i \in 1..Len(WindowsOn(cal, DayOf(c.at))), NEW d, SpentWithin(cal, c, i - 1, d)
  PROVE  SpentWithin(cal, c, i, SpendIn(d, DayOf(c.at), WindowsOn(cal, DayOf(c.at))[i]))
<1> DEFINE day == DayOf(c.at)
           shuts(j) == Midnight(day) + WindowsOn(cal, day)[j].end
           w == WindowsOn(cal, day)[i]
           e == SpendIn(d, day, w)
           opens == Midnight(day) + w.start
           closes == Midnight(day) + w.end
           midnight == Midnight(day + 1)
<1>1. c.at \in Nat /\ c.left \in Nat /\ d \in Clock /\ d.at \in Nat /\ d.left \in Nat
  BY DEF Clock, SpentWithin
<1>2. day \in Nat /\ c.at \in Midnight(day)..(midnight - 1)
  BY Zenon, <1>1, DayOfMinute
<1>3. Midnight(day) \in Nat /\ midnight = Midnight(day) + DayLength /\ DayLength \in Nat
  BY Zenon, <1>2, DaysAre
<1>4. w.start \in Nat /\ w.end \in Nat /\ w.start < w.end /\ w.end <= DayLength
  BY Zenon, <1>2, WindowsInOrder
<1>5. /\ c.at <= d.at /\ d.at <= midnight /\ (d.at = midnight => ClosesAtMidnight(cal, day))
      /\ OpenMinutes(cal, c.at, d.at) + d.left = c.left
      /\ d.left # 0 => \A j \in 1..(i - 1) : shuts(j) <= d.at
      /\ d.left = 0 => IsOpen(cal, d.at - 1)
  BY Zenon DEF SpentWithin
<1>6. Spends(d, opens, closes, e)
  BY Zenon, <1>1, <1>2, <1>4, SpendInIs
<1>7. /\ opens \in Nat /\ closes \in Nat /\ opens < closes /\ closes <= midnight
      /\ closes = midnight => w.end = DayLength
  BY <1>3, <1>4
<1>0. w \in ToSet(WindowsOn(cal, day))
  <2> DEFINE ws == WindowsOn(cal, day)
  <2>1. ws \in Seq(RealWindow)
    BY Zenon, <1>2, WindowsAre
  <2>2. ws[i] \in ToSet(ws)
    <3> HIDE DEF day
    <3>1. i \in 1..Len(ws)
      BY DEF day
    <3> HIDE DEF ws
    <3> QED
      BY <2>1, <3>1 DEF ToSet
  <2> QED
    BY Zenon, <2>2
<1>8. \A t \in opens..(closes - 1) : IsOpen(cal, t)
  BY Zenon, <1>2, OpenInWindow
<1>9. \A from \in {d.at, opens} : d.left # 0 /\ from <= closes => OpenMinutes(cal, d.at, from) = 0
  <2>1. d.at >= Midnight(day)
    BY <1>1, <1>2, <1>3, <1>5
  <2> QED
    BY Zenon, <1>1, <1>2, <1>5, <2>1, WaitsUntil
<1>10. SpentWithin(cal, c, i, e) <=>
          /\ e \in Clock /\ c.at <= e.at /\ e.at <= midnight
          /\ e.at = midnight => ClosesAtMidnight(cal, day)
          /\ OpenMinutes(cal, c.at, e.at) + e.left = c.left
          /\ e.left # 0 => \A j \in 1..i : shuts(j) <= e.at
          /\ e.left = 0 => IsOpen(cal, e.at - 1)
  BY Zenon DEF SpentWithin
<1>11. shuts(i) = closes /\ \A j \in 1..i : j \in 1..(i - 1) \/ j = i
  OBVIOUS
<1>12. \A j \in 1..(i - 1) : shuts(j) \in Nat
  <2>1. Len(WindowsOn(cal, day)) \in Nat
    <3>1. WindowsOn(cal, day) \in Seq(RealWindow)
      BY Zenon, <1>2, WindowsAre
    <3> QED
      BY <3>1
  <2>2. \A j \in 1..(i - 1) : j \in 1..Len(WindowsOn(cal, day))
    BY <2>1
  <2>3. \A j \in 1..(i - 1) : WindowsOn(cal, day)[j].end \in Nat
    BY Zenon, <1>2, <2>2, WindowsInOrder
  <2> HIDE DEF day
  <2> QED
    BY <1>3, <2>3
<1> HIDE DEF e, w, day, shuts, opens, closes, midnight
<1>13. ASSUME d.left = 0
       PROVE  SpentWithin(cal, c, i, e)
  <2>1. e = d
    BY Zenon, <1>6, <1>13 DEF Spends
  <2> QED
    BY Zenon, <1>1, <1>5, <1>10, <1>13, <2>1
<1>14. ASSUME d.left # 0, d.at >= closes
       PROVE  SpentWithin(cal, c, i, e)
  <2>1. e = d
    BY Zenon, <1>6, <1>14 DEF Spends
  <2>2. \A j \in 1..i : shuts(j) <= d.at
    <3>1. closes <= d.at
      BY <1>1, <1>7, <1>14
    <3> QED
      BY Zenon, <1>5, <1>11, <1>14, <3>1
  <2> QED
    BY Zenon, <1>1, <1>5, <1>10, <1>14, <2>1, <2>2
<1>15. ASSUME d.left # 0, d.at < closes
       PROVE  SpentWithin(cal, c, i, e)
  <2>1. e \in Clock /\ e.at \in Nat /\ e.left \in Nat
    BY <1>6 DEF Spends, Clock
  <2>2. PICK from \in {d.at, opens} :
           /\ from >= d.at /\ from >= opens
           /\ \/ closes - from >= d.left /\ e.at = from + d.left /\ e.left = 0
              \/ closes - from < d.left /\ e.at = closes /\ e.left = d.left - (closes - from)
    BY Zenon, <1>6, <1>15 DEF Spends
  <2>3. from \in Nat /\ d.at <= from /\ from < closes /\ from <= closes
    BY <1>1, <1>7, <1>15, <2>2
  <2>4. OpenMinutes(cal, d.at, from) = 0
    BY Zenon, <1>9, <1>15, <2>3
  <2>5. \A t \in from..(closes - 1) : IsOpen(cal, t)
    <3>1. \A t \in from..(closes - 1) : t \in opens..(closes - 1)
      BY <1>7, <2>2, <2>3
    <3> QED
      BY Zenon, <1>8, <3>1
  <2>6. d.left \in Nat \ {0}
    BY Zenon, <1>1, <1>15
  <2>7. /\ c.at <= e.at /\ e.at <= closes /\ (e.left # 0 => e.at = closes)
        /\ OpenMinutes(cal, c.at, e.at) + e.left = c.left
        /\ IsOpen(cal, e.at - 1)
    <3>1. Spending(cal, c.at, c.left, d.at, d.left, from, closes)
      BY Zenon, <1>1, <1>5, <1>7, <2>3, <2>4, <2>5, <2>6 DEF Spending
    <3>2. LeavesOf(from, closes, d.left, e.at, e.left)
      BY Zenon, <2>2 DEF LeavesOf
    <3>3. Spent(cal, c.at, c.left, e.at, e.left, closes)
      BY Zenon, <2>1, <3>1, <3>2, SpendingOn
    <3> QED
      BY Zenon, <3>3 DEF Spent
  <2>8. e.at <= midnight
    BY <1>3, <1>7, <2>1, <2>7
  <2>10. ASSUME e.at = midnight
         PROVE  ClosesAtMidnight(cal, day)
    <3>1. closes = midnight
      BY <1>3, <1>7, <2>1, <2>7, <2>10
    <3> QED
      BY Zenon, <1>0, <1>7, <3>1 DEF ClosesAtMidnight
  <2>9. ASSUME e.left # 0, NEW j \in 1..i
        PROVE  shuts(j) <= e.at
    <3>1. e.at = closes
      BY Zenon, <2>7, <2>9
    <3>2. CASE j = i
      BY <1>7, <1>11, <3>1, <3>2
    <3>3. CASE j \in 1..(i - 1)
      <4>1. shuts(j) <= d.at /\ shuts(j) \in Nat
        BY Zenon, <1>5, <1>12, <1>15, <3>3
      <4> QED
        BY <1>1, <1>7, <1>15, <3>1, <4>1
    <3> QED
      BY Zenon, <1>11, <3>2, <3>3
  <2> QED
    BY Zenon, <1>10, <2>1, <2>7, <2>8, <2>9, <2>10
<1> QED
  <2>1. d.left = 0 \/ (d.left # 0 /\ d.at >= closes) \/ (d.left # 0 /\ d.at < closes)
    BY <1>1, <1>7
  <2>2. SpentWithin(cal, c, i, e)
    BY Zenon, <1>13, <1>14, <1>15, <2>1
  <2> QED
    BY Zenon, <2>2 DEF e, w, day
-----------------------------------------------------------------------------
(* A day of Add: either the clock runs out in one of its windows, or what  *)
(* is left goes to the next day, or to the one after when a window closed  *)
(* at midnight.                                                            *)

DaySpent(cal, c, e) ==
    /\ e \in Clock /\ c.at <= e.at
    /\ OpenMinutes(cal, c.at, e.at) + e.left >= c.left
    /\ \A f \in Nat : DayOf(f) <= DayOf(c.at) => SureIn(cal, f, c.at, e.at) + e.left <= c.left
    /\ e.left # 0 => \/ e.at = Midnight(DayOf(c.at) + 1)
                     \/ e.at = Midnight((DayOf(c.at) + 1) + 1) /\ ClosesAtMidnight(cal, DayOf(c.at))
    /\ e.left = 0 => e.at <= Midnight(DayOf(c.at) + 1) /\ IsOpen(cal, e.at - 1)

LEMMA NothingLeft ==
  ASSUME NEW cal, IsCalendar(cal), NEW c \in Clock
  PROVE  c.left = 0 => SpendDay(c, cal) = c
<1> DEFINE day == DayOf(c.at)
           ws == WindowsOn(cal, day)
           L == Len(ws)
<1>1. PICK h : /\ h[0] = c
               /\ \A i \in 1..L : h[i] = SpendIn(h[i - 1], day, ws[i])
               /\ SpendDay(c, cal) = IF h[L].left = 0 THEN h[L]
                                     ELSE [h[L] EXCEPT !.at = Midnight(DayOf(h[L].at) + 1)]
  BY Zenon, SpendWalk
<1>2. L \in Nat
  <2>1. c.at \in Nat
    BY DEF Clock
  <2>2. ws \in Seq(RealWindow)
    BY Zenon, <2>1, DayOfMinute, WindowsAre
  <2> HIDE DEF ws
  <2> QED
    BY <2>2
<1> HIDE DEF L
<1> SUFFICES ASSUME c.left = 0
             PROVE  SpendDay(c, cal) = c
  OBVIOUS
<1> DEFINE Same == {i \in 0..L : h[i] = c}
<1>3. 0 \in Same
  BY <1>1, <1>2
<1>4. ASSUME NEW i \in 1..L, i - 1 \in Same
      PROVE  i \in Same
  <2>1. i \in 0..L
    BY <1>2
  <2>2. h[i - 1] = c
    BY Zenon, <1>4
  <2>3. SpendIn(c, day, ws[i]) = c
    BY Zenon DEF SpendIn
  <2> QED
    BY Zenon, <1>1, <2>1, <2>2, <2>3
<1>5. Same \in SUBSET (0..L)
  OBVIOUS
<1> HIDE DEF Same
<1>6. L \in Same
  <2>1. L \in 0..L
    BY <1>2
  <2> QED
    BY Zenon, <1>2, <1>3, <1>4, <1>5, <2>1, WalkKeeps
<1> QED
  BY Zenon, <1>1, <1>6 DEF Same

LEMMA SpendingADay ==
  ASSUME NEW cal, IsCalendar(cal), Orderly(cal), ~AlwaysOpen(cal), NEW c \in Clock, c.left # 0
  PROVE  DaySpent(cal, c, SpendDay(c, cal))
<1> DEFINE day == DayOf(c.at)
           ws == WindowsOn(cal, day)
           L == Len(ws)
           midnight == Midnight(day + 1)
<1>1. PICK h : /\ h[0] = c
               /\ \A i \in 1..L : h[i] = SpendIn(h[i - 1], day, ws[i])
               /\ SpendDay(c, cal) = IF h[L].left = 0 THEN h[L]
                                     ELSE [h[L] EXCEPT !.at = Midnight(DayOf(h[L].at) + 1)]
  BY Zenon, SpendWalk
<1>2. c.at \in Nat /\ c.left \in Nat
  BY DEF Clock
<1>3. day \in Nat /\ c.at \in Midnight(day)..(midnight - 1)
  BY Zenon, <1>2, DayOfMinute
<1>4. Midnight(day) \in Nat /\ midnight = Midnight(day) + DayLength /\ DayLength \in Nat
  BY Zenon, <1>3, DaysAre
<1>5. L \in Nat
  <2>1. ws \in Seq(RealWindow)
    BY Zenon, <1>3, WindowsAre
  <2> HIDE DEF ws
  <2> QED
    BY <2>1
<1>6. SpentWithin(cal, c, 0, c)
  <2>1. OpenMinutes(cal, c.at, c.at) = 0
    <3>1. c.at \in Int /\ \A t \in c.at..(c.at - 1) : ~IsOpen(cal, t)
      BY <1>2
    <3> QED
      BY Zenon, <3>1, NoneIsOpen
  <2>2. /\ c.at <= c.at /\ c.at <= midnight /\ c.at # midnight
        /\ OpenMinutes(cal, c.at, c.at) + c.left = c.left
    BY <1>2, <1>3, <1>4, <2>1
  <2>3. \A j \in 1..0 : FALSE
    OBVIOUS
  <2> QED
    BY Zenon, <2>2, <2>3 DEF SpentWithin
<1> DEFINE Fine == {i \in 0..L : SpentWithin(cal, c, i, h[i])}
<1>7. 0 \in Fine
  <2>1. 0 \in 0..L
    BY <1>5
  <2> QED
    BY Zenon, <1>1, <1>6, <2>1
<1>8. ASSUME NEW i \in 1..L, i - 1 \in Fine
      PROVE  i \in Fine
  <2>1. i \in 0..L
    BY <1>5
  <2>2. SpentWithin(cal, c, i - 1, h[i - 1])
    BY Zenon, <1>8
  <2>3. SpentWithin(cal, c, i, SpendIn(h[i - 1], day, ws[i]))
    BY Zenon, <2>2, SpendingWithin
  <2> QED
    BY Zenon, <1>1, <2>1, <2>3
<1>9. Fine \in SUBSET (0..L)
  OBVIOUS
<1> DEFINE d == h[L]
           e == SpendDay(c, cal)
<1> HIDE DEF Fine
<1>10. SpentWithin(cal, c, L, d)
  <2>1. L \in 0..L
    BY <1>5
  <2>2. L \in Fine
    BY Zenon, <1>5, <1>7, <1>8, <1>9, <2>1, WalkKeeps
  <2> QED
    BY Zenon, <2>2 DEF Fine
<1>11. /\ d \in Clock /\ c.at <= d.at /\ d.at <= midnight /\ (d.at = midnight => ClosesAtMidnight(cal, day))
       /\ OpenMinutes(cal, c.at, d.at) + d.left = c.left
       /\ d.left # 0 => \A j \in 1..L : Midnight(day) + ws[j].end <= d.at
       /\ d.left = 0 => IsOpen(cal, d.at - 1)
  BY Zenon, <1>10 DEF SpentWithin
<1>12. d.at \in Nat /\ d.left \in Nat
  <2> HIDE DEF d
  <2> QED
    BY <1>11 DEF Clock
<1>13. /\ d.left = 0 => e = d
       /\ d.left # 0 => e = [d EXCEPT !.at = Midnight(DayOf(d.at) + 1)]
  BY Zenon, <1>1
<1> DEFINE over == Midnight((day + 1) + 1)
<1>14. DaySpent(cal, c, e) <=>
          /\ e \in Clock /\ c.at <= e.at
          /\ OpenMinutes(cal, c.at, e.at) + e.left >= c.left
          /\ \A f \in Nat : DayOf(f) <= day => SureIn(cal, f, c.at, e.at) + e.left <= c.left
          /\ e.left # 0 => e.at = midnight \/ (e.at = over /\ ClosesAtMidnight(cal, day))
          /\ e.left = 0 => e.at <= midnight /\ IsOpen(cal, e.at - 1)
  BY Zenon DEF DaySpent
<1>17. ASSUME NEW to \in Nat, NEW left \in Nat, OpenMinutes(cal, c.at, to) + left = c.left
       PROVE  /\ OpenMinutes(cal, c.at, to) + left >= c.left
              /\ \A f \in Nat : DayOf(f) <= day => SureIn(cal, f, c.at, to) + left <= c.left
  <2>1. ASSUME NEW f \in Nat
        PROVE  SureIn(cal, f, c.at, to) + left <= c.left
    <3>1. /\ SureIn(cal, f, c.at, to) \in Nat /\ OpenMinutes(cal, c.at, to) \in Nat
          /\ SureIn(cal, f, c.at, to) <= OpenMinutes(cal, c.at, to)
      BY Zenon, <1>2, NatInt, OpenIsFinite, SureIsFinite
    <3> QED
      BY <1>17, <3>1
  <2> HIDE DEF day
  <2> QED
    BY <1>2, <1>17, <2>1
<1>15. ASSUME d.left = 0
       PROVE  DaySpent(cal, c, e)
  BY Zenon, <1>11, <1>12, <1>13, <1>14, <1>15, <1>17
<1>16. ASSUME d.left # 0, d.at < midnight
       PROVE  DaySpent(cal, c, e)
  <2>1. d.at \in Midnight(day)..(midnight - 1)
    <3> HIDE DEF day, midnight, d
    <3> QED
      BY <1>2, <1>3, <1>4, <1>11, <1>12, <1>16
  <2>2. DayOf(d.at) = day
    BY Zenon, <1>3, <2>1, MinutesOfDay
  <2>3. e = [d EXCEPT !.at = midnight]
    BY Zenon, <1>13, <1>16, <2>2
  <2>4. e \in Clock /\ e.at = midnight /\ e.left = d.left
    <3> HIDE DEF e, d, midnight
    <3> QED
      BY <1>4, <1>11, <1>12, <2>3 DEF Clock
  <2>5. ASSUME NEW t \in d.at..(midnight - 1)
        PROVE  ~IsOpen(cal, t)
    <3>1. t \in Midnight(day)..(midnight - 1) /\ t >= d.at
      <4> HIDE DEF day, midnight, d
      <4> QED
        BY <1>4, <1>12, <2>1
    <3>2. ASSUME NEW j \in 1..L
          PROVE  Midnight(day) + ws[j].end <= t
      <4>1. Midnight(day) + ws[j].end <= d.at
        BY Zenon, <1>11, <1>16
      <4>2. Midnight(day) + ws[j].end \in Nat
        <5>1. ws[j].end \in Nat
          BY Zenon, <1>3, WindowsInOrder
        <5> HIDE DEF ws, day
        <5> QED
          BY <1>4, <5>1
      <4> DEFINE m == Midnight(day) + ws[j].end
      <4> HIDE DEF m, midnight, d
      <4>3. m <= d.at /\ m \in Nat
        BY Zenon, <4>1, <4>2 DEF m
      <4>4. m <= t
        BY <1>4, <1>12, <3>1, <4>3
      <4> QED
        BY Zenon, <4>4 DEF m
    <3> QED
      BY Zenon, <1>3, <3>1, <3>2, ClosedBetween
  <2>6. OpenMinutes(cal, d.at, midnight) = 0
    <3>1. d.at \in Int /\ midnight \in Int
      <4> HIDE DEF midnight, d
      <4> QED
        BY <1>4, <1>12
    <3> QED
      BY Zenon, <2>5, <3>1, NoneIsOpen
  <2>7. OpenMinutes(cal, c.at, midnight) = OpenMinutes(cal, c.at, d.at) + OpenMinutes(cal, d.at, midnight)
    <3>1. c.at \in Int /\ d.at \in Int /\ midnight \in Int /\ c.at <= d.at /\ d.at <= midnight
      <4> HIDE DEF midnight, d
      <4> QED
        BY <1>2, <1>4, <1>11, <1>12
    <3> QED
      BY Zenon, <3>1, OpenAddsUp
  <2>8. OpenMinutes(cal, c.at, d.at) \in Nat
    BY Zenon, <1>2, <1>12, NatInt, OpenIsFinite
  <2> HIDE DEF e, d, midnight, day
  <2>9. OpenMinutes(cal, c.at, midnight) + d.left = c.left /\ c.at <= midnight /\ midnight \in Nat
    BY <1>2, <1>4, <1>11, <1>12, <2>6, <2>7, <2>8
  <2> QED
    BY Zenon, <1>12, <1>14, <1>16, <1>17, <2>4, <2>9
<1>18. ASSUME d.left # 0, d.at = midnight
       PROVE  DaySpent(cal, c, e)
  <2>0. day + 1 \in Nat /\ (day + 1) - 1 = day
    <3> HIDE DEF day
    <3> QED
      BY <1>3
  <2>1. over = midnight + DayLength /\ over \in Nat /\ midnight \in Nat /\ DayLength \in Nat \ {0} /\ midnight <= over
    <3>1. over = midnight + DayLength /\ midnight \in Nat /\ DayLength \in Nat \ {0}
      BY Zenon, <2>0, DaysAre
    <3> HIDE DEF over, midnight
    <3> QED
      BY <3>1
  <2>2. d.at \in midnight..(over - 1)
    <3> HIDE DEF over, midnight, d
    <3> QED
      BY <1>18, <2>1
  <2>3. DayOf(d.at) = day + 1
    BY Zenon, <2>0, <2>2, MinutesOfDay
  <2>4. e = [d EXCEPT !.at = over]
    BY Zenon, <1>13, <1>18, <2>3
  <2>5. e \in Clock /\ e.at = over /\ e.left = d.left
    <3> HIDE DEF e, d, midnight, over
    <3> QED
      BY <1>11, <1>12, <2>1, <2>4 DEF Clock
  <2>6. ClosesAtMidnight(cal, day)
    BY Zenon, <1>11, <1>18
  <2>7. c.at <= midnight /\ c.at <= over /\ OpenMinutes(cal, c.at, midnight) + d.left = c.left
    <3>1. c.at <= midnight /\ OpenMinutes(cal, c.at, midnight) + d.left = c.left
      BY Zenon, <1>11, <1>18
    <3> HIDE DEF midnight, over, d
    <3>2. c.at <= over
      BY <1>2, <2>1, <3>1
    <3> QED
      BY Zenon, <3>1, <3>2
  <2>8. /\ OpenMinutes(cal, c.at, over) = OpenMinutes(cal, c.at, midnight) + OpenMinutes(cal, midnight, over)
        /\ OpenMinutes(cal, c.at, midnight) \in Nat /\ OpenMinutes(cal, midnight, over) \in Nat
    BY Zenon, <1>2, <2>1, <2>7, NatInt, OpenAddsUp, OpenIsFinite
  <2>9. OpenMinutes(cal, c.at, over) + d.left >= c.left
    <3> HIDE DEF midnight, over, d
    <3> QED
      BY <1>2, <1>12, <2>7, <2>8
  <2>10. ASSUME NEW f \in Nat, DayOf(f) <= day
         PROVE  SureIn(cal, f, c.at, over) + d.left <= c.left
    <3>1. ASSUME NEW t \in midnight..(over - 1)
          PROVE  MayPassOver(cal, f, DayOf(t))
      <4>1. DayOf(t) = day + 1
        BY Zenon, <2>0, MinutesOfDay
      <4>2. DayOf(f) \in Nat
        BY Zenon, DayOfMinute
      <4>3. day + 1 > DayOf(f)
        <5> DEFINE a == DayOf(f)
        <5>1. a \in Nat /\ a <= day
          BY Zenon, <2>10, <4>2
        <5> HIDE DEF a, day
        <5>2. day + 1 > a
          BY <1>3, <5>1
        <5> QED
          BY Zenon, <5>2 DEF a
      <4> QED
        BY Zenon, <2>0, <2>6, <4>1, <4>3 DEF MayPassOver
    <3>2. SureIn(cal, f, midnight, over) = 0
      BY Zenon, <2>1, <3>1, NatInt, NoneIsSure
    <3>3. SureIn(cal, f, c.at, over) = SureIn(cal, f, c.at, midnight) + SureIn(cal, f, midnight, over)
      <4>1. c.at \in Int /\ midnight \in Int /\ over \in Int
        BY Zenon, <1>2, <2>1, NatInt
      <4>2. c.at <= midnight /\ midnight <= over
        BY Zenon, <2>1, <2>7
      <4> QED
        BY Zenon, <4>1, <4>2, SureAddsUp
    <3>4. SureIn(cal, f, c.at, midnight) \in Nat /\ SureIn(cal, f, c.at, midnight) <= OpenMinutes(cal, c.at, midnight)
      BY Zenon, <1>2, <2>1, NatInt, SureIsFinite
    <3> HIDE DEF midnight, over, d
    <3> QED
      BY <1>2, <1>12, <2>7, <2>8, <3>2, <3>3, <3>4
  <2> QED
    BY Zenon, <1>14, <1>18, <2>5, <2>6, <2>7, <2>9, <2>10
<1> QED
  <2>1. d.at < midnight \/ d.at = midnight
    <3> HIDE DEF d, midnight
    <3> QED
      BY <1>4, <1>11, <1>12
  <2> QED
    BY Zenon, <1>15, <1>16, <1>18, <2>1
-----------------------------------------------------------------------------
(* Add is the walk over the days, and where it ends.                       *)

(* After m days: what was spent were open minutes, and all those surely    *)
(* looked at; unless the last was found the clock is at a later day, at    *)
(* the mth when none closes at midnight.                                   *)
AfterDays(cal, from, minutes, m, c) ==
    /\ c \in Clock /\ from <= c.at
    /\ SureIn(cal, from, from, c.at) + c.left <= minutes
    /\ minutes <= OpenMinutes(cal, from, c.at) + c.left
    /\ c.left # 0 => DayOf(c.at) >= DayOf(from) + m
    /\ c.left = 0 => IsOpen(cal, c.at - 1)
    /\ ShutsBeforeMidnight(cal) =>
         /\ c.left # 0 => DayOf(c.at) = DayOf(from) + m
         /\ c.left = 0 => c.at <= Midnight(DayOf(from) + m)

DayByDay(cal, from, minutes, h) ==
    /\ h[0] = [at |-> from, left |-> minutes]
    /\ \A m \in 1..MaxDays : h[m] = SpendDay(h[m - 1], cal)
    /\ Add(cal, from, minutes) = IF h[MaxDays].left = 0 THEN h[MaxDays].at ELSE from + minutes

LEMMA AddWalk ==
  ASSUME NEW cal, IsCalendar(cal), Orderly(cal), ~AlwaysOpen(cal), NEW from \in Nat, NEW minutes \in Nat \ {0}
  PROVE  \E h : DayByDay(cal, from, minutes, h)
<1> DEFINE base == [at |-> from, left |-> minutes]
           F == [step \in Clock \X (1..MaxDays) |-> SpendDay(step[1], cal)]
           Solves(g) == g = [n \in 0..MaxDays |-> IF n = 0 THEN base ELSE SpendDay(g[n - 1], cal)]
           clock == CHOOSE g : Solves(g)
<1>1. MaxDays \in Nat
  BY Zenon, DaysAre
<1>2. base \in Clock
  BY DEF Clock
<1>3. \A c \in Clock : SpendDay(c, cal) \in Clock
  BY Zenon, NothingLeft, SpendingADay DEF DaySpent
<1> HIDE DEF base
<1>4. F \in [Clock \X (1..MaxDays) -> Clock] /\ \A c \in Clock, m \in 1..MaxDays : F[<<c, m>>] = SpendDay(c, cal)
  BY <1>3
<1> HIDE DEF F
<1>5. PICK h : h \in [0..MaxDays -> Clock] /\ h[0] = base /\ \A m \in 1..MaxDays : h[m] = F[<<h[m - 1], m>>]
  <2>1. \E h : IsWalk(h, Clock, base, MaxDays, F)
    BY Zenon, <1>1, <1>2, <1>4, WalkExists
  <2> QED
    BY Zenon, <2>1 DEF IsWalk
<1>6. ASSUME NEW m \in 1..MaxDays
      PROVE  h[m] = SpendDay(h[m - 1], cal)
  <2>1. m - 1 \in 0..MaxDays
    BY <1>1
  <2> QED
    BY Zenon, <1>4, <1>5, <2>1
<1>7. Solves(h)
  <2>1. \A n \in 0..MaxDays : n = 0 \/ n \in 1..MaxDays
    BY <1>1
  <2>2. \A n \in 0..MaxDays : h[n] = IF n = 0 THEN base ELSE SpendDay(h[n - 1], cal)
    BY Zenon, <1>5, <1>6, <2>1
  <2> QED
    BY Zenon, <1>5, <2>2
<1>8. Solves(clock)
  BY Zenon, <1>7
<1>9. Add(cal, from, minutes) = IF clock[MaxDays].left = 0 THEN clock[MaxDays].at ELSE from + minutes
  <2>1. ~(minutes <= 0)
    OBVIOUS
  <2>2. Add(cal, from, minutes) =
          IF AlwaysOpen(cal) THEN from + minutes
          ELSE IF minutes <= 0 THEN from
          ELSE IF clock[MaxDays].left = 0 THEN clock[MaxDays].at
          ELSE from + minutes
    BY Zenon DEF Add, base
  <2> QED
    BY Zenon, <2>1, <2>2
<1> HIDE DEF clock
<1>10. clock[0] = base /\ \A m \in 1..MaxDays : clock[m] = SpendDay(clock[m - 1], cal)
  <2>1. 0 \in 0..MaxDays /\ \A m \in 1..MaxDays : m \in 0..MaxDays /\ m # 0
    BY <1>1
  <2> QED
    BY Zenon, <1>8, <2>1
<1> QED
  BY Zenon, <1>9, <1>10 DEF base, DayByDay

LEMMA NoMinutes == \A cal, t : t \in Nat => OpenMinutes(cal, t, t) = 0
<1> SUFFICES ASSUME NEW cal, NEW t \in Nat
             PROVE  OpenMinutes(cal, t, t) = 0
  OBVIOUS
<1>1. t \in Int /\ \A i \in t..(t - 1) : ~IsOpen(cal, i)
  OBVIOUS
<1> QED
  BY Zenon, <1>1, NoneIsOpen

LEMMA DaysAscend ==
  /\ \A a, b \in Nat : a <= b => Midnight(a) <= Midnight(b)
  /\ \A day \in Nat : DayOf(Midnight(day)) = day
<1>1. DayLength \in Nat \ {0}
  BY Zenon, DaysAre
<1>2. \A a, b \in Nat : a <= b => a * DayLength <= b * DayLength
  BY <1>1
<1>3. ASSUME NEW day \in Nat
      PROVE  DayOf(Midnight(day)) = day
  <2> DEFINE m == Midnight(day)
  <2>1. m \in Nat /\ Midnight(day + 1) = m + DayLength
    BY Zenon, DaysAre
  <2> HIDE DEF m
  <2>2. m \in m..((m + DayLength) - 1)
    BY <1>1, <2>1
  <2>3. m \in Midnight(day)..(Midnight(day + 1) - 1)
    BY Zenon, <2>1, <2>2 DEF m
  <2>4. DayOf(m) = day
    BY Zenon, <2>3, MinutesOfDay
  <2> QED
    BY Zenon, <2>4 DEF m
<1> QED
  BY Zenon, <1>2, <1>3 DEF Midnight

LEMMA DayAfter ==
  ASSUME NEW cal, IsCalendar(cal), Orderly(cal), ~AlwaysOpen(cal), NEW from \in Nat, NEW minutes \in Nat,
         NEW m \in Nat, NEW c, AfterDays(cal, from, minutes, m, c)
  PROVE  AfterDays(cal, from, minutes, m + 1, SpendDay(c, cal))
<1> DEFINE first == DayOf(from)
<1>1. /\ c \in Clock /\ from <= c.at
      /\ SureIn(cal, from, from, c.at) + c.left <= minutes
      /\ minutes <= OpenMinutes(cal, from, c.at) + c.left
  BY Zenon DEF AfterDays
<1>2. c.at \in Nat /\ c.left \in Nat
  BY <1>1 DEF Clock
<1>3. first \in Nat /\ DayOf(c.at) \in Nat
  BY Zenon, <1>2, DayOfMinute
<1> PICK e : e = SpendDay(c, cal)
  BY Zenon
<1>4. AfterDays(cal, from, minutes, m + 1, e) <=>
        /\ e \in Clock /\ from <= e.at
        /\ SureIn(cal, from, from, e.at) + e.left <= minutes
        /\ minutes <= OpenMinutes(cal, from, e.at) + e.left
        /\ e.left # 0 => DayOf(e.at) >= first + (m + 1)
        /\ e.left = 0 => IsOpen(cal, e.at - 1)
        /\ ShutsBeforeMidnight(cal) =>
             /\ e.left # 0 => DayOf(e.at) = first + (m + 1)
             /\ e.left = 0 => e.at <= Midnight(first + (m + 1))
  BY Zenon DEF AfterDays
<1>5. /\ first + m \in Nat /\ (first + m) + 1 = first + (m + 1) /\ first + (m + 1) \in Nat
      /\ first + m <= first + (m + 1) /\ first <= first + m
  <2> HIDE DEF first
  <2> QED
    BY <1>3
<1>6. ASSUME c.left = 0
      PROVE  AfterDays(cal, from, minutes, m + 1, e)
  <2>1. e = c
    BY Zenon, <1>1, <1>6, NothingLeft
  <2>2. IsOpen(cal, c.at - 1)
    BY Zenon, <1>6 DEF AfterDays
  <2>3. ShutsBeforeMidnight(cal) => c.at <= Midnight(first + (m + 1))
    <3>1. ShutsBeforeMidnight(cal) => c.at <= Midnight(first + m)
      BY Zenon, <1>6 DEF AfterDays
    <3>2. Midnight(first + m) <= Midnight(first + (m + 1)) /\ Midnight(first + m) \in Nat /\ Midnight(first + (m + 1)) \in Nat
      BY Zenon, <1>5, DaysAscend, DaysAre
    <3> DEFINE a == Midnight(first + m)
               b == Midnight(first + (m + 1))
    <3> HIDE DEF a, b
    <3>3. a <= b /\ a \in Nat /\ b \in Nat
      BY Zenon, <3>2 DEF a, b
    <3>4. c.at <= a => c.at <= b
      BY <1>2, <3>3
    <3> QED
      BY Zenon, <3>1, <3>4 DEF a, b
  <2> QED
    BY Zenon, <1>1, <1>4, <1>6, <2>1, <2>2, <2>3
<1>7. ASSUME c.left # 0
      PROVE  AfterDays(cal, from, minutes, m + 1, e)
  <2> DEFINE day == DayOf(c.at)
             next == Midnight(day + 1)
             over == Midnight((day + 1) + 1)
  <2>1. day >= first + m /\ (ShutsBeforeMidnight(cal) => day = first + m)
    BY Zenon, <1>7 DEF AfterDays
  <2>0. /\ day + 1 \in Nat /\ (day + 1) + 1 \in Nat /\ first <= day
        /\ day + 1 >= first + (m + 1) /\ (day + 1) + 1 >= first + (m + 1)
        /\ day = first + m => day + 1 = first + (m + 1)
    <3> HIDE DEF first, day
    <3>1. day \in Nat /\ first \in Nat
      BY <1>3 DEF day
    <3> QED
      BY <2>1, <3>1
  <2>2. DaySpent(cal, c, e)
    BY Zenon, <1>1, <1>7, SpendingADay
  <2>3. /\ e \in Clock /\ c.at <= e.at
        /\ OpenMinutes(cal, c.at, e.at) + e.left >= c.left
        /\ SureIn(cal, from, c.at, e.at) + e.left <= c.left
        /\ e.left # 0 => e.at = next \/ (e.at = over /\ ClosesAtMidnight(cal, day))
        /\ e.left = 0 => e.at <= next /\ IsOpen(cal, e.at - 1)
    BY Zenon, <2>0, <2>2 DEF DaySpent
  <2>4. e.at \in Nat /\ e.left \in Nat
    BY <2>3 DEF Clock
  <2>5. e.left # 0 => DayOf(e.at) >= first + (m + 1)
    BY Zenon, <2>0, <2>3, DaysAscend
  <2>6. ASSUME ShutsBeforeMidnight(cal)
        PROVE  /\ e.left # 0 => DayOf(e.at) = first + (m + 1)
               /\ e.left = 0 => e.at <= Midnight(first + (m + 1))
    <3>1. day + 1 = first + (m + 1) /\ ~ClosesAtMidnight(cal, day)
      BY Zenon, <1>3, <2>0, <2>1, <2>6, ShutsEveryDay
    <3> QED
      BY Zenon, <1>5, <2>3, <3>1, DaysAscend
  <2>7. /\ OpenMinutes(cal, from, e.at) = OpenMinutes(cal, from, c.at) + OpenMinutes(cal, c.at, e.at)
        /\ SureIn(cal, from, from, e.at) = SureIn(cal, from, from, c.at) + SureIn(cal, from, c.at, e.at)
    <3>1. from \in Int /\ c.at \in Int /\ e.at \in Int /\ from <= c.at /\ c.at <= e.at
      BY Zenon, <1>1, <1>2, <2>3, <2>4, NatInt
    <3>2. OpenMinutes(cal, from, e.at) = OpenMinutes(cal, from, c.at) + OpenMinutes(cal, c.at, e.at)
      BY Zenon, <3>1, OpenAddsUp
    <3>3. \A f : SureIn(cal, f, from, e.at) = SureIn(cal, f, from, c.at) + SureIn(cal, f, c.at, e.at)
      BY <3>1, SureAddsUp
    <3> QED
      BY Zenon, <3>2, <3>3
  <2>8. /\ OpenMinutes(cal, from, c.at) \in Nat /\ OpenMinutes(cal, c.at, e.at) \in Nat
        /\ SureIn(cal, from, from, c.at) \in Nat /\ SureIn(cal, from, c.at, e.at) \in Nat
    BY Zenon, <1>2, <2>4, NatInt, OpenIsFinite, SureIsFinite
  <2> HIDE DEF next, over, first, day
  <2>9. /\ from <= e.at /\ SureIn(cal, from, from, e.at) + e.left <= minutes
        /\ minutes <= OpenMinutes(cal, from, e.at) + e.left
    BY <1>1, <1>2, <2>3, <2>4, <2>7, <2>8
  <2> QED
    BY Zenon, <1>4, <2>3, <2>5, <2>6, <2>9
<1> QED
  BY Zenon, <1>6, <1>7

LEMMA LooksAhead ==
  ASSUME NEW from \in Nat
  PROVE  Midnight(DayOf(from) + MaxDays) \in Nat /\ from <= Midnight(DayOf(from) + MaxDays)
<1> DEFINE day == DayOf(from)
           last == Midnight(day + MaxDays)
<1>1. day \in Nat /\ from \in Midnight(day)..(Midnight(day + 1) - 1) /\ MaxDays \in Nat \ {0}
  BY Zenon, DayOfMinute, DaysAre
<1>2. day + MaxDays \in Nat /\ day + 1 \in Nat /\ day + 1 <= day + MaxDays
  <2> HIDE DEF day
  <2> QED
    BY <1>1
<1>3. last \in Nat /\ Midnight(day + 1) \in Nat /\ Midnight(day) \in Nat
  BY Zenon, <1>1, <1>2, DaysAre
<1>4. Midnight(day + 1) <= last
  <2>1. DayLength \in Nat
    BY Zenon, DaysAre
  <2>2. \A a, b \in Nat : a <= b => a * DayLength <= b * DayLength
    BY <2>1
  <2> HIDE DEF day
  <2> QED
    BY <1>2, <2>2 DEF Midnight
<1> HIDE DEF last
<1>5. from <= last
  <2> HIDE DEF day
  <2> QED
    BY <1>1, <1>3, <1>4
<1> QED
  BY Zenon, <1>3, <1>5 DEF last

LEMMA AddNothing ==
  ASSUME NEW cal, NEW from \in Nat
  PROVE  Arrives(cal, from, 0, from)
<1>1. Midnight(DayOf(from) + MaxDays) \in Nat
  BY Zenon, LooksAhead
<1>2. SureMinutes(cal, from, Midnight(DayOf(from) + MaxDays)) \in Nat
  BY Zenon, <1>1, NatInt, SureAre, SureIsFinite
<1>3. ~(0 < 0) /\ ~(0 > 0) /\ 0 <= SureMinutes(cal, from, Midnight(DayOf(from) + MaxDays)) /\ 0 <= 0 /\ from <= from
  BY <1>2
<1>4. OpenMinutes(cal, from, from) = 0
  BY Zenon, NoMinutes
<1>5. SureMinutes(cal, from, from) <= 0
  BY Zenon, <1>4, NatInt, SureAre, SureIsFinite
<1> QED
  BY Zenon, <1>3, <1>4, <1>5 DEF Arrives, Reaches

LEMMA AddAlways ==
  ASSUME NEW cal, AlwaysOpen(cal), NEW from \in Nat, NEW minutes \in Nat
  PROVE  Arrives(cal, from, minutes, from + minutes) /\ OpenMinutes(cal, from, from + minutes) = minutes
<1> DEFINE to == from + minutes
<1>1. /\ to \in Nat /\ from <= to /\ to - from = minutes /\ (minutes > 0 => to - 1 \in from..(to - 1)) /\ ~(minutes < 0)
      /\ minutes <= minutes
  OBVIOUS
<1> HIDE DEF to
<1>2. \A t \in from..(to - 1) : IsOpen(cal, t)
  BY Zenon DEF IsOpen
<1>3. OpenMinutes(cal, from, to) = minutes
  BY Zenon, <1>1, <1>2, NatInt, AllIsOpen
<1>4. SureMinutes(cal, from, to) <= minutes
  BY Zenon, <1>1, <1>3, NatInt, SureAre, SureIsFinite
<1>5. Reaches(cal, from, to, minutes)
  BY Zenon, <1>1, <1>2, <1>3, <1>4 DEF Reaches
<1> QED
  BY Zenon, <1>1, <1>3, <1>5 DEF Arrives, to

LEMMA AddSearches ==
  ASSUME NEW cal, IsCalendar(cal), Orderly(cal), ~AlwaysOpen(cal), NEW from \in Nat, NEW minutes \in Nat \ {0}
  PROVE  Arrives(cal, from, minutes, Add(cal, from, minutes)) /\ Add(cal, from, minutes) \in Nat
<1> DEFINE first == DayOf(from)
           horizon == Midnight(first + MaxDays)
           sure == SureMinutes(cal, from, horizon)
<1>0. from + minutes \in Nat
  OBVIOUS
<1> PICK to : to = Add(cal, from, minutes)
  BY Zenon
<1>1. MaxDays \in Nat \ {0} /\ first \in Nat /\ first + MaxDays \in Nat /\ horizon \in Nat /\ from <= horizon
  <2>1. MaxDays \in Nat \ {0} /\ first \in Nat
    BY Zenon, DayOfMinute, DaysAre
  <2>2. first + MaxDays \in Nat
    <3> HIDE DEF first
    <3> QED
      BY <2>1
  <2> QED
    BY Zenon, <2>1, <2>2, DaysAre, LooksAhead
<1>2. PICK h : /\ h[0] = [at |-> from, left |-> minutes]
               /\ \A m \in 1..MaxDays : h[m] = SpendDay(h[m - 1], cal)
               /\ to = IF h[MaxDays].left = 0 THEN h[MaxDays].at ELSE from + minutes
  <2>1. \E h : DayByDay(cal, from, minutes, h)
    BY Zenon, AddWalk
  <2> QED
    BY Zenon, <2>1 DEF DayByDay
<1> DEFINE Fine == {m \in 0..MaxDays : AfterDays(cal, from, minutes, m, h[m])}
<1>3. 0 \in Fine
  <2> DEFINE c == [at |-> from, left |-> minutes]
  <2>1. c \in Clock /\ c.at = from /\ c.left = minutes
    BY DEF Clock
  <2> HIDE DEF c
  <2>2. OpenMinutes(cal, from, from) = 0 /\ SureIn(cal, from, from, from) = 0
    <3>1. OpenMinutes(cal, from, from) = 0
      BY Zenon, NoMinutes
    <3>2. SureIn(cal, from, from, from) \in Nat /\ SureIn(cal, from, from, from) <= 0
      BY Zenon, <3>1, NatInt, SureIsFinite
    <3> QED
      BY <3>1, <3>2
  <2>3. /\ from <= from /\ 0 + minutes = minutes /\ first + 0 = first /\ minutes # 0 /\ 0 \in 0..MaxDays
        /\ minutes <= minutes /\ first >= first
    <3> HIDE DEF first
    <3> QED
      BY <1>1
  <2>4. AfterDays(cal, from, minutes, 0, c)
    BY Zenon, <2>1, <2>2, <2>3 DEF AfterDays
  <2> QED
    BY Zenon, <1>2, <2>3, <2>4 DEF c
<1>4. ASSUME NEW m \in 1..MaxDays, m - 1 \in Fine
      PROVE  m \in Fine
  <2>1. m - 1 \in Nat /\ (m - 1) + 1 = m /\ m \in 0..MaxDays
    BY <1>1
  <2>2. AfterDays(cal, from, minutes, m - 1, h[m - 1])
    BY Zenon, <1>4
  <2>3. minutes \in Nat
    OBVIOUS
  <2>4. AfterDays(cal, from, minutes, (m - 1) + 1, SpendDay(h[m - 1], cal))
    BY Zenon, <2>1, <2>2, <2>3, DayAfter
  <2> QED
    BY Zenon, <1>2, <2>1, <2>4
<1>5. Fine \in SUBSET (0..MaxDays)
  OBVIOUS
<1> HIDE DEF Fine
<1> PICK c : c = h[MaxDays]
  BY Zenon
<1>6. AfterDays(cal, from, minutes, MaxDays, c)
  <2>1. MaxDays \in 0..MaxDays /\ MaxDays \in Nat
    BY <1>1
  <2>2. MaxDays \in Fine
    BY Zenon, <1>3, <1>4, <1>5, <2>1, WalkKeeps
  <2> QED
    BY Zenon, <2>2 DEF Fine
<1>7. /\ c \in Clock /\ from <= c.at
      /\ SureIn(cal, from, from, c.at) + c.left <= minutes
      /\ minutes <= OpenMinutes(cal, from, c.at) + c.left
      /\ c.left # 0 => DayOf(c.at) >= first + MaxDays
      /\ c.left = 0 => IsOpen(cal, c.at - 1)
      /\ ShutsBeforeMidnight(cal) /\ c.left = 0 => c.at <= horizon
  BY Zenon, <1>6 DEF AfterDays
<1>8. to = IF c.left = 0 THEN c.at ELSE from + minutes
  BY Zenon, <1>2
<1>9. Arrives(cal, from, minutes, to) <=>
        IF minutes < 0 THEN to \in {from, from + minutes}
        ELSE IF minutes <= sure THEN Reaches(cal, from, to, minutes)
        ELSE to = from + minutes \/ (~ShutsBeforeMidnight(cal) /\ Reaches(cal, from, to, minutes))
  BY Zenon DEF Arrives
<1>10. c.at \in Nat /\ c.left \in Nat /\ ~(minutes < 0) /\ to \in Nat
  <2>1. c.at \in Nat /\ c.left \in Nat /\ ~(minutes < 0)
    BY <1>7 DEF Clock
  <2> QED
    BY Zenon, <1>0, <1>8, <2>1
<1>11. sure = SureIn(cal, from, from, horizon)
  BY Zenon, SureAre
<1> HIDE DEF horizon, sure, first
<1>12. /\ SureIn(cal, from, from, c.at) \in Nat /\ SureIn(cal, from, from, horizon) \in Nat
       /\ OpenMinutes(cal, from, c.at) \in Nat /\ OpenMinutes(cal, from, horizon) \in Nat
       /\ SureIn(cal, from, horizon, c.at) \in Nat /\ OpenMinutes(cal, c.at, horizon) \in Nat
  BY Zenon, <1>1, <1>10, NatInt, OpenIsFinite, SureIsFinite
<1>13. ASSUME c.left = 0
       PROVE  Arrives(cal, from, minutes, to)
  <2>1. SureIn(cal, from, from, to) <= minutes /\ minutes <= OpenMinutes(cal, from, to)
    <3>1. SureIn(cal, from, from, c.at) <= minutes /\ minutes <= OpenMinutes(cal, from, c.at)
      BY <1>7, <1>12, <1>13
    <3> QED
      BY Zenon, <1>8, <1>13, <3>1
  <2>2. Reaches(cal, from, to, minutes)
    BY Zenon, <1>7, <1>8, <1>13, <2>1, SureAre DEF Reaches
  <2>3. ASSUME ShutsBeforeMidnight(cal)
        PROVE  minutes <= sure
    <3>1. c.at <= horizon
      BY Zenon, <1>7, <1>13, <2>3
    <3>2. sure = OpenMinutes(cal, from, horizon)
      BY Zenon, <1>1, <2>3, NatInt, AllIsSure DEF sure
    <3>3. OpenMinutes(cal, from, horizon) = OpenMinutes(cal, from, c.at) + OpenMinutes(cal, c.at, horizon)
      <4>1. from \in Int /\ c.at \in Int /\ horizon \in Int
        BY Zenon, <1>1, <1>10, NatInt
      <4>2. from <= c.at /\ c.at <= horizon
        BY Zenon, <1>7, <3>1
      <4> QED
        BY Zenon, <4>1, <4>2, OpenAddsUp
    <3> QED
      BY <1>7, <1>10, <1>12, <1>13, <3>2, <3>3
  <2> QED
    BY Zenon, <1>9, <1>10, <2>2, <2>3
<1>14. ASSUME c.left # 0
       PROVE  Arrives(cal, from, minutes, to)
  <2>1. horizon <= c.at
    <3> DEFINE day == DayOf(c.at)
    <3>1. day \in Nat /\ c.at \in Midnight(day)..(Midnight(day + 1) - 1) /\ Midnight(day) \in Nat
      BY Zenon, <1>10, DayOfMinute, DaysAre
    <3>2. first + MaxDays <= day
      <4>1. day >= first + MaxDays
        BY Zenon, <1>7, <1>14
      <4> HIDE DEF day
      <4> QED
        BY <1>1, <3>1, <4>1
    <3>3. horizon <= Midnight(day)
      BY Zenon, <1>1, <3>1, <3>2, DaysAscend DEF horizon
    <3> HIDE DEF day
    <3> QED
      BY <1>1, <1>10, <3>1, <3>3
  <2>2. SureIn(cal, from, from, c.at) = SureIn(cal, from, from, horizon) + SureIn(cal, from, horizon, c.at)
    <3>1. from \in Int /\ c.at \in Int /\ horizon \in Int
      BY Zenon, <1>1, <1>10, NatInt
    <3>2. from <= horizon /\ horizon <= c.at
      BY Zenon, <1>1, <2>1
    <3> QED
      BY <3>1, <3>2, SureAddsUp
  <2>3. ~(minutes <= sure)
    BY <1>7, <1>10, <1>11, <1>12, <1>14, <2>2
  <2> QED
    BY Zenon, <1>8, <1>9, <1>10, <1>14, <2>3
<1> QED
  BY Zenon, <1>10, <1>13, <1>14

(* Calendar.Add, for any calendar whose windows are in order, apart and    *)
(* end by midnight, any instant and any number of minutes: it arrives at   *)
(* the end of an open minute, never before the minutes asked for are over  *)
(* and later only by whole days passed over, each after one that closes at *)
(* midnight, as Add (calendar.go:143-149) does: without such a day, after  *)
(* exactly the minutes asked for.  When the days looked at do not have     *)
(* that many it is after the minutes themselves; a number below zero is    *)
(* not put off.                                                            *)
THEOREM AddArrives ==
  \A cal, from, minutes :
     IsCalendar(cal) /\ Orderly(cal) /\ from \in Nat /\ minutes \in Int =>
        Arrives(cal, from, minutes, Add(cal, from, minutes))
<1> SUFFICES ASSUME NEW cal, NEW from \in Nat, NEW minutes \in Int, IsCalendar(cal), Orderly(cal)
             PROVE  Arrives(cal, from, minutes, Add(cal, from, minutes))
  BY Zenon
<1> DEFINE to == Add(cal, from, minutes)
<1>1. /\ AlwaysOpen(cal) => to = from + minutes
      /\ ~AlwaysOpen(cal) /\ minutes <= 0 => to = from
  BY Zenon DEF Add
<1>2. CASE minutes < 0
  <2>1. minutes <= 0
    BY <1>2
  <2> QED
    BY Zenon, <1>1, <1>2, <2>1 DEF Arrives
<1>3. CASE ~(minutes < 0) /\ AlwaysOpen(cal)
  <2>1. minutes \in Nat
    BY <1>3
  <2> QED
    BY Zenon, <1>1, <1>3, <2>1, AddAlways
<1>4. CASE ~AlwaysOpen(cal) /\ minutes = 0
  <2>1. minutes <= 0
    BY <1>4
  <2> QED
    BY Zenon, <1>1, <1>4, <2>1, AddNothing
<1>5. CASE ~AlwaysOpen(cal) /\ minutes \in Nat \ {0}
  BY Zenon, <1>5, AddSearches
<1> QED
  <2>1. minutes < 0 \/ minutes = 0 \/ (~(minutes < 0) /\ minutes \in Nat \ {0})
    OBVIOUS
  <2>2. minutes = 0 => ~(minutes < 0)
    OBVIOUS
  <2> QED
    BY Zenon, <1>2, <1>3, <1>4, <1>5, <2>1, <2>2
-----------------------------------------------------------------------------
(* Between counts the open minutes, window after window and day after day. *)

(* An instant, moved between lo and hi.                                    *)
Upto(lo, hi, at) == Later(lo, Earlier(hi, at))

LEMMA Clipped ==
  ASSUME NEW lo \in Nat, NEW hi \in Nat, lo <= hi, NEW a \in Nat, NEW b \in Nat, a <= b
  PROVE  /\ Upto(lo, hi, a) \in Nat /\ Upto(lo, hi, b) \in Nat
         /\ lo <= Upto(lo, hi, a) /\ Upto(lo, hi, a) <= Upto(lo, hi, b) /\ Upto(lo, hi, b) <= hi
         /\ Later(0, Earlier(hi, b) - Later(lo, a)) = Upto(lo, hi, b) - Upto(lo, hi, a)
BY DEF Upto, Later, Earlier

LEMMA BeforeAnInstant ==
  ASSUME NEW lo \in Nat, NEW hi \in Nat, NEW a \in Nat, NEW t \in Int, lo <= t
  PROVE  /\ t < Upto(lo, hi, a) => t < hi /\ t < a
         /\ Upto(lo, hi, a) <= t /\ t < hi => a <= t
BY DEF Upto, Later, Earlier

Opens(cal, day, i) == Midnight(day) + WindowsOn(cal, day)[i].start

Closes(cal, day, i) == Midnight(day) + WindowsOn(cal, day)[i].end

(* How far the first i windows of its day are counted.                     *)
CountedTo(cal, lo, hi, i) == IF i = 0 THEN lo ELSE Upto(lo, hi, Closes(cal, DayOf(lo), i))

LEMMA WindowsAscend ==
  ASSUME NEW cal, IsCalendar(cal), Orderly(cal), NEW day \in Nat, NEW i \in 1..Len(WindowsOn(cal, day))
  PROVE  /\ Opens(cal, day, i) \in Nat /\ Closes(cal, day, i) \in Nat
         /\ Midnight(day) <= Opens(cal, day, i) /\ Opens(cal, day, i) < Closes(cal, day, i)
         /\ Closes(cal, day, i) <= Midnight(day + 1)
         /\ \A j \in 1..Len(WindowsOn(cal, day)) : i < j => Closes(cal, day, i) <= Opens(cal, day, j)
<1> DEFINE w == WindowsOn(cal, day)[i]
           m == Midnight(day)
<1>1. w.start \in Nat /\ w.end \in Nat /\ w.start < w.end /\ w.end <= DayLength
  BY Zenon, WindowsInOrder
<1>2. m \in Nat /\ DayLength \in Nat /\ Midnight(day + 1) = m + DayLength
  BY Zenon, DaysAre
<1>3. ASSUME NEW j \in 1..Len(WindowsOn(cal, day)), i < j
      PROVE  Closes(cal, day, i) <= Opens(cal, day, j)
  <2> DEFINE s == WindowsOn(cal, day)[j].start
  <2>1. w.end <= s
    BY Zenon, <1>3, WindowsInOrder
  <2>2. s \in Nat
    BY Zenon, WindowsInOrder
  <2>3. Closes(cal, day, i) = m + w.end /\ Opens(cal, day, j) = m + s
    BY Zenon DEF Closes, Opens
  <2> HIDE DEF w, m, s
  <2> QED
    BY <1>1, <1>2, <2>1, <2>2, <2>3
<1>4. Opens(cal, day, i) = m + w.start /\ Closes(cal, day, i) = m + w.end
  BY Zenon DEF Closes, Opens
<1> HIDE DEF w
<1>5. /\ m + w.start \in Nat /\ m + w.end \in Nat /\ m <= m + w.start /\ m + w.start < m + w.end
      /\ m + w.end <= m + DayLength
  <2> HIDE DEF m
  <2> QED
    BY <1>1, <1>2
<1> QED
  BY Zenon, <1>2, <1>3, <1>4, <1>5

(* A window adds to the count what it overlaps the span.                   *)
LEMMA WindowCounts ==
  ASSUME NEW cal, IsCalendar(cal), Orderly(cal), ~AlwaysOpen(cal), NEW lo \in Nat, NEW hi \in Nat, lo <= hi,
         NEW i \in 1..Len(WindowsOn(cal, DayOf(lo)))
  PROVE  /\ CountedTo(cal, lo, hi, i) \in lo..hi
         /\ OpenMinutes(cal, lo, CountedTo(cal, lo, hi, i)) =
               OpenMinutes(cal, lo, CountedTo(cal, lo, hi, i - 1))
                  + Overlap(lo, hi, DayOf(lo), WindowsOn(cal, DayOf(lo))[i])
<1> DEFINE day == DayOf(lo)
           ws == WindowsOn(cal, day)
           L == Len(ws)
           opens == Opens(cal, day, i)
           closes == Closes(cal, day, i)
           before == CountedTo(cal, lo, hi, i - 1)
           start == Upto(lo, hi, opens)
           after == Upto(lo, hi, closes)
<1>1. day \in Nat /\ lo \in Midnight(day)..(Midnight(day + 1) - 1) /\ Midnight(day) \in Nat /\ Midnight(day + 1) \in Nat
  <2>1. day \in Nat /\ lo \in Midnight(day)..(Midnight(day + 1) - 1)
    BY Zenon, DayOfMinute
  <2>2. day + 1 \in Nat
    <3> HIDE DEF day
    <3> QED
      BY <2>1
  <2> QED
    BY Zenon, <2>1, <2>2, DaysAre
<1>2. ws \in Seq(RealWindow)
  BY Zenon, <1>1, WindowsAre
<1>3. L \in Nat
  <2> HIDE DEF ws
  <2> QED
    BY <1>2
<1>0. i \in 1..L
  OBVIOUS
<1>4. /\ opens \in Nat /\ closes \in Nat /\ opens < closes /\ closes <= Midnight(day + 1)
      /\ \A j \in 1..L : i < j => closes <= Opens(cal, day, j)
  BY Zenon, <1>1, WindowsAscend
<1>5. /\ start \in Nat /\ after \in Nat /\ lo <= start /\ start <= after /\ after <= hi
      /\ Later(0, Earlier(hi, closes) - Later(lo, opens)) = after - start
  <2>1. opens <= closes
    <3> HIDE DEF opens, closes
    <3> QED
      BY <1>4
  <2> QED
    BY Zenon, <1>4, <2>1, Clipped
<1>6. CountedTo(cal, lo, hi, i) = after
  <2>1. i # 0
    OBVIOUS
  <2> QED
    BY Zenon, <2>1 DEF CountedTo
<1>7. Overlap(lo, hi, day, ws[i]) = after - start
  <2>1. Overlap(lo, hi, day, ws[i]) = Later(0, Earlier(hi, closes) - Later(lo, opens))
    BY Zenon DEF Overlap, Opens, Closes
  <2> QED
    BY Zenon, <1>5, <2>1
<1>8. before \in Nat /\ lo <= before /\ before <= start
  <2>1. CASE i = 1
    <3>1. i - 1 = 0
      BY <2>1
    <3>2. before = lo
      BY Zenon, <3>1 DEF CountedTo
    <3> HIDE DEF before, start
    <3> QED
      BY <1>5, <3>2
  <2>2. CASE i # 1
    <3>1. i - 1 \in 1..L /\ i - 1 # 0 /\ i - 1 < i
      <4> HIDE DEF L
      <4> QED
          BY <1>0, <1>3, <2>2
    <3>2. before = Upto(lo, hi, Closes(cal, day, i - 1))
      BY Zenon, <3>1 DEF CountedTo
    <3>3. Closes(cal, day, i - 1) \in Nat /\ Closes(cal, day, i - 1) <= opens
      BY Zenon, <1>1, <3>1, WindowsAscend
    <3> DEFINE last == Closes(cal, day, i - 1)
    <3>4. last \in Nat /\ last <= opens
      BY Zenon, <3>3
    <3> HIDE DEF last
    <3>5. Upto(lo, hi, last) \in Nat /\ lo <= Upto(lo, hi, last) /\ Upto(lo, hi, last) <= Upto(lo, hi, opens)
      BY Zenon, <1>4, <3>4, Clipped
    <3>6. before = Upto(lo, hi, last)
      BY Zenon, <3>2 DEF last
    <3> QED
      BY Zenon, <3>5, <3>6
  <2> QED
    BY Zenon, <2>1, <2>2
<1>9. ASSUME NEW t \in before..(start - 1)
      PROVE  ~IsOpen(cal, t)
  <2>1. t \in Int /\ lo <= t /\ before <= t /\ t < start
    <3> HIDE DEF before, start
    <3> QED
      BY <1>5, <1>8
  <2>2. t < hi /\ t < opens
    BY Zenon, <1>4, <2>1, BeforeAnInstant
  <2>3. t \in Midnight(day)..(Midnight(day + 1) - 1)
    <3> HIDE DEF day, opens, closes
    <3> QED
      BY <1>1, <1>4, <2>1, <2>2
  <2>4. ASSUME NEW j \in 1..L
        PROVE  t < Opens(cal, day, j) \/ Closes(cal, day, j) <= t
    <3>1. Opens(cal, day, j) \in Nat /\ Closes(cal, day, j) \in Nat /\ Opens(cal, day, j) < Closes(cal, day, j)
      BY Zenon, <1>1, WindowsAscend
    <3> DEFINE o == Opens(cal, day, j)
               e == Closes(cal, day, j)
    <3>2. CASE i = j
      BY Zenon, <2>2, <3>2
    <3>3. CASE i < j
      <4>1. closes <= o
        BY Zenon, <1>4, <3>3
      <4>2. t < o
        <5> HIDE DEF o, opens, closes
        <5> QED
          BY <1>4, <2>1, <2>2, <3>1, <4>1 DEF o
      <4> QED
        BY Zenon, <4>2
    <3>4. CASE j < i
      <4>1. i - 1 \in 1..L /\ i - 1 # 0 /\ (j = i - 1 \/ j < i - 1)
        <5> HIDE DEF L
        <5> QED
          BY <1>0, <1>3, <3>4
      <4> DEFINE last == Closes(cal, day, i - 1)
      <4>2. last \in Nat /\ Opens(cal, day, i - 1) \in Nat /\ Opens(cal, day, i - 1) < last
        BY Zenon, <1>1, <4>1, WindowsAscend
      <4>3. before = Upto(lo, hi, last)
        BY Zenon, <4>1 DEF CountedTo
      <4>4. last <= t
        <5>1. Upto(lo, hi, last) <= t
          BY Zenon, <2>1, <4>3
        <5> QED
          BY Zenon, <2>1, <2>2, <4>2, <5>1, BeforeAnInstant
      <4>5. j < i - 1 => e <= Opens(cal, day, i - 1)
        BY Zenon, <1>1, <4>1, WindowsAscend
      <4>6. e = last \/ e <= Opens(cal, day, i - 1)
        BY Zenon, <4>1, <4>5
      <4> DEFINE opensLast == Opens(cal, day, i - 1)
      <4>7. e \in Nat /\ opensLast \in Nat /\ opensLast < last /\ (e = last \/ e <= opensLast)
        BY Zenon, <3>1, <4>2, <4>6
      <4> HIDE DEF e, last, opensLast
      <4>8. e <= t
        BY <2>1, <4>2, <4>4, <4>7
      <4> QED
        BY Zenon, <4>8 DEF e
    <3>5. i = j \/ i < j \/ j < i
      <4> HIDE DEF L
      <4> QED
        BY <1>3
    <3> QED
      BY Zenon, <3>2, <3>3, <3>4, <3>5
  <2> QED
    BY Zenon, <1>1, <2>3, <2>4, ClosedBetween DEF Opens, Closes
<1>10. ASSUME NEW t \in start..(after - 1)
       PROVE  IsOpen(cal, t)
  <2>1. t \in Int /\ lo <= t /\ start <= t /\ t < after
    <3> HIDE DEF start, after
    <3> QED
      BY <1>5
  <2>2. t < hi /\ t < closes
    BY Zenon, <1>4, <2>1, BeforeAnInstant
  <2>3. opens <= t
    BY Zenon, <1>4, <2>1, <2>2, BeforeAnInstant
  <2>4. t \in opens..(closes - 1)
    <3> HIDE DEF opens, closes
    <3> QED
      BY <1>4, <2>1, <2>2, <2>3
  <2>5. t \in (Midnight(day) + ws[i].start)..((Midnight(day) + ws[i].end) - 1)
    BY Zenon, <2>4 DEF Opens, Closes
  <2> QED
    BY Zenon, <1>1, <2>5, OpenInWindow
<1>11. OpenMinutes(cal, before, start) = 0 /\ OpenMinutes(cal, start, after) = after - start
  <2>1. before \in Int /\ start \in Int /\ after \in Int
    BY Zenon, <1>5, <1>8, NatInt
  <2>2. OpenMinutes(cal, before, start) = 0
    BY Zenon, <1>9, <2>1, NoneIsOpen
  <2> QED
    BY Zenon, <1>5, <1>10, <2>1, <2>2, AllIsOpen
<1>12. /\ OpenMinutes(cal, lo, start) = OpenMinutes(cal, lo, before) + OpenMinutes(cal, before, start)
       /\ OpenMinutes(cal, lo, after) = OpenMinutes(cal, lo, start) + OpenMinutes(cal, start, after)
       /\ OpenMinutes(cal, lo, before) \in Nat
  <2>1. lo \in Int /\ before \in Int /\ start \in Int /\ after \in Int
    BY Zenon, <1>5, <1>8, NatInt
  <2> QED
    BY Zenon, <1>5, <1>8, <2>1, OpenAddsUp, OpenIsFinite
<1> HIDE DEF before, start, after
<1>13. OpenMinutes(cal, lo, after) = OpenMinutes(cal, lo, before) + (after - start)
  BY <1>5, <1>11, <1>12
<1>14. after \in lo..hi
  BY <1>5
<1> QED
  BY Zenon, <1>6, <1>7, <1>13, <1>14 DEF before

Counting(cal, lo, hi, h) ==
    /\ h[0] = 0
    /\ \A i \in 1..Len(WindowsOn(cal, DayOf(lo))) :
          h[i] = h[i - 1] + Overlap(lo, hi, DayOf(lo), WindowsOn(cal, DayOf(lo))[i])
    /\ CountDay(lo, hi, cal) = h[Len(WindowsOn(cal, DayOf(lo)))]

LEMMA CountWalk ==
  ASSUME NEW cal, IsCalendar(cal), Orderly(cal), ~AlwaysOpen(cal), NEW lo \in Nat, NEW hi \in Nat, lo <= hi
  PROVE  \E h : Counting(cal, lo, hi, h)
<1> DEFINE day == DayOf(lo)
           ws == WindowsOn(cal, day)
           L == Len(ws)
           F == [step \in Int \X (1..L) |-> step[1] + Overlap(lo, hi, day, ws[step[2]])]
           Solves(g) == g = [s \in SUBSET DOMAIN ws |->
                               IF s = {} THEN 0 ELSE g[s \ {Max(s)}] + Overlap(lo, hi, day, ws[Max(s)])]
           iter == CHOOSE g : Solves(g)
<1>1. day \in Nat
  BY Zenon, DayOfMinute
<1>2. ws \in Seq(RealWindow)
  BY Zenon, <1>1, WindowsAre
<1>3. L \in Nat /\ DOMAIN ws = 1..L
  <2> HIDE DEF ws
  <2> QED
    BY <1>2
<1>4. \A i \in 1..L : Overlap(lo, hi, day, ws[i]) \in Int
  <2> SUFFICES ASSUME NEW i \in 1..L
               PROVE  Overlap(lo, hi, day, ws[i]) \in Int
    OBVIOUS
  <2> DEFINE w == ws[i]
             opens == Midnight(day) + w.start
             closes == Midnight(day) + w.end
  <2>1. w.start \in Nat /\ w.end \in Nat /\ Midnight(day) \in Nat
    BY Zenon, <1>1, DaysAre, WindowsInOrder
  <2>2. opens \in Nat /\ closes \in Nat
    <3> HIDE DEF w, day
    <3> QED
      BY <2>1
  <2>3. Overlap(lo, hi, day, w) = Later(0, Earlier(hi, closes) - Later(lo, opens))
    BY Zenon DEF Overlap
  <2> HIDE DEF opens, closes, w
  <2>4. Later(0, Earlier(hi, closes) - Later(lo, opens)) \in Int
    BY <2>2 DEF Later, Earlier
  <2> QED
    BY Zenon, <2>3, <2>4 DEF w
<1> DEFINE o == [i \in 1..L |-> Overlap(lo, hi, day, ws[i])]
<1>5. \A i \in 1..L : o[i] \in Int /\ o[i] = Overlap(lo, hi, day, ws[i])
  BY Zenon, <1>4
<1>6. F = [step \in Int \X (1..L) |-> step[1] + o[step[2]]]
  <2> HIDE DEF L
  <2> QED
    BY <1>5
<1>7. /\ F \in [Int \X (1..L) -> Int]
      /\ \A n \in Int, i \in 1..L : F[<<n, i>>] = n + o[i]
  <2> HIDE DEF F, L, o
  <2> QED
    BY <1>3, <1>5, <1>6
<1> HIDE DEF F, o
<1>8. \E g : Solves(g)
  <2>1. 0 \in Int
    OBVIOUS
  <2>2. PICK g : IsFold(g, Int, 0, L, F)
    BY Zenon, <1>3, <1>7, <2>1, FoldExists
  <2>3. ASSUME NEW s \in SUBSET (1..L), s # {}
        PROVE  F[<<g[s \ {Max(s)}], Max(s)>>] = g[s \ {Max(s)}] + Overlap(lo, hi, day, ws[Max(s)])
    <3>1. Max(s) \in 1..L
      BY Zenon, <1>3, <2>3, MaxIsIn
    <3>2. g[s \ {Max(s)}] \in Int
      BY Zenon, <2>2 DEF IsFold
    <3> QED
      BY Zenon, <1>5, <1>7, <3>1, <3>2
  <2>4. Solves(g)
    BY Zenon, <1>3, <2>2, <2>3 DEF IsFold
  <2> QED
    BY Zenon, <2>4
<1>9. Solves(iter)
  BY Zenon, <1>8
<1>10. CountDay(lo, hi, cal) = iter[DOMAIN ws]
  BY Zenon DEF CountDay, FoldLeft, MapThenFoldSet
<1> DEFINE h == [i \in 0..L |-> iter[1..i]]
<1> HIDE DEF iter, L, ws, day
<1>11. h[0] = 0
  <2>1. 1..0 = {} /\ 0 \in 0..L
    BY <1>3
  <2> QED
    BY <1>9, <2>1
<1>12. ASSUME NEW i \in 1..L
       PROVE  h[i] = h[i - 1] + Overlap(lo, hi, day, ws[i])
  <2>1. Max(1..i) = i /\ (1..i) \ {Max(1..i)} = 1..(i - 1) /\ 1..i # {}
    BY MaxUpTo
  <2>2. 1..i \in SUBSET DOMAIN ws /\ i \in 0..L /\ i - 1 \in 0..L
    BY <1>3
  <2> QED
    BY Zenon, <1>9, <2>1, <2>2
<1>13. h[L] = CountDay(lo, hi, cal)
  BY <1>3, <1>10
<1> HIDE DEF h
<1> QED
  BY Zenon, <1>11, <1>12, <1>13 DEF Counting, L, ws, day

(* A day's count is the open minutes of what it holds of the span.         *)
LEMMA DayCounts ==
  ASSUME NEW cal, IsCalendar(cal), Orderly(cal), ~AlwaysOpen(cal), NEW lo \in Nat, NEW hi \in Nat, lo < hi
  PROVE  CountDay(lo, hi, cal) = OpenMinutes(cal, lo, Earlier(hi, Midnight(DayOf(lo) + 1)))
<1> DEFINE day == DayOf(lo)
           ws == WindowsOn(cal, day)
           L == Len(ws)
           next == Midnight(day + 1)
           stop == Earlier(hi, next)
           To(i) == CountedTo(cal, lo, hi, i)
<1>0. lo <= hi
  OBVIOUS
<1>1. day \in Nat /\ lo \in Midnight(day)..(next - 1) /\ Midnight(day) \in Nat /\ next \in Nat
  <2>1. day \in Nat /\ lo \in Midnight(day)..(next - 1)
    BY Zenon, DayOfMinute
  <2>2. day + 1 \in Nat
    <3> HIDE DEF day
    <3> QED
      BY <2>1
  <2> QED
    BY Zenon, <2>1, <2>2, DaysAre
<1>2. L \in Nat
  <2>1. ws \in Seq(RealWindow)
    BY Zenon, <1>1, WindowsAre
  <2> HIDE DEF ws
  <2> QED
    BY <2>1
<1>3. PICK h : /\ h[0] = 0
               /\ \A i \in 1..L : h[i] = h[i - 1] + Overlap(lo, hi, day, ws[i])
               /\ CountDay(lo, hi, cal) = h[L]
  <2>1. \E h : Counting(cal, lo, hi, h)
    BY Zenon, <1>0, CountWalk
  <2> QED
    BY Zenon, <2>1 DEF Counting
<1> DEFINE Fine == {i \in 0..L : h[i] = OpenMinutes(cal, lo, To(i)) /\ To(i) \in lo..hi}
<1>4. 0 \in Fine
  <2>1. To(0) = lo
    BY Zenon DEF CountedTo
  <2>2. OpenMinutes(cal, lo, lo) = 0
    BY Zenon, NoMinutes
  <2>3. 0 \in 0..L /\ lo \in lo..hi
    <3> HIDE DEF L
    <3> QED
      BY <1>0, <1>2
  <2> QED
    BY Zenon, <1>3, <2>1, <2>2, <2>3
<1>5. ASSUME NEW i \in 1..L, i - 1 \in Fine
      PROVE  i \in Fine
  <2>1. /\ To(i) \in lo..hi
        /\ OpenMinutes(cal, lo, To(i)) = OpenMinutes(cal, lo, To(i - 1)) + Overlap(lo, hi, day, ws[i])
    BY Zenon, <1>0, WindowCounts
  <2>2. i \in 0..L
    <3> HIDE DEF L
    <3> QED
      BY <1>2
  <2> QED
    BY Zenon, <1>3, <1>5, <2>1, <2>2
<1>6. Fine \in SUBSET (0..L)
  OBVIOUS
<1> HIDE DEF Fine
<1>7. h[L] = OpenMinutes(cal, lo, To(L)) /\ To(L) \in lo..hi
  <2>1. L \in 0..L
    <3> HIDE DEF L
    <3> QED
      BY <1>2
  <2>2. L \in Fine
    BY Zenon, <1>2, <1>4, <1>5, <1>6, <2>1, WalkKeeps
  <2> QED
    BY Zenon, <2>2 DEF Fine
<1> DEFINE end == To(L)
<1>8. L # 0 => L \in 1..L /\ \A j \in 1..L : j = L \/ j < L
  <2> HIDE DEF L
  <2> QED
    BY <1>2
<1>9. stop \in Nat /\ lo <= stop /\ stop <= hi /\ stop <= next
  <2> HIDE DEF next, day
  <2> QED
    BY <1>0, <1>1 DEF Earlier
<1>10. end \in Nat /\ lo <= end /\ end <= hi
  <2>1. end \in lo..hi
    BY Zenon, <1>7
  <2> HIDE DEF end
  <2> QED
    BY <2>1
<1>11. end <= stop
  <2>1. CASE L = 0
    <3>1. end = lo
      BY Zenon, <2>1 DEF CountedTo
    <3> QED
      BY Zenon, <1>9, <3>1
  <2>2. CASE L # 0
    <3> DEFINE last == Closes(cal, day, L)
    <3>1. last \in Nat /\ last <= next
      BY Zenon, <1>1, <1>8, <2>2, WindowsAscend
    <3>2. end = Upto(lo, hi, last)
      BY Zenon, <2>2 DEF CountedTo
    <3> HIDE DEF last, next, day
    <3>3. Upto(lo, hi, last) <= stop
      BY <1>0, <1>1, <3>1 DEF Upto, Later, Earlier
    <3> QED
      BY Zenon, <3>2, <3>3
  <2> QED
    BY Zenon, <2>1, <2>2
<1>12. ASSUME NEW t \in end..(stop - 1)
       PROVE  ~IsOpen(cal, t)
  <2>1. t \in Int /\ lo <= t /\ end <= t /\ t < hi /\ t < next
    <3> HIDE DEF end, stop, next
    <3> QED
      BY <1>1, <1>9, <1>10
  <2>2. t \in Midnight(day)..(next - 1)
    <3> HIDE DEF next, day
    <3> QED
      BY <1>1, <2>1
  <2>3. ASSUME NEW j \in 1..L
        PROVE  Closes(cal, day, j) <= t
    <3> DEFINE last == Closes(cal, day, L)
               opensLast == Opens(cal, day, L)
               e == Closes(cal, day, j)
    <3>1. L # 0
      <4> HIDE DEF L
      <4> QED
        BY <1>2
    <3>2. last \in Nat /\ opensLast \in Nat /\ opensLast < last /\ e \in Nat
      BY Zenon, <1>1, <1>8, <3>1, WindowsAscend
    <3>3. Upto(lo, hi, last) <= t
      BY Zenon, <2>1, <3>1 DEF CountedTo
    <3>4. last <= t
      BY Zenon, <2>1, <3>2, <3>3, BeforeAnInstant
    <3>5. e = last \/ e <= opensLast
      BY Zenon, <1>1, <1>8, <3>1, WindowsAscend
    <3> HIDE DEF e, last, opensLast
    <3>6. e <= t
      BY <2>1, <3>2, <3>4, <3>5
    <3> QED
      BY Zenon, <3>6 DEF e
  <2> QED
    BY Zenon, <1>1, <2>2, <2>3, ClosedBetween DEF Closes
<1>13. OpenMinutes(cal, lo, stop) = OpenMinutes(cal, lo, end) + 0
  <2>1. lo \in Int /\ end \in Int /\ stop \in Int
    BY Zenon, <1>9, <1>10, NatInt
  <2>2. OpenMinutes(cal, end, stop) = 0
    BY Zenon, <1>12, <2>1, NoneIsOpen
  <2>3. OpenMinutes(cal, lo, stop) = OpenMinutes(cal, lo, end) + OpenMinutes(cal, end, stop)
    BY Zenon, <1>10, <1>11, <2>1, OpenAddsUp
  <2> QED
    BY Zenon, <2>2, <2>3
<1>14. OpenMinutes(cal, lo, end) \in Nat
  BY Zenon, <1>10, NatInt, OpenIsFinite
<1> HIDE DEF end, stop
<1>15. OpenMinutes(cal, lo, stop) = OpenMinutes(cal, lo, end)
  BY <1>13, <1>14
<1> QED
  BY Zenon, <1>3, <1>7, <1>15 DEF end, stop

Tally == [at : Nat, total : Nat]

(* Between's clock at the next day, with the minutes counted so far.       *)
CountOn(cal, to, c) ==
    IF c.at >= to THEN c
    ELSE [at |-> Midnight(DayOf(c.at) + 1), total |-> c.total + CountDay(c.at, to, cal)]

(* After m days: what was counted are the open minutes up to the clock or  *)
(* the end of the span.                                                    *)
CountedDays(cal, from, to, m, c) ==
    /\ c \in Tally /\ from <= c.at
    /\ c.total = OpenMinutes(cal, from, Earlier(to, c.at))
    /\ c.at < to => DayOf(c.at) = DayOf(from) + m /\ (m # 0 => c.at = Midnight(DayOf(from) + m))
    /\ m # 0 => c.at <= Midnight(DayOf(from) + m)

CountingDays(cal, from, to, h) ==
    /\ h[0] = [at |-> from, total |-> 0]
    /\ \A m \in 1..MaxDays : h[m] = CountOn(cal, to, h[m - 1])
    /\ Between(cal, from, to) = h[MaxDays].total

LEMMA DayTyped ==
  ASSUME NEW cal, IsCalendar(cal), Orderly(cal), ~AlwaysOpen(cal), NEW to \in Nat, NEW c \in Tally, c.at < to
  PROVE  /\ Midnight(DayOf(c.at) + 1) \in Nat /\ c.at <= Midnight(DayOf(c.at) + 1)
         /\ CountDay(c.at, to, cal) = OpenMinutes(cal, c.at, Earlier(to, Midnight(DayOf(c.at) + 1)))
         /\ CountDay(c.at, to, cal) \in Nat
<1> DEFINE day == DayOf(c.at)
           next == Midnight(day + 1)
<1>1. c.at \in Nat
  BY DEF Tally
<1>2. day \in Nat /\ c.at \in Midnight(day)..(next - 1)
  BY Zenon, <1>1, DayOfMinute
<1>3. next \in Nat /\ Midnight(day) \in Nat
  <2>1. day + 1 \in Nat
    <3> HIDE DEF day
    <3> QED
      BY <1>2
  <2> QED
    BY Zenon, <1>2, <2>1, DaysAre
<1>4. CountDay(c.at, to, cal) = OpenMinutes(cal, c.at, Earlier(to, next))
  BY Zenon, <1>1, DayCounts
<1>5. Earlier(to, next) \in Int
  <2> HIDE DEF next
  <2> QED
    BY <1>3 DEF Earlier
<1>6. OpenMinutes(cal, c.at, Earlier(to, next)) \in Nat
  BY Zenon, <1>1, <1>5, NatInt, OpenIsFinite
<1>7. c.at <= next
  <2> HIDE DEF next, day
  <2> QED
    BY <1>1, <1>2, <1>3
<1> QED
  BY Zenon, <1>3, <1>4, <1>6, <1>7

LEMMA BetweenWalk ==
  ASSUME NEW cal, IsCalendar(cal), Orderly(cal), ~AlwaysOpen(cal), NEW from \in Nat, NEW to \in Nat, from < to
  PROVE  \E h : CountingDays(cal, from, to, h)
<1> DEFINE base == [at |-> from, total |-> 0]
           F == [step \in Tally \X (1..MaxDays) |-> CountOn(cal, to, step[1])]
           Solves(g) == g = [n \in 0..MaxDays |->
                               IF n = 0 THEN base
                               ELSE IF g[n - 1].at >= to THEN g[n - 1]
                               ELSE [at |-> Midnight(DayOf(g[n - 1].at) + 1),
                                     total |-> g[n - 1].total + CountDay(g[n - 1].at, to, cal)]]
           clock == CHOOSE g : Solves(g)
<1>1. MaxDays \in Nat
  BY Zenon, DaysAre
<1>2. base \in Tally
  BY DEF Tally
<1>3. ASSUME NEW c \in Tally
      PROVE  CountOn(cal, to, c) \in Tally
  <2>1. c.at \in Nat /\ c.total \in Nat
    BY DEF Tally
  <2>2. CASE c.at >= to
    BY Zenon, <2>2 DEF CountOn
  <2>3. CASE ~(c.at >= to)
    <3>1. c.at < to
      BY <2>1, <2>3
    <3> DEFINE next == Midnight(DayOf(c.at) + 1)
               n == CountDay(c.at, to, cal)
    <3>2. next \in Nat /\ n \in Nat
      BY Zenon, <3>1, DayTyped
    <3>3. CountOn(cal, to, c) = [at |-> next, total |-> c.total + n]
      BY Zenon, <2>3 DEF CountOn
    <3> HIDE DEF next, n
    <3>4. [at |-> next, total |-> c.total + n] \in Tally
      BY <2>1, <3>2 DEF Tally
    <3> QED
      BY Zenon, <3>3, <3>4
  <2> QED
    BY Zenon, <2>2, <2>3
<1> HIDE DEF base
<1>4. F \in [Tally \X (1..MaxDays) -> Tally] /\ \A c \in Tally, m \in 1..MaxDays : F[<<c, m>>] = CountOn(cal, to, c)
  BY <1>3
<1> HIDE DEF F
<1>5. PICK h : h \in [0..MaxDays -> Tally] /\ h[0] = base /\ \A m \in 1..MaxDays : h[m] = F[<<h[m - 1], m>>]
  <2>1. \E h : IsWalk(h, Tally, base, MaxDays, F)
    BY Zenon, <1>1, <1>2, <1>4, WalkExists
  <2> QED
    BY Zenon, <2>1 DEF IsWalk
<1>6. ASSUME NEW m \in 1..MaxDays
      PROVE  h[m] = CountOn(cal, to, h[m - 1])
  <2>1. m - 1 \in 0..MaxDays
    BY <1>1
  <2> QED
    BY Zenon, <1>4, <1>5, <2>1
<1>7. Solves(h)
  <2>1. \A n \in 0..MaxDays : n = 0 \/ n \in 1..MaxDays
    BY <1>1
  <2>2. \A n \in 0..MaxDays : h[n] = IF n = 0 THEN base ELSE CountOn(cal, to, h[n - 1])
    BY Zenon, <1>5, <1>6, <2>1
  <2> QED
    BY Zenon, <1>5, <2>2 DEF CountOn
<1>8. Solves(clock)
  BY Zenon, <1>7
<1>9. Between(cal, from, to) = clock[MaxDays].total
  <2>1. ~(to <= from)
    OBVIOUS
  <2> QED
    BY Zenon, <2>1 DEF Between, base
<1> HIDE DEF clock
<1>10. clock[0] = base /\ \A m \in 1..MaxDays : clock[m] = CountOn(cal, to, clock[m - 1])
  <2>1. 0 \in 0..MaxDays /\ \A m \in 1..MaxDays : m \in 0..MaxDays /\ m # 0
    BY <1>1
  <2> QED
    BY Zenon, <1>8, <2>1 DEF CountOn
<1> QED
  BY Zenon, <1>9, <1>10 DEF base, CountingDays

LEMMA CountedDayAfter ==
  ASSUME NEW cal, IsCalendar(cal), Orderly(cal), ~AlwaysOpen(cal), NEW from \in Nat, NEW to \in Nat,
         NEW m \in Nat, NEW c, CountedDays(cal, from, to, m, c), m # 0 \/ c.at < to
  PROVE  CountedDays(cal, from, to, m + 1, CountOn(cal, to, c))
<1> DEFINE first == DayOf(from)
           here == Midnight(first + m)
           next == Midnight(first + (m + 1))
           e == CountOn(cal, to, c)
<1>1. /\ c \in Tally /\ from <= c.at
      /\ c.total = OpenMinutes(cal, from, Earlier(to, c.at))
      /\ c.at < to => DayOf(c.at) = first + m
      /\ m # 0 => c.at <= here
  BY Zenon DEF CountedDays
<1>2. c.at \in Nat /\ c.total \in Nat
  BY <1>1 DEF Tally
<1>3. /\ first + m \in Nat /\ (first + m) + 1 = first + (m + 1) /\ first + (m + 1) \in Nat
      /\ here \in Nat /\ next = here + DayLength
      /\ DayLength \in Nat \ {0} /\ next \in Nat /\ Midnight((first + (m + 1)) + 1) = next + DayLength
  <2>1. first \in Nat
    BY Zenon, DayOfMinute
  <2>2. first + m \in Nat /\ (first + m) + 1 = first + (m + 1) /\ first + (m + 1) \in Nat
    <3> HIDE DEF first
    <3> QED
      BY <2>1
  <2> QED
    BY Zenon, <2>2, DaysAre
<1>4. m + 1 # 0
  OBVIOUS
<1>5. CountedDays(cal, from, to, m + 1, e) <=>
        /\ e \in Tally /\ from <= e.at
        /\ e.total = OpenMinutes(cal, from, Earlier(to, e.at))
        /\ e.at < to => DayOf(e.at) = first + (m + 1) /\ e.at = next
        /\ e.at <= next
  BY Zenon, <1>4 DEF CountedDays
<1>6. CASE ~(c.at < to)
  <2>1. c.at >= to /\ c.at <= next
    <3>1. c.at <= here
      BY Zenon, <1>1, <1>6
    <3> HIDE DEF here, next
    <3> QED
      BY <1>2, <1>3, <1>6, <3>1
  <2>2. e = c
    BY Zenon, <2>1 DEF CountOn
  <2> QED
    BY Zenon, <1>1, <1>5, <1>6, <2>1, <2>2
<1>7. CASE c.at < to
  <2>1. ~(c.at >= to)
    BY <1>2, <1>7
  <2>2. DayOf(c.at) + 1 = first + (m + 1)
    BY Zenon, <1>1, <1>3, <1>7
  <2> DEFINE n == CountDay(c.at, to, cal)
             stop == Earlier(to, next)
  <2>3. c.at <= next /\ n = OpenMinutes(cal, c.at, stop) /\ n \in Nat
    <3> DEFINE day == DayOf(c.at) + 1
    <3>1. /\ c.at <= Midnight(day)
          /\ n = OpenMinutes(cal, c.at, Earlier(to, Midnight(day))) /\ n \in Nat
      BY Zenon, <1>1, <1>7, DayTyped
    <3>2. day = first + (m + 1)
      BY Zenon, <2>2
    <3> HIDE DEF day, n
    <3> QED
      BY Zenon, <3>1, <3>2
  <2>4. e = [at |-> next, total |-> c.total + n]
    BY Zenon, <2>1, <2>2 DEF CountOn
  <2>5. e.at = next /\ e.total = c.total + n /\ e \in Tally
    <3> HIDE DEF e, n, next
    <3> QED
      BY <1>2, <1>3, <2>3, <2>4 DEF Tally
  <2>6. Earlier(to, c.at) = c.at
    BY <1>2, <1>7 DEF Earlier
  <2>7. stop \in Nat /\ c.at <= stop /\ from <= next
    <3> HIDE DEF next
    <3> QED
      BY <1>1, <1>2, <1>3, <1>7, <2>3 DEF Earlier
  <2>8. OpenMinutes(cal, from, stop) = OpenMinutes(cal, from, c.at) + OpenMinutes(cal, c.at, stop)
    <3>1. from \in Int /\ c.at \in Int /\ stop \in Int
      BY Zenon, <1>2, <2>7, NatInt
    <3> QED
      BY Zenon, <1>1, <2>7, <3>1, OpenAddsUp
  <2>9. e.total = OpenMinutes(cal, from, Earlier(to, e.at))
    BY Zenon, <1>1, <2>3, <2>5, <2>6, <2>8
  <2>10. DayOf(next) = first + (m + 1)
    <3>1. next \in next..((next + DayLength) - 1)
      <4> HIDE DEF next
      <4> QED
        BY <1>3
    <3> QED
      BY Zenon, <1>3, <3>1, MinutesOfDay
  <2>11. next <= next
    <3> HIDE DEF next
    <3> QED
      BY <1>3
  <2> QED
    BY Zenon, <1>5, <2>5, <2>7, <2>9, <2>10, <2>11
<1> QED
  BY Zenon, <1>6, <1>7

(* Up to where Between counts.                                             *)
Horizon(cal, from, to) == IF AlwaysOpen(cal) THEN to ELSE Earlier(to, Midnight(DayOf(from) + MaxDays))

LEMMA BetweenSearches ==
  ASSUME NEW cal, IsCalendar(cal), Orderly(cal), ~AlwaysOpen(cal), NEW from \in Nat, NEW to \in Nat, from < to
  PROVE  Between(cal, from, to) = OpenMinutes(cal, from, Earlier(to, Midnight(DayOf(from) + MaxDays)))
<1> DEFINE first == DayOf(from)
           horizon == Midnight(first + MaxDays)
<1>1. MaxDays \in Nat \ {0} /\ first \in Nat /\ horizon \in Nat
  <2>1. MaxDays \in Nat \ {0} /\ first \in Nat
    BY Zenon, DayOfMinute, DaysAre
  <2>2. first + MaxDays \in Nat
    <3> HIDE DEF first
    <3> QED
      BY <2>1
  <2> QED
    BY Zenon, <2>1, <2>2, DaysAre
<1>2. PICK h : /\ h[0] = [at |-> from, total |-> 0]
               /\ \A m \in 1..MaxDays : h[m] = CountOn(cal, to, h[m - 1])
               /\ Between(cal, from, to) = h[MaxDays].total
  <2>1. \E h : CountingDays(cal, from, to, h)
    BY Zenon, BetweenWalk
  <2> QED
    BY Zenon, <2>1 DEF CountingDays
<1> DEFINE Fine == {m \in 0..MaxDays : CountedDays(cal, from, to, m, h[m]) /\ (m = 0 => h[m].at < to)}
<1>3. 0 \in Fine
  <2> DEFINE c == [at |-> from, total |-> 0]
  <2>1. c \in Tally /\ c.at = from /\ c.total = 0 /\ 0 \in 0..MaxDays
    BY <1>1 DEF Tally
  <2> HIDE DEF c
  <2>2. OpenMinutes(cal, from, from) = 0
    BY Zenon, NoMinutes
  <2>3. from <= from /\ first + 0 = first /\ Earlier(to, from) = from
    <3>1. first + 0 = first
      <4> HIDE DEF first
      <4> QED
        BY <1>1
    <3> HIDE DEF first
    <3> QED
      BY <3>1 DEF Earlier
  <2>4. CountedDays(cal, from, to, 0, c)
    BY Zenon, <2>1, <2>2, <2>3 DEF CountedDays
  <2> QED
    BY Zenon, <1>2, <2>1, <2>4 DEF c
<1>4. ASSUME NEW m \in 1..MaxDays, m - 1 \in Fine
      PROVE  m \in Fine
  <2>1. m - 1 \in Nat /\ (m - 1) + 1 = m /\ m \in 0..MaxDays /\ m # 0
    BY <1>1
  <2>2. CountedDays(cal, from, to, m - 1, h[m - 1]) /\ (m - 1 # 0 \/ h[m - 1].at < to)
    BY Zenon, <1>4
  <2>3. CountedDays(cal, from, to, (m - 1) + 1, CountOn(cal, to, h[m - 1]))
    BY Zenon, <2>1, <2>2, CountedDayAfter
  <2> QED
    BY Zenon, <1>2, <2>1, <2>3
<1>5. Fine \in SUBSET (0..MaxDays)
  OBVIOUS
<1> DEFINE c == h[MaxDays]
<1> HIDE DEF Fine
<1>6. CountedDays(cal, from, to, MaxDays, c)
  <2>1. MaxDays \in 0..MaxDays /\ MaxDays \in Nat
    BY <1>1
  <2>2. MaxDays \in Fine
    BY Zenon, <1>3, <1>4, <1>5, <2>1, WalkKeeps
  <2> QED
    BY Zenon, <2>2 DEF Fine
<1>7. /\ c \in Tally
      /\ c.total = OpenMinutes(cal, from, Earlier(to, c.at))
      /\ c.at < to => c.at = horizon
      /\ c.at <= horizon
  <2>1. MaxDays # 0
    BY <1>1
  <2> QED
    BY Zenon, <1>6, <2>1 DEF CountedDays
<1> HIDE DEF c, horizon
<1>8. c.at \in Nat
  BY <1>7 DEF Tally
<1>9. Earlier(to, c.at) = Earlier(to, horizon)
  BY <1>1, <1>7, <1>8 DEF Earlier
<1>10. Between(cal, from, to) = c.total
  BY Zenon, <1>2 DEF c
<1> QED
  BY Zenon, <1>7, <1>9, <1>10 DEF horizon

(* Calendar.Between, for any calendar whose windows are in order, apart    *)
(* and end by midnight, and any two instants: the open minutes from the    *)
(* one to the other, as far as the days it looks at go.                    *)
THEOREM BetweenCounts ==
  \A cal, from, to :
     IsCalendar(cal) /\ Orderly(cal) /\ from \in Nat /\ to \in Nat =>
        Between(cal, from, to) = OpenMinutes(cal, from, Horizon(cal, from, to))
<1> SUFFICES ASSUME NEW cal, NEW from \in Nat, NEW to \in Nat, IsCalendar(cal), Orderly(cal)
             PROVE  Between(cal, from, to) = OpenMinutes(cal, from, Horizon(cal, from, to))
  BY Zenon
<1> DEFINE horizon == Horizon(cal, from, to)
<1>1. CASE to <= from
  <2>1. Between(cal, from, to) = 0
    BY Zenon, <1>1 DEF Between
  <2>2. horizon \in Int /\ horizon <= from
    <3> DEFINE last == Midnight(DayOf(from) + MaxDays)
    <3>1. last \in Nat
      BY Zenon, LooksAhead
    <3>2. horizon = to \/ horizon = Earlier(to, last)
      BY Zenon DEF Horizon
    <3> HIDE DEF last, horizon
    <3> QED
      BY <1>1, <3>1, <3>2 DEF Earlier
  <2>3. \A t \in from..(horizon - 1) : ~IsOpen(cal, t)
    <3> HIDE DEF horizon
    <3>1. from..(horizon - 1) = {}
      BY <2>2
    <3> QED
      BY Zenon, <3>1
  <2>4. OpenMinutes(cal, from, horizon) = 0
    BY Zenon, <2>2, <2>3, NatInt, NoneIsOpen
  <2> QED
    BY Zenon, <2>1, <2>4
<1>2. CASE ~(to <= from) /\ AlwaysOpen(cal)
  <2>1. Between(cal, from, to) = to - from
    BY Zenon, <1>2 DEF Between
  <2>2. horizon = to /\ from <= to
    <3>1. horizon = to
      BY Zenon, <1>2 DEF Horizon
    <3>2. from <= to
      BY <1>2
    <3> QED
      BY Zenon, <3>1, <3>2
  <2>3. \A t \in from..(to - 1) : IsOpen(cal, t)
    BY Zenon, <1>2 DEF IsOpen
  <2>4. OpenMinutes(cal, from, to) = to - from
    BY Zenon, <2>2, <2>3, NatInt, AllIsOpen
  <2> QED
    BY Zenon, <2>1, <2>2, <2>4
<1>3. CASE ~(to <= from) /\ ~AlwaysOpen(cal)
  <2>1. from < to
    BY <1>3
  <2>2. horizon = Earlier(to, Midnight(DayOf(from) + MaxDays))
    BY Zenon, <1>3 DEF Horizon
  <2> QED
    BY Zenon, <1>3, <2>1, <2>2, BetweenSearches
<1> QED
  BY Zenon, <1>1, <1>2, <1>3

LEMMA OpenUpTo ==
  ASSUME NEW cal, NEW from \in Nat, NEW last \in Nat, NEW to \in Nat, from <= last, from <= to,
         IsOpen(cal, to - 1), OpenMinutes(cal, from, to) <= OpenMinutes(cal, from, last)
  PROVE  to <= last
<1>1. SUFFICES ASSUME last < to
               PROVE  FALSE
  OBVIOUS
<1> DEFINE prior == to - 1
<1>2. prior \in Nat /\ last <= prior /\ prior <= to /\ last <= to /\ to - prior = 1 /\ \A t \in prior..(to - 1) : t = prior
  BY <1>1
<1>3. OpenMinutes(cal, prior, to) = to - prior
  BY Zenon, <1>2, NatInt, AllIsOpen
<1> HIDE DEF prior
<1>4. /\ OpenMinutes(cal, from, to) = OpenMinutes(cal, from, last) + OpenMinutes(cal, last, to)
      /\ OpenMinutes(cal, last, to) = OpenMinutes(cal, last, prior) + OpenMinutes(cal, prior, to)
  BY Zenon, <1>2, NatInt, OpenAddsUp
<1>5. OpenMinutes(cal, from, last) \in Nat /\ OpenMinutes(cal, last, prior) \in Nat
  BY Zenon, <1>2, NatInt, OpenIsFinite
<1> QED
  BY <1>2, <1>3, <1>4, <1>5

(* Between undoes Add, for any calendar whose windows are in order, apart  *)
(* and end before midnight: when the days looked at have the minutes asked *)
(* for, Add arrives after exactly these, and Between counts them.  With a  *)
(* window that ends at 24:00 the two disagree.                             *)
THEOREM CalendarsKeepTime ==
  \A cal, from, minutes :
     /\ IsCalendar(cal) /\ Orderly(cal) /\ ShutsBeforeMidnight(cal) /\ from \in Nat /\ minutes \in Nat
     /\ AlwaysOpen(cal) \/ minutes <= OpenMinutes(cal, from, Midnight(DayOf(from) + MaxDays))
     => /\ OpenMinutes(cal, from, Add(cal, from, minutes)) = minutes
        /\ Between(cal, from, Add(cal, from, minutes)) = minutes
<1> DEFINE SearchEnd(cal, from) == Midnight(DayOf(from) + MaxDays)
<1> SUFFICES ASSUME NEW cal, NEW from \in Nat, NEW minutes \in Nat,
                    IsCalendar(cal), Orderly(cal), ShutsBeforeMidnight(cal),
                    AlwaysOpen(cal) \/ minutes <= OpenMinutes(cal, from, SearchEnd(cal, from))
             PROVE  /\ OpenMinutes(cal, from, Add(cal, from, minutes)) = minutes
                    /\ Between(cal, from, Add(cal, from, minutes)) = minutes
  BY Zenon
<1> PICK to : to = Add(cal, from, minutes)
  BY Zenon
<1> DEFINE last == SearchEnd(cal, from)
<1>1. last \in Nat /\ from <= last
  BY Zenon, LooksAhead
<1>2. CASE AlwaysOpen(cal)
  <2>1. to = from + minutes
    BY Zenon, <1>2 DEF Add
  <2>2. to \in Nat /\ OpenMinutes(cal, from, to) = minutes
    BY <1>2, <2>1, AddAlways
  <2>3. Between(cal, from, to) = OpenMinutes(cal, from, to)
    BY Zenon, <1>2, <2>2, BetweenCounts DEF Horizon
  <2> QED
    BY Zenon, <2>2, <2>3
<1>3. CASE ~AlwaysOpen(cal) /\ minutes = 0
  <2>1. 0 <= 0 /\ from <= from
    OBVIOUS
  <2>2. to = from
    BY Zenon, <1>3, <2>1 DEF Add
  <2>3. OpenMinutes(cal, from, from) = 0 /\ Between(cal, from, from) = 0
    BY Zenon, <2>1, NoMinutes DEF Between
  <2> QED
    BY Zenon, <1>3, <2>2, <2>3
<1>4. CASE ~AlwaysOpen(cal) /\ minutes # 0
  <2>1. minutes \in Nat \ {0} /\ minutes > 0 /\ ~(minutes < 0)
    BY <1>4
  <2>2. Arrives(cal, from, minutes, to) /\ to \in Nat
    BY Zenon, <1>4, <2>1, AddSearches
  <2>3. SureMinutes(cal, from, last) = OpenMinutes(cal, from, last)
    BY Zenon, <1>1, NatInt, AllIsSure
  <2>4. Reaches(cal, from, to, minutes)
    BY Zenon, <1>4, <2>1, <2>2, <2>3 DEF Arrives
  <2>5. /\ from <= to /\ SureMinutes(cal, from, to) <= minutes /\ minutes <= OpenMinutes(cal, from, to)
        /\ IsOpen(cal, to - 1)
    BY Zenon, <2>1, <2>4 DEF Reaches
  <2>6. SureMinutes(cal, from, to) = OpenMinutes(cal, from, to) /\ OpenMinutes(cal, from, to) \in Nat
    BY Zenon, <2>2, NatInt, AllIsSure, OpenIsFinite
  <2>7. OpenMinutes(cal, from, to) = minutes
    BY <2>5, <2>6
  <2>8. to <= last
    BY Zenon, <1>1, <1>4, <2>2, <2>5, <2>7, OpenUpTo
  <2>9. Earlier(to, last) = to
    <3> HIDE DEF last
    <3> QED
      BY <1>1, <2>2, <2>8 DEF Earlier
  <2>10. Between(cal, from, to) = OpenMinutes(cal, from, to)
    BY Zenon, <1>4, <2>2, <2>9, BetweenCounts DEF Horizon
  <2> QED
    BY Zenon, <2>7, <2>10
<1> QED
  BY Zenon, <1>2, <1>3, <1>4
-----------------------------------------------------------------------------
(* Texts and what is printed.                                              *)

LEMMA FlattenTyped ==
  ASSUME NEW X, NEW seqs \in Seq(Seq(X))
  PROVE  FlattenSeq(seqs) \in Seq(X)
<1> DEFINE L == Len(seqs)
           Solves(g) == g = [i \in 1..L |-> IF i = 1 THEN seqs[i] ELSE g[i - 1] \o seqs[i]]
           flatten == CHOOSE g : Solves(g)
           F == [step \in Seq(X) \X (1..L) |-> IF step[2] = 1 THEN seqs[step[2]] ELSE step[1] \o seqs[step[2]]]
<1>1. L \in Nat /\ <<>> \in Seq(X) /\ \A i \in 1..L : seqs[i] \in Seq(X)
  OBVIOUS
<1>2. \A d \in Seq(X), i \in 1..L : (IF i = 1 THEN seqs[i] ELSE d \o seqs[i]) \in Seq(X)
  BY <1>1
<1>3. F \in [Seq(X) \X (1..L) -> Seq(X)]
  BY <1>2
<1>4. \A d \in Seq(X), i \in 1..L : F[<<d, i>>] = IF i = 1 THEN seqs[i] ELSE d \o seqs[i]
  OBVIOUS
<1> HIDE DEF F
<1>5. PICK h : IsWalk(h, Seq(X), <<>>, L, F)
  BY Zenon, <1>1, <1>3, WalkExists
<1>6. /\ h \in [0..L -> Seq(X)]
      /\ \A n \in 1..L : h[n] = F[<<h[n - 1], n>>]
  BY Zenon, <1>5 DEF IsWalk
<1>7. ASSUME NEW n \in 1..L
      PROVE  h[n] \in Seq(X) /\ h[n] = IF n = 1 THEN seqs[n] ELSE h[n - 1] \o seqs[n]
  <2>1. n \in 0..L /\ n - 1 \in 0..L
    BY <1>1
  <2>2. h[n] \in Seq(X) /\ h[n - 1] \in Seq(X)
    BY Zenon, <1>6, <2>1
  <2> QED
    BY Zenon, <1>4, <1>6, <2>2
<1> DEFINE k == [n \in 1..L |-> h[n]]
<1>8. Solves(k)
  <2>1. ASSUME NEW n \in 1..L, n # 1
        PROVE  n - 1 \in 1..L
    BY <2>1, <1>1
  <2> QED
    BY Zenon, <1>7, <2>1
<1>9. Solves(flatten)
  BY Zenon, <1>8
<1> DEFINE Typed == {n \in 0..L : n # 0 => flatten[n] \in Seq(X)}
<1>10. FlattenSeq(seqs) = IF L = 0 THEN seqs ELSE flatten[L]
  BY Zenon DEF FlattenSeq
<1> HIDE DEF flatten
<1>11. 0 \in Typed
  BY <1>1
<1>12. ASSUME NEW n \in 1..L, n - 1 \in Typed
       PROVE  n \in Typed
  <2>1. flatten[n] = IF n = 1 THEN seqs[n] ELSE flatten[n - 1] \o seqs[n]
    BY Zenon, <1>9
  <2>2. n # 1 => n - 1 # 0
    OBVIOUS
  <2>3. n # 1 => flatten[n - 1] \in Seq(X)
    BY Zenon, <1>12, <2>2
  <2> DEFINE prev == flatten[n - 1]
             now == flatten[n]
             s == seqs[n]
  <2>4. s \in Seq(X)
    BY Zenon, <1>1
  <2> HIDE DEF prev, now, s
  <2>5. now \in Seq(X)
    <3>1. CASE n = 1
      BY Zenon, <2>1, <2>4, <3>1 DEF now, s
    <3>2. CASE n # 1
      <4>1. prev \in Seq(X) /\ now = prev \o s
        BY Zenon, <2>1, <2>3, <3>2 DEF now, prev, s
      <4> QED
        BY <2>4, <4>1
    <3> QED
      BY Zenon, <3>1, <3>2
  <2>6. n \in 0..L
    BY <1>1
  <2> QED
    BY Zenon, <2>5, <2>6 DEF now
<1>13. Typed \in SUBSET (0..L)
  OBVIOUS
<1> HIDE DEF Typed
<1>14. L \in Typed
  <2>1. L \in 0..L
    BY <1>1
  <2> QED
    BY Zenon, <1>1, <1>11, <1>12, <1>13, <2>1, WalkKeeps
<1>15. CASE L = 0
  <2>1. seqs \in Seq(X)
    <3>1. DOMAIN seqs = {}
      BY <1>15
    <3>2. seqs = <<>>
      BY <1>15
    <3> QED
      BY Zenon, <1>1, <3>2
  <2> QED
    BY Zenon, <1>10, <1>15, <2>1
<1>16. CASE L # 0
  BY Zenon, <1>10, <1>14, <1>16 DEF Typed
<1> QED
  BY Zenon, <1>15, <1>16

LEMMA TrimmedStays ==
  ASSUME NEW X, NEW p \in Seq(X)
  PROVE  Trimmed(p) \in Seq(X) /\ Trimmed(Trimmed(p)) = Trimmed(p)
<1> DEFINE words(t) == {i \in DOMAIN t : t[i] # Blank}
           L == Len(p)
<1>0. \A t : Trimmed(t) = IF words(t) = {} THEN NoText ELSE SubSeq(t, Min(words(t)), Max(words(t)))
  BY Zenon DEF Trimmed
<1>1. DOMAIN p = 1..L /\ L \in Nat /\ words(p) \subseteq 1..L
  OBVIOUS
<1>2. CASE words(p) = {}
  <2>1. Trimmed(p) = NoText
    BY Zenon, <1>0, <1>2
  <2>2. NoText \in Seq(X) /\ words(NoText) = {}
    BY DEF NoText
  <2>3. Trimmed(NoText) = NoText
    BY Zenon, <1>0, <2>2
  <2> QED
    BY Zenon, <2>1, <2>2, <2>3
<1>3. CASE words(p) # {}
  <2> DEFINE S == words(p)
  <2> HIDE DEF words
  <2>1. S \subseteq Nat /\ S \in SUBSET (1..L)
    BY <1>1
  <2>2. PICK a \in S : \A i \in S : a <= i
    BY Zenon, <1>3, <2>1, LeastOf
  <2>3. Max(S) \in S
    BY Zenon, <1>1, <1>3, <2>1, MaxIsIn
  <2>4. Min(S) \in S /\ \A i \in S : Min(S) <= i
    BY Zenon, <2>2 DEF Min
  <2> DEFINE from == Min(S)
             to == Max(S)
             q == SubSeq(p, from, to)
  <2>5. Trimmed(p) = q
    BY Zenon, <1>0, <1>3
  <2>6. from <= to /\ from \in 1..L /\ to \in 1..L
    BY Zenon, <2>1, <2>3, <2>4
  <2>7. p[from] # Blank /\ p[to] # Blank
    BY Zenon, <2>3, <2>4 DEF words
  <2> HIDE DEF from, to
  <2> DEFINE n == (to - from) + 1
  <2>8. /\ q \in Seq(X) /\ Len(q) = n /\ n \in Nat \ {0} /\ DOMAIN q = 1..n
        /\ q[1] = p[from] /\ q[n] = p[to]
    BY <2>6
  <2> HIDE DEF q, n
  <2>9. 1 \in words(q) /\ n \in words(q) /\ words(q) \subseteq 1..n
    BY <2>7, <2>8 DEF words
  <2>10. Min(words(q)) = 1
    <3>1. \A i \in words(q) : 1 <= i /\ i \in Nat
      BY <2>9
    <3>2. \A i \in words(q) : (\A j \in words(q) : i <= j) => i = 1
      BY <2>9, <3>1
    <3> QED
      BY Zenon, <2>9, <3>1, <3>2 DEF Min
  <2>11. Max(words(q)) = n
    <3>1. \A i \in words(q) : n >= i /\ i \in Nat
      BY <2>8, <2>9
    <3>2. \A i \in words(q) : (\A j \in words(q) : i >= j) => i = n
      BY <2>8, <2>9, <3>1
    <3> QED
      BY Zenon, <2>9, <3>1, <3>2 DEF Max
  <2>12. SubSeq(q, 1, n) = q
    BY <2>8
  <2>13. Trimmed(q) = q
    BY Zenon, <1>0, <2>9, <2>10, <2>11, <2>12
  <2> QED
    BY Zenon, <2>5, <2>8, <2>13
<1> QED
  BY Zenon, <1>2, <1>3

(* The pieces of what is printed.                                          *)
Pieces == STRING \cup {"<nil>", "true", "false", "[", "]"}

LEMMA TextsGrow ==
  /\ \A s \in Pieces : <<s>> \in Seq(Pieces)
  /\ \A t, u \in Seq(Pieces) : t \o u \in Seq(Pieces)
  /\ Seq(STRING) \subseteq Seq(Pieces)
<1>1. \A X : \A s \in X : <<s>> \in Seq(X)
  OBVIOUS
<1>2. \A X : \A t, u \in Seq(X) : t \o u \in Seq(X)
  OBVIOUS
<1>3. \A X, Y : X \subseteq Y => Seq(X) \subseteq Seq(Y)
  OBVIOUS
<1>4. STRING \subseteq Pieces
  BY Zenon DEF Pieces
<1> QED
  BY Zenon, <1>1, <1>2, <1>3, <1>4

LEMMA Words == {"<nil>", "true", "false", "[", "]"} \subseteq Pieces /\ Blank \in Pieces
BY Zenon, BlankAssumption DEF Pieces

LEMMA PrintedOneTyped ==
  ASSUME NEW value, IsScalar(value)
  PROVE  PrintedOne(value) \in Seq(Pieces)
<1>1. CASE value = Null
  <2>1. value.kind = "null"
    BY <1>1 DEF Null
  <2>2. PrintedOne(value) = <<"<nil>">>
    BY <2>1 DEF PrintedOne
  <2> QED
    BY Zenon, <2>2, Words, TextsGrow
<1>2. CASE value.kind = "text" /\ value.pieces \in Seq(STRING)
  <2>1. PrintedOne(value) = value.pieces
    BY <1>2 DEF PrintedOne
  <2> QED
    BY Zenon, <1>2, <2>1, TextsGrow
<1>3. CASE value.kind = "number" /\ \E text \in DOMAIN NumberOf : NumberOf[text] = value.n
  <2>1. PrintedOne(value) = CHOOSE text \in DOMAIN NumberOf : NumberOf[text] = value.n
    BY <1>3 DEF PrintedOne
  <2>2. PrintedOne(value) \in DOMAIN NumberOf
    BY Zenon, <1>3, <2>1
  <2> QED
    BY Zenon, <2>2, NumbersAssumption, TextsGrow
<1>4. CASE value.kind = "flag"
  <2> DEFINE s == IF value.set THEN "true" ELSE "false"
  <2>1. PrintedOne(value) = <<s>>
    BY <1>4 DEF PrintedOne
  <2>2. s \in Pieces
    BY Zenon, Words
  <2> HIDE DEF s
  <2> QED
    BY Zenon, <2>1, <2>2, TextsGrow
<1> QED
  BY Zenon, <1>1, <1>2, <1>3, <1>4 DEF IsScalar

LEMMA PrintedTyped ==
  ASSUME NEW value, IsValue(value)
  PROVE  Printed(value) \in Seq(Pieces)
<1>1. CASE value.kind # "list"
  <2>1. IsScalar(value)
    BY Zenon, <1>1 DEF IsValue
  <2> QED
    BY Zenon, <1>1, <2>1, PrintedOneTyped DEF Printed
<1>2. CASE value.kind = "list"
  <2> DEFINE items == value.items
             one(i) == IF i = 1 THEN PrintedOne(items[i]) ELSE <<Blank>> \o PrintedOne(items[i])
             all == [i \in DOMAIN items |-> one(i)]
  <2>1. items \in Seq(ToSet(items)) /\ \A i \in DOMAIN items : IsScalar(items[i])
    <3>1. ~IsScalar(value)
      BY <1>2 DEF IsScalar, Null
    <3> QED
      BY Zenon, <3>1 DEF IsValue
  <2>2. \A i \in DOMAIN items : PrintedOne(items[i]) \in Seq(Pieces)
    BY Zenon, <2>1, PrintedOneTyped
  <2>3. \A i \in DOMAIN items : one(i) \in Seq(Pieces)
    BY Zenon, <2>2, Words, TextsGrow
  <2>4. DOMAIN items = 1..Len(items) /\ Len(items) \in Nat
    <3> HIDE DEF items
    <3> QED
      BY <2>1
  <2> HIDE DEF one, items
  <2>5. all \in Seq(Seq(Pieces))
    BY <2>3, <2>4
  <2>6. Printed(value) = <<"[">> \o FlattenSeq(all) \o <<"]">>
    BY Zenon, <1>2 DEF Printed, one, items
  <2> HIDE DEF all
  <2>7. FlattenSeq(all) \in Seq(Pieces)
    BY Zenon, <2>5, FlattenTyped
  <2>8. <<"[">> \in Seq(Pieces) /\ <<"]">> \in Seq(Pieces)
    BY Zenon, Words, TextsGrow
  <2> QED
    BY Zenon, <2>6, <2>7, <2>8, TextsGrow
<1> QED
  BY Zenon, <1>1, <1>2
-----------------------------------------------------------------------------
(* What ValidateFormData keeps of a value fits the field, and is accepted  *)
(* and kept as it is another time.                                         *)

Settled(field, kept) == /\ Fits(field, kept) /\ kept # Null
                        /\ Accepted(field, kept) /\ Cleaned(field, kept) = kept

LEMMA ScalarsInt ==
  ASSUME NEW value, IsValue(value), value.kind = "number"
  PROVE  value.n \in Int
<1>1. IsScalar(value)
  BY DEF IsValue
<1>2. \E text \in DOMAIN NumberOf : NumberOf[text] = value.n
  BY <1>1 DEF IsScalar, Null
<1> QED
  BY Zenon, <1>2, NumbersAssumption

LEMMA OneFloat ==
  ASSUME NEW value, IsValue(value), NEW n \in ToFloat(value)
  PROVE  n \in Int /\ (CHOOSE m \in ToFloat(value) : TRUE) = n
<1>1. CASE value.kind = "number"
  <2>1. ToFloat(value) = {value.n}
    BY Zenon, <1>1 DEF ToFloat
  <2> QED
    BY Zenon, <1>1, <2>1, ScalarsInt
<1>2. CASE value.kind # "number"
  <2> DEFINE head == <<Head(Trimmed(value.pieces))>>
  <2>1. ToFloat(value) = {} \/ ToFloat(value) = {NumberOf[text] : text \in {head} \cap DOMAIN NumberOf}
    BY Zenon, <1>2 DEF ToFloat
  <2> HIDE DEF head
  <2>2. \A m \in ToFloat(value) : m = NumberOf[head] /\ head \in DOMAIN NumberOf
    BY Zenon, <2>1
  <2> QED
    BY Zenon, <2>2, NumbersAssumption
<1> QED
  BY Zenon, <1>1, <1>2

LEMMA NumbersSettle ==
  ASSUME NEW field \in Field, field.kind = "number", NEW value, IsValue(value), Accepted(field, value)
  PROVE  Settled(field, Cleaned(field, value))
<1>1. PICK n \in ToFloat(value) : Bounded(field, n)
  BY DEF Accepted
<1>2. n \in Int /\ Cleaned(field, value) = Number(CHOOSE m \in ToFloat(value) : TRUE)
  BY OneFloat DEF Cleaned
<1>3. Cleaned(field, value) = Number(n)
  BY Zenon, <1>2, OneFloat
<1> DEFINE kept == Number(n)
<1>4. kept.kind = "number" /\ kept.n = n /\ kept # Null
  BY DEF Number, Null
<1>5. Number(kept.n) = kept
  BY Zenon, <1>4
<1> HIDE DEF kept
<1>6. ToFloat(kept) = {n}
  BY Zenon, <1>4 DEF ToFloat
<1>7. Accepted(field, kept)
  BY <1>1, <1>6 DEF Accepted
<1>8. Cleaned(field, kept) = Number(CHOOSE m \in ToFloat(kept) : TRUE)
  BY DEF Cleaned
<1>9. (CHOOSE m \in {n} : TRUE) = n
  BY Zenon
<1>10. Cleaned(field, kept) = kept
  BY Zenon, <1>6, <1>8, <1>9 DEF kept
<1>11. Fits(field, kept)
  <2>1. field.min \subseteq Int /\ field.max \subseteq Int
    BY DEF Field
  <2>2. (\A low \in field.min : ~(n < low)) /\ (\A high \in field.max : ~(n > high))
    BY <1>1, <1>2, <2>1 DEF Bounded
  <2> QED
    BY <1>4, <2>2 DEF Fits
<1> QED
  BY Zenon, <1>3, <1>4, <1>7, <1>10, <1>11 DEF Settled, kept

LEMMA ChecksSettle ==
  ASSUME NEW field, field.kind = "checkbox", NEW value, Accepted(field, value)
  PROVE  Settled(field, Cleaned(field, value))
<1>1. value.kind = "flag" /\ Cleaned(field, value) = value
  BY DEF Accepted, Cleaned
<1>2. value # Null
  BY <1>1 DEF Null
<1>3. Fits(field, value)
  BY <1>1 DEF Fits
<1> QED
  BY Zenon, <1>1, <1>2, <1>3 DEF Settled

LEMMA TextIs ==
  ASSUME NEW p
  PROVE  Text(p).kind = "text" /\ Text(p).pieces = p /\ Text(p) # Null /\ Printed(Text(p)) = p
<1>1. Text(p).kind = "text" /\ Text(p).pieces = p /\ Text(p) # Null
  BY DEF Text, Null
<1>2. PrintedOne(Text(p)) = Text(p).pieces
  BY <1>1 DEF PrintedOne
<1> QED
  BY <1>1, <1>2 DEF Printed

LEMMA ListsSettle ==
  ASSUME NEW field, field.kind = "multiselect", NEW value, Accepted(field, value)
  PROVE  Settled(field, Cleaned(field, value))
<1>1. value.kind = "list" /\ \A i \in DOMAIN value.items : Known(field, Printed(value.items[i]))
  BY DEF Accepted
<1> DEFINE items == [i \in DOMAIN value.items |-> Text(Printed(value.items[i]))]
           kept == List(items)
           again == [i \in DOMAIN kept.items |-> Text(Printed(kept.items[i]))]
<1>2. Cleaned(field, value) = kept
  BY DEF Cleaned
<1> HIDE DEF items
<1>3. kept.kind = "list" /\ kept.items = items /\ kept # Null
  BY DEF List, Null
<1>4. /\ DOMAIN items = DOMAIN value.items
      /\ \A i \in DOMAIN items : items[i] = Text(Printed(value.items[i]))
  BY Zenon DEF items
<1>5. \A i \in DOMAIN items : /\ items[i].kind = "text" /\ items[i].pieces = Printed(value.items[i])
                              /\ Printed(items[i]) = Printed(value.items[i])
  <2>1. \A p : Text(p).kind = "text" /\ Text(p).pieces = p /\ Printed(Text(p)) = p
    BY Zenon, TextIs
  <2>2. ASSUME NEW i \in DOMAIN items
        PROVE  /\ items[i].kind = "text" /\ items[i].pieces = Printed(value.items[i])
               /\ Printed(items[i]) = Printed(value.items[i])
    <3>1. items[i] = Text(Printed(value.items[i]))
      BY Zenon, <1>4
    <3> QED
      BY Zenon, <2>1, <3>1
  <2> QED
    BY Zenon, <2>2
<1>6. \A i \in DOMAIN items : items[i] = Text(Printed(items[i]))
  BY Zenon, <1>4, <1>5
<1> HIDE DEF kept
<1>7. again = items
  <2>1. items = [i \in DOMAIN items |-> items[i]]
    BY Zenon DEF items
  <2> QED
    BY Zenon, <1>3, <1>6, <2>1
<1>8. Cleaned(field, kept) = List(again)
  BY DEF Cleaned
<1> HIDE DEF again
<1>9. Cleaned(field, kept) = kept
  BY Zenon, <1>7, <1>8 DEF kept
<1>10. \A i \in DOMAIN items : Known(field, Printed(items[i])) /\ Known(field, items[i].pieces)
  BY Zenon, <1>1, <1>4, <1>5
<1>11. Accepted(field, kept)
  BY <1>3, <1>10 DEF Accepted
<1>12. Fits(field, kept)
  BY <1>3, <1>5, <1>10 DEF Fits
<1> QED
  BY Zenon, <1>2, <1>3, <1>9, <1>11, <1>12 DEF Settled

LEMMA ChoicesSettle ==
  ASSUME NEW field, field.kind = "select" \/ field.kind = "date", NEW value, Accepted(field, value)
  PROVE  Settled(field, Cleaned(field, value))
<1> DEFINE p == Printed(value)
           kept == Text(p)
<1>1. Cleaned(field, value) = kept
  BY DEF Cleaned
<1>2. kept.kind = "text" /\ kept.pieces = p /\ kept # Null /\ Printed(kept) = p
  BY Zenon, TextIs
<1>3. field.kind = "select" => Known(field, p)
  BY DEF Accepted
<1>4. field.kind = "date" => p \in Dates
  BY DEF Accepted
<1>5. Cleaned(field, kept) = Text(Printed(kept))
  BY DEF Cleaned
<1> HIDE DEF p
<1>6. Cleaned(field, kept) = kept
  BY Zenon, <1>2, <1>5
<1> HIDE DEF kept
<1>7. Accepted(field, kept) /\ Fits(field, kept)
  BY <1>2, <1>3, <1>4 DEF Accepted, Fits
<1> QED
  BY Zenon, <1>1, <1>2, <1>6, <1>7 DEF Settled

LEMMA TextsSettle ==
  ASSUME NEW field \in Field, field.kind = "text", NEW value, IsValue(value), Accepted(field, value)
  PROVE  Settled(field, Cleaned(field, value))
<1> DEFINE p == Trimmed(Printed(value))
           kept == Text(p)
<1>1. Cleaned(field, value) = kept
  BY DEF Cleaned
<1>2. kept.kind = "text" /\ kept.pieces = p /\ kept # Null /\ Printed(kept) = p
  BY Zenon, TextIs
<1>3. Trimmed(p) = p
  BY Zenon, PrintedTyped, TrimmedStays
<1>4. Matched(field, p)
  BY DEF Accepted
<1>5. Cleaned(field, kept) = Text(Trimmed(Printed(kept)))
  BY DEF Cleaned
<1> HIDE DEF p
<1>6. Cleaned(field, kept) = kept
  BY Zenon, <1>2, <1>3, <1>5
<1> HIDE DEF kept
<1>7. Accepted(field, kept)
  BY <1>2, <1>3, <1>4 DEF Accepted
<1>8. Fits(field, kept)
  BY <1>2, <1>3, <1>4 DEF Fits
<1> QED
  BY Zenon, <1>1, <1>2, <1>6, <1>7, <1>8 DEF Settled

LEMMA ValuesSettle ==
  ASSUME NEW field \in Field, NEW value, IsValue(value), Accepted(field, value)
  PROVE  Settled(field, Cleaned(field, value))
<1>1. field.kind \in {"text", "number", "checkbox", "select", "multiselect", "date"}
  BY DEF Field
<1>2. CASE field.kind = "number"
  BY Zenon, <1>2, NumbersSettle
<1>3. CASE field.kind = "checkbox"
  BY Zenon, <1>3, ChecksSettle
<1>4. CASE field.kind = "multiselect"
  BY Zenon, <1>4, ListsSettle
<1>5. CASE field.kind = "select" \/ field.kind = "date"
  BY Zenon, <1>5, ChoicesSettle
<1>6. CASE field.kind = "text"
  BY Zenon, <1>6, TextsSettle
<1> QED
  BY Zenon, <1>1, <1>2, <1>3, <1>4, <1>5, <1>6

LEMMA MaxIsMost ==
  ASSUME NEW n \in Nat, NEW s \in SUBSET (1..n), s # {}
  PROVE  \A k \in s : Max(s) >= k
<1> DEFINE T == {n - m : m \in s}
<1>1. T \subseteq Nat /\ T # {}
  <2>1. \A m \in s : n - m \in Nat
    OBVIOUS
  <2>2. PICK m \in s : TRUE
    BY Zenon
  <2> QED
    BY <2>1, <2>2
<1>2. PICK t \in T : \A m \in T : t <= m
  BY Zenon, <1>1, LeastOf
<1>3. PICK m \in s : t = n - m
  BY <1>2
<1>4. \A k \in s : m >= k
  BY <1>2, <1>3
<1> QED
  BY Zenon, <1>4 DEF Max

LEMMA LastIs ==
  ASSUME NEW fields \in Seq(Field), NEW key, \E i \in DOMAIN fields : fields[i].key = key
  PROVE  \E i \in DOMAIN fields : /\ LastOf(fields, key) = fields[i] /\ fields[i].key = key
                                  /\ \A j \in DOMAIN fields : j > i => fields[j].key # key
<1> DEFINE S == {i \in DOMAIN fields : fields[i].key = key}
           last == Max(S)
<1>1. Len(fields) \in Nat /\ DOMAIN fields = 1..Len(fields) /\ S \in SUBSET (1..Len(fields)) /\ S # {}
  OBVIOUS
<1>2. last \in S
  BY Zenon, <1>1, MaxIsIn
<1>3. LastOf(fields, key) = fields[last]
  BY Zenon DEF LastOf
<1>4. \A j \in S : last >= j
  BY Zenon, <1>1, MaxIsMost
<1>5. ASSUME NEW j \in DOMAIN fields, j > last
      PROVE  fields[j].key # key
  <2>1. ASSUME fields[j].key = key
        PROVE  FALSE
    <3>1. j \in S
      BY Zenon, <2>1
    <3>2. last >= j
      BY Zenon, <1>4, <3>1
    <3>3. last \in Nat /\ j \in Nat
      <4> HIDE DEF last
      <4> QED
        BY <1>1, <1>2
    <3> HIDE DEF last
    <3> QED
      BY <1>5, <3>2, <3>3
  <2> QED
    BY Zenon, <2>1
<1> HIDE DEF last
<1> QED
  BY Zenon, <1>2, <1>3, <1>5

LEMMA GivenIs ==
  ASSUME NEW data, NEW key
  PROVE  Given(data, key) <=> key \in DOMAIN data /\ data[key] # Null /\ data[key] # Text(NoText)
BY Zenon DEF Given

LEMMA KeptIs ==
  ASSUME NEW fields \in Seq(Field), NEW data, IsData(data), NoProblem(fields, data)
  PROVE  \A key \in DOMAIN Kept(fields, data) :
            \E i \in DOMAIN fields :
               /\ LastOf(fields, key) = fields[i] /\ fields[i].key = key
               /\ \A j \in DOMAIN fields : j > i => fields[j].key # key
               /\ Settled(fields[i], Kept(fields, data)[key])
<1> DEFINE kept == Kept(fields, data)
<1> TAKE key \in DOMAIN kept
<1>1. /\ \E i \in DOMAIN fields : fields[i].key = key
      /\ Given(data, key) /\ kept[key] = Cleaned(LastOf(fields, key), data[key])
  BY Zenon DEF Kept
<1>2. PICK i \in DOMAIN fields :
        /\ LastOf(fields, key) = fields[i] /\ fields[i].key = key
        /\ \A j \in DOMAIN fields : j > i => fields[j].key # key
  BY Zenon, <1>1, LastIs
<1>3. Accepted(fields[i], data[key])
  BY Zenon, <1>1, <1>2 DEF NoProblem
<1>4. IsValue(data[key])
  BY Zenon, <1>1, GivenIs DEF IsData
<1>5. fields[i] \in Field
  BY <1>2
<1>6. Settled(fields[i], Cleaned(fields[i], data[key]))
  BY Zenon, <1>3, <1>4, <1>5, ValuesSettle
<1> QED
  BY Zenon, <1>1, <1>2, <1>6

LEMMA KeptKeys ==
  ASSUME NEW fields, NEW data
  PROVE  \A key : key \in DOMAIN Kept(fields, data) <=>
                     Given(data, key) /\ \E i \in DOMAIN fields : fields[i].key = key
BY Zenon DEF Kept

LEMMA KeptByKeys ==
  \A fields, data : Kept(fields, data) = [key \in DOMAIN Kept(fields, data) |-> Kept(fields, data)[key]]
BY Zenon DEF Kept

LEMMA KeptAgain ==
  ASSUME NEW fields \in Seq(Field), fields # <<>>, NEW data, IsData(data), NoProblem(fields, data),
         Distinct(fields), \A key \in DOMAIN Kept(fields, data) : Kept(fields, data)[key] # Text(NoText)
  PROVE  ValidateFormData(fields, Kept(fields, data)) = {Kept(fields, data)}
<1> DEFINE kept == Kept(fields, data)
<1>1. ASSUME NEW key \in DOMAIN kept
      PROVE  /\ \E i \in DOMAIN fields : LastOf(fields, key) = fields[i] /\ fields[i].key = key
                                         /\ Settled(fields[i], kept[key])
             /\ Given(kept, key)
  <2>1. PICK i \in DOMAIN fields : LastOf(fields, key) = fields[i] /\ fields[i].key = key
                                   /\ Settled(fields[i], kept[key])
    BY Zenon, KeptIs
  <2>2. kept[key] # Null
    BY Zenon, <2>1 DEF Settled
  <2> QED
    BY Zenon, <2>1, <2>2, GivenIs
<1>2. ASSUME NEW i \in DOMAIN fields
      PROVE  IF Given(kept, fields[i].key) THEN Accepted(fields[i], kept[fields[i].key]) ELSE ~fields[i].required
  <2> DEFINE key == fields[i].key
  <2>1. CASE Given(kept, key)
    <3>1. key \in DOMAIN kept
      BY Zenon, <2>1, GivenIs
    <3>2. PICK j \in DOMAIN fields : fields[j].key = key /\ Settled(fields[j], kept[key])
      BY Zenon, <1>1, <3>1
    <3>3. i = j
      BY Zenon, <3>2 DEF Distinct
    <3> QED
      BY Zenon, <2>1, <3>2, <3>3 DEF Settled
  <2>2. CASE ~Given(kept, key)
    <3>1. key \notin DOMAIN kept
      BY Zenon, <1>1, <2>2
    <3>2. ~Given(data, key)
      BY Zenon, <3>1, KeptKeys
    <3> QED
      BY Zenon, <2>2, <3>2 DEF NoProblem
  <2> QED
    BY Zenon, <2>1, <2>2
<1>3. NoProblem(fields, kept)
  BY Zenon, <1>2 DEF NoProblem
<1> DEFINE again == Kept(fields, kept)
<1>4. \A key : key \in DOMAIN again <=> key \in DOMAIN kept
  BY Zenon, <1>1, KeptKeys, GivenIs
<1>5. ASSUME NEW key \in DOMAIN kept
      PROVE  again[key] = kept[key]
  <2>1. key \in DOMAIN again
    BY Zenon, <1>4
  <2>2. again[key] = Cleaned(LastOf(fields, key), kept[key])
    BY Zenon, <2>1 DEF Kept
  <2>3. PICK i \in DOMAIN fields : LastOf(fields, key) = fields[i] /\ Settled(fields[i], kept[key])
    BY Zenon, <1>1
  <2> QED
    BY Zenon, <2>2, <2>3 DEF Settled
<1>6. again = [key \in DOMAIN again |-> again[key]] /\ kept = [key \in DOMAIN kept |-> kept[key]]
  BY Zenon, KeptByKeys
<1>7. DOMAIN again = DOMAIN kept
  BY Zenon, <1>4
<1> HIDE DEF again, kept
<1>8. again = kept
  BY Zenon, <1>5, <1>6, <1>7
<1> QED
  BY Zenon, <1>3, <1>8 DEF ValidateFormData, again, kept

(* What ValidateFormData lets through fits the form, whatever the form and *)
(* the data: a value for the last field of each key and no other, none of  *)
(* those required missing, and stored unchanged when it is saved again.    *)
THEOREM FormsAreKept ==
  ASSUME NEW fields \in Seq(Field), NEW data, IsData(data), NEW answers \in ValidateFormData(fields, data)
  PROVE  FitsForm(fields, answers)
<1> SUFFICES ASSUME fields # <<>>
             PROVE  FitsForm(fields, answers)
  BY Zenon DEF FitsForm
<1>1. NoProblem(fields, data) /\ answers = Kept(fields, data)
  BY Zenon DEF ValidateFormData
<1>2. ASSUME NEW key \in DOMAIN answers
      PROVE  \E i \in DOMAIN fields :
                /\ fields[i].key = key /\ Fits(fields[i], answers[key])
                /\ \A j \in DOMAIN fields : j > i => fields[j].key # key
  <2>1. key \in DOMAIN Kept(fields, data)
    BY Zenon, <1>1
  <2>2. \E i \in DOMAIN fields :
           /\ LastOf(fields, key) = fields[i] /\ fields[i].key = key
           /\ \A j \in DOMAIN fields : j > i => fields[j].key # key
           /\ Settled(fields[i], Kept(fields, data)[key])
    BY Zenon, <1>1, <2>1, KeptIs
  <2> QED
    BY Zenon, <1>1, <2>2 DEF Settled
<1>3. ASSUME NEW i \in DOMAIN fields, fields[i].required
      PROVE  fields[i].key \in DOMAIN answers
  <2>1. Given(data, fields[i].key)
    BY Zenon, <1>1, <1>3 DEF NoProblem
  <2> QED
    BY Zenon, <1>1, <2>1, KeptKeys
<1>4. Distinct(fields) /\ (\A key \in DOMAIN answers : answers[key] # Text(NoText))
      => ValidateFormData(fields, answers) = {answers}
  BY Zenon, <1>1, KeptAgain
<1> QED
  BY Zenon, <1>2, <1>3, <1>4 DEF FitsForm
-----------------------------------------------------------------------------
(* Where the rules send a report.                                          *)

SaysTheSame(places, copy, rs, facts) ==
    /\ Fired(places, copy, facts) = Fired(places, rs, facts)
    /\ \A i \in Fired(places, rs, facts) : copy[places[i]] = rs[places[i]]
    /\ \A o : FirstOutcome(places, copy, facts, o) = FirstOutcome(places, rs, facts, o)

LEMMA SameVerdict ==
  ASSUME NEW P, NEW places \in Seq(P), NEW rs, NEW copy, NEW facts,
         \A i \in DOMAIN places : copy[places[i]] = rs[places[i]]
  PROVE  SaysTheSame(places, copy, rs, facts)
<1>1. Candidates(places, copy, facts) = Candidates(places, rs, facts)
  BY Zenon DEF Candidates
<1> DEFINE C == Candidates(places, rs, facts)
           F == Fired(places, rs, facts)
<1>2. C \subseteq DOMAIN places
  BY Zenon DEF Candidates
<1>3. \A i \in C : copy[places[i]] = rs[places[i]]
  BY Zenon, <1>2
<1> HIDE DEF C
<1>4. /\ Fired(places, copy, facts) = {i \in C : \A j \in C : j < i => copy[places[j]].continue}
      /\ F = {i \in C : \A j \in C : j < i => rs[places[j]].continue}
  BY Zenon, <1>1 DEF Fired, C
<1>5. Fired(places, copy, facts) = F
  BY Zenon, <1>3, <1>4
<1>6. F \subseteq C
  BY Zenon, <1>4
<1>7. \A i \in F : copy[places[i]] = rs[places[i]]
  BY Zenon, <1>3, <1>6
<1>8. F \subseteq Nat
  BY <1>2, <1>6
<1> HIDE DEF F
<1>9. ASSUME NEW o
      PROVE  FirstOutcome(places, copy, facts, o) = FirstOutcome(places, rs, facts, o)
  <2>1. \A i \in F : Said(copy, places, i, o) = Said(rs, places, i, o)
    BY Zenon, <1>7 DEF Said
  <2>2. CASE \A j \in F : Said(rs, places, j, o) = NoOutcome
    <3>1. \A j \in Fired(places, copy, facts) : Said(copy, places, j, o) = NoOutcome
      BY Zenon, <1>5, <2>1, <2>2
    <3>2. FirstOutcome(places, copy, facts, o) = NoOutcome
      BY Zenon, <3>1, FirstIsFirst
    <3>3. FirstOutcome(places, rs, facts, o) = NoOutcome
      BY Zenon, <2>2, FirstIsFirst DEF F
    <3> QED
      BY Zenon, <3>2, <3>3
  <2>3. CASE \E j \in F : Said(rs, places, j, o) # NoOutcome
    <3> DEFINE S == {j \in F : Said(rs, places, j, o) # NoOutcome}
    <3>1. S \subseteq Nat /\ S # {}
      BY <1>8, <2>3
    <3>2. PICK k \in S : \A j \in S : k <= j
      BY Zenon, <3>1, LeastOf
    <3>3. IsFirst(F, rs, places, o, k)
      BY Zenon, <3>2 DEF IsFirst
    <3>4. IsFirst(Fired(places, copy, facts), copy, places, o, k)
      BY Zenon, <1>5, <2>1, <3>2 DEF IsFirst
    <3>5. FirstOutcome(places, rs, facts, o) = Said(rs, places, k, o)
      BY Zenon, <3>3, FirstIsFirst DEF F
    <3>6. FirstOutcome(places, copy, facts, o) = Said(copy, places, k, o)
      BY Zenon, <3>4, FirstIsFirst
    <3> QED
      BY Zenon, <2>1, <3>2, <3>5, <3>6
  <2> QED
    BY Zenon, <2>2, <2>3
<1> QED
  BY Zenon, <1>5, <1>7, <1>9 DEF F, SaysTheSame

(* PlacedByRules, in parts: what the rules say first of an outcome, and    *)
(* the owners they name.                                                   *)
SaidFirst(me, o) == FirstOutcome(Those(Places, DOMAIN me.ruled.rules), me.ruled.rules, me.ruled.facts, o)

Owners(me) == {o \in {"assignee", "system"} : SaidFirst(me, o) # NoOutcome}

OutcomeOf(me, o) == IF SaidFirst(me, o) = NoOutcome THEN me.ruled.placed[o] ELSE SaidFirst(me, o)

RuledTags(me) ==
    UNION {me.ruled.rules[Those(Places, DOMAIN me.ruled.rules)[i]].actions.tags :
              i \in Fired(Those(Places, DOMAIN me.ruled.rules), me.ruled.rules, me.ruled.facts)}

LEMMA PlacedIs ==
  ASSUME NEW me
  PROVE  PlacedByRules(me) <=>
           /\ \A o \in {"queue", "department", "priority", "policy"} \cup Owners(me) : me.placed[o] = OutcomeOf(me, o)
           /\ Owners(me) = {} => /\ me.placed["assignee"] \in ToSet(me.eligible) \cup {NoOutcome}
                                 /\ me.placed["system"] \in Systems \cup {NoOutcome}
                                 /\ NoOutcome \in {me.placed["assignee"], me.placed["system"]}
           /\ me.tags = me.report.tags \cup RuledTags(me)
BY Zenon DEF PlacedByRules, Owners, OutcomeOf, SaidFirst, RuledTags

LEMMA StillPlaced ==
  ASSUME NEW me, PlacedByRules(me), NEW v, v.ruled = me.ruled, v.report = me.report, v.tags = me.tags,
         v.placed = me.placed, v.eligible = me.eligible
  PROVE  PlacedByRules(v)
<1>1. /\ \A o : SaidFirst(v, o) = SaidFirst(me, o) /\ OutcomeOf(v, o) = OutcomeOf(me, o)
      /\ RuledTags(v) = RuledTags(me)
  BY Zenon DEF SaidFirst, OutcomeOf, RuledTags
<1>2. Owners(v) = Owners(me)
  BY Zenon, <1>1 DEF Owners
<1> QED
  BY Zenon, <1>1, <1>2, PlacedIs

(* While no owner is set the rules named none; then one who is eligible    *)
(* may be.                                                                 *)
LEMMA OwnerGiven ==
  ASSUME NEW me, PlacedByRules(me), ~Assigned(me.placed),
         NEW v, v.ruled = me.ruled, v.report = me.report, v.tags = me.tags,
         \A o \in {"queue", "department", "priority", "policy"} : v.placed[o] = me.placed[o],
         v.placed["assignee"] \in ToSet(v.eligible) \cup {NoOutcome},
         v.placed["system"] \in Systems \cup {NoOutcome},
         NoOutcome \in {v.placed["assignee"], v.placed["system"]}
  PROVE  PlacedByRules(v)
<1>1. /\ \A o : SaidFirst(v, o) = SaidFirst(me, o) /\ OutcomeOf(v, o) = OutcomeOf(me, o)
      /\ RuledTags(v) = RuledTags(me)
  BY Zenon DEF SaidFirst, OutcomeOf, RuledTags
<1>2. Owners(v) = Owners(me)
  BY Zenon, <1>1 DEF Owners
<1>3. Owners(me) = {}
  <2>1. ASSUME NEW o \in Owners(me)
        PROVE  FALSE
    <3>1. o \in {"assignee", "system"} /\ SaidFirst(me, o) # NoOutcome
      BY Zenon DEF Owners
    <3>2. me.placed[o] = OutcomeOf(me, o)
      BY Zenon, PlacedIs
    <3>3. me.placed[o] # NoOutcome
      BY Zenon, <3>1, <3>2 DEF OutcomeOf
    <3> QED
      BY Zenon, <3>1, <3>3 DEF Assigned
  <2> QED
    BY Zenon, <2>1
<1>4. /\ \A o \in {"queue", "department", "priority", "policy"} : v.placed[o] = OutcomeOf(v, o)
      /\ v.tags = v.report.tags \cup RuledTags(v)
  BY Zenon, <1>1, PlacedIs
<1> QED
  BY Zenon, <1>2, <1>3, <1>4, PlacedIs

LEMMA RulesPlace ==
  ASSUME DeskOK, NEW v, NEW facts, NEW before,
         v.ruled = [rules |-> [p \in ToSet(ListRules) |-> rules[p]], facts |-> facts, placed |-> before],
         v.placed = ApplyDecision(before, Evaluate(ListRules, rules, facts)),
         v.tags = v.report.tags \cup Evaluate(ListRules, rules, facts).tags,
         before["assignee"] = NoOutcome, before["system"] = NoOutcome
  PROVE  PlacedByRules(v)
<1> DEFINE copy == [p \in ToSet(ListRules) |-> rules[p]]
           places == ListRules
           d == Evaluate(ListRules, rules, facts)
<1>1. v.ruled.rules = copy /\ v.ruled.facts = facts /\ v.ruled.placed = before
  <2>1. v.ruled = [rules |-> copy, facts |-> facts, placed |-> before]
    OBVIOUS
  <2> HIDE DEF copy
  <2> QED
    BY ONLY <2>1
<1>2. /\ places \in Seq(ToSet(Places))
      /\ ToSet(places) = {p \in ToSet(Places) : rules[p] # absent /\ rules[p].active}
  BY Zenon, ListedRules
<1>3. DOMAIN copy = ToSet(places)
  BY Zenon
<1>4. Those(Places, DOMAIN copy) = places
  BY Zenon, <1>2, <1>3 DEF ListRules
<1>5. \A i \in DOMAIN places : copy[places[i]] = rules[places[i]]
  <2>1. \A i \in DOMAIN places : places[i] \in ToSet(places)
    BY DEF ToSet
  <2> QED
    BY Zenon, <2>1
<1> HIDE DEF copy
<1>6. /\ Fired(places, copy, facts) = Fired(places, rules, facts)
      /\ \A i \in Fired(places, rules, facts) : copy[places[i]] = rules[places[i]]
      /\ \A o : FirstOutcome(places, copy, facts, o) = FirstOutcome(places, rules, facts, o)
  <2> HIDE DEF places
  <2>1. SaysTheSame(places, copy, rules, facts)
    BY ONLY Zenon, <1>2, <1>5, SameVerdict
  <2> QED
    BY ONLY Zenon, <2>1 DEF SaysTheSame
<1>7. /\ \A o \in Outcomes : d.outcomes[o] = FirstOutcome(places, rules, facts, o)
      /\ d.tags = UNION {rules[places[i]].actions.tags : i \in Fired(places, rules, facts)}
  BY ONLY <1>2, EvaluateDecides
<1>8. \A o : SaidFirst(v, o) = FirstOutcome(places, rules, facts, o)
  BY Zenon, <1>1, <1>4, <1>6 DEF SaidFirst
<1>9. RuledTags(v) = UNION {copy[places[i]].actions.tags : i \in Fired(places, rules, facts)}
  <2>1. RuledTags(v) = UNION {copy[places[i]].actions.tags : i \in Fired(places, copy, facts)}
    BY Zenon, <1>1, <1>4 DEF RuledTags
  <2> HIDE DEF places
  <2> QED
    BY ONLY Zenon, <1>6, <2>1
<1>10. {copy[places[i]].actions.tags : i \in Fired(places, rules, facts)}
         = {rules[places[i]].actions.tags : i \in Fired(places, rules, facts)}
  BY Zenon, <1>6
<1>11. v.tags = v.report.tags \cup RuledTags(v)
  BY Zenon, <1>7, <1>9, <1>10
<1>12. \A o \in Outcomes : v.placed[o] = OutcomeOf(v, o)
  <2>1. \A o \in Outcomes : ApplyDecision(before, d)[o] = IF d.outcomes[o] = NoOutcome THEN before[o] ELSE d.outcomes[o]
    BY Zenon DEF ApplyDecision
  <2>2. v.placed = ApplyDecision(before, d)
    OBVIOUS
  <2> HIDE DEF d, places
  <2>3. ASSUME NEW o \in Outcomes
        PROVE  v.placed[o] = IF SaidFirst(v, o) = NoOutcome THEN before[o] ELSE SaidFirst(v, o)
    BY ONLY Zenon, <1>7, <1>8, <2>1, <2>2, <2>3
  <2> QED
    BY ONLY Zenon, <1>1, <2>3 DEF OutcomeOf
<1>13. {"queue", "department", "priority", "policy"} \cup Owners(v) \subseteq Outcomes
       /\ "assignee" \in Outcomes /\ "system" \in Outcomes
  BY Zenon DEF Owners, Outcomes
<1>14. ASSUME Owners(v) = {}
       PROVE  v.placed["assignee"] = NoOutcome /\ v.placed["system"] = NoOutcome
  <2>1. SaidFirst(v, "assignee") = NoOutcome /\ SaidFirst(v, "system") = NoOutcome
    BY Zenon, <1>14 DEF Owners
  <2> QED
    BY Zenon, <1>1, <1>12, <1>13, <2>1 DEF OutcomeOf
<1>15. \A o \in {"queue", "department", "priority", "policy"} \cup Owners(v) : v.placed[o] = OutcomeOf(v, o)
  BY Zenon, <1>12, <1>13
<1> QED
  BY Zenon, <1>11, <1>14, <1>15, PlacedIs
-----------------------------------------------------------------------------
(* When a request is due.                                                  *)

KnownHours == Hours \cup {AlwaysOpenCalendar}

LEMMA HoursAreCalendars == \A hours \in KnownHours : IsCalendar(hours)
<1>1. IsCalendar(AlwaysOpenCalendar)
  <2>1. <<>> \in Seq(Window)
    OBVIOUS
  <2>2. /\ AlwaysOpenCalendar.windows = [d \in 0..(Week - 1) |-> <<>>]
        /\ AlwaysOpenCalendar.holidays = {} /\ AlwaysOpenCalendar.alwaysOpen = TRUE
    BY Zenon DEF AlwaysOpenCalendar
  <2>3. AlwaysOpenCalendar.windows \in [0..(Week - 1) -> Seq(Window)]
    BY Zenon, <2>1, <2>2
  <2> QED
    BY Zenon, <2>2, <2>3 DEF IsCalendar
<1> QED
  BY Zenon, <1>1, DeskConstants DEF KnownHours

LEMMA TargetsAre ==
  ASSUME NEW policy \in SavedPolicies, NEW priority
  PROVE  TargetsFor(policy, priority).response \in Int /\ TargetsFor(policy, priority).resolution \in Int
<1>1. PICK form \in PolicyForms : policy = SavedPolicy(form)
  BY Zenon DEF SavedPolicies
<1>2. policy.response = form.response /\ policy.resolution = form.resolution /\ policy.overrides = form.overrides
  <2>1. DOMAIN form = {"response", "resolution", "warnAt", "calendar", "overrides"}
    BY Zenon, <1>1, DeskConstants
  <2> QED
    BY <1>1, <2>1 DEF SavedPolicy
<1>3. /\ policy.response \in Int /\ policy.resolution \in Int
      /\ \A p \in DOMAIN policy.overrides :
            policy.overrides[p].response \in Int /\ policy.overrides[p].resolution \in Int
  BY Zenon, <1>1, <1>2, DeskConstants
<1> DEFINE over == IF priority \in DOMAIN policy.overrides THEN policy.overrides[priority]
                   ELSE [response |-> NoTarget, resolution |-> NoTarget]
<1>4. over.response \in Int /\ over.resolution \in Int
  <2>1. NoTarget \in Int
    BY DEF NoTarget
  <2> QED
    BY Zenon, <1>3, <2>1
<1> DEFINE response == IF over.response = NoTarget THEN policy.response ELSE over.response
           resolution == IF over.resolution = NoTarget THEN policy.resolution ELSE over.resolution
<1>5. TargetsFor(policy, priority) = [response |-> response, resolution |-> resolution]
  BY Zenon DEF TargetsFor
<1> HIDE DEF over
<1>6. response \in Int /\ resolution \in Int
  BY Zenon, <1>3, <1>4
<1> HIDE DEF response, resolution
<1> QED
  BY <1>5, <1>6

LEMMA DueIs ==
  ASSUME NEW me, me.policy \in SavedPolicies, me.hours \in KnownHours, me.report.at \in Nat
  PROVE  DueInOpenHours(me, Due(me))
<1> DEFINE cal == me.hours
           at == me.report.at
           wanted == TargetsFor(me.policy, me.placed["priority"])
<1> SUFFICES ASSUME Orderly(cal)
             PROVE  DueInOpenHours(me, Due(me))
  BY Zenon DEF DueInOpenHours
<1>1. wanted.response \in Int /\ wanted.resolution \in Int
  BY Zenon, TargetsAre
<1>2. me.policy # absent
  BY Zenon, Apart
<1>3. Due(me).responseDue = Add(cal, at, wanted.response) /\ Due(me).due = Add(cal, at, wanted.resolution)
  BY Zenon, <1>2 DEF Due, ComputeTargets
<1>4. IsCalendar(cal)
  BY Zenon, HoursAreCalendars
<1>5. /\ Arrives(cal, at, wanted.response, Due(me).responseDue)
      /\ Arrives(cal, at, wanted.resolution, Due(me).due)
  BY Zenon, <1>1, <1>3, <1>4, AddArrives
<1> QED
  BY Zenon, <1>5 DEF DueInOpenHours
-----------------------------------------------------------------------------
(* The inductive invariant of RequestsFollowTheRules.  A row keeps what    *)
(* the property says of it; what it says was true of the submission before *)
(* it was inserted, in as much as its place in Create had got that far.    *)

RowFields == {"service", "placed", "tags", "targets", "fields", "answers", "version", "open", "notice", "filed"}

RowFits(row) ==
    /\ row = [k \in RowFields |-> row[k]]
    /\ row.service \in Services
    /\ PlacedByRules(row.filed)
    /\ row.filed.policy # absent => DueInOpenHours(row.filed, row.targets)
    /\ FitsForm(row.fields, row.answers)

RowsOK == /\ requests = [r \in Requests |-> requests[r]]
          /\ \A r \in Requests : requests[r] = absent \/ RowFits(requests[r])

ShownFits(row, list) ==
    /\ row.filed.shown \in {0} \cup 1..Len(list)
    /\ \/ row.notice = NoNotice \/ row.filed.shown = 0
       \/ row.notice = [id |-> row.filed.shown, body |-> list[row.filed.shown].body]

ShownOK == \A r \in Requests : requests[r] = absent \/ ShownFits(requests[r], notices)

UpdateFits(call, reqs) ==
    call.op = "Update" => /\ call.id \in Requests /\ reqs[call.id] # absent
                          /\ FitsForm(call.fields, call.answers)

UpdatesOK == \A h \in Handlers : UpdateFits(edit[h], requests)

FiledFits(at) ==
    /\ at.report.at \in Nat /\ IsData(at.report.answers)
    /\ at.pc # "read" => FitsForm(at.fields, at.answers)
    /\ at.pc = "route" => /\ at.placed["assignee"] = NoOutcome /\ at.placed["system"] = NoOutcome
                          /\ at.tags = at.report.tags
    /\ at.pc \notin {"read", "route"} => PlacedByRules(at)
    /\ at.pc \in {"queue", "turn", "loads"} => ~Assigned(at.placed)
    /\ at.pc \in {"read", "route", "queue", "turn", "loads", "policy"} => at.policy = absent
    /\ at.pc = "insert" => at.policy = absent \/ (at.policy \in SavedPolicies /\ at.hours \in KnownHours)

FiledShown(at, list, reqs) ==
    /\ at.shown \in {0} \cup 1..Len(list)
    /\ at.pc = "notice" => /\ at.row \in Requests /\ reqs[at.row] # absent
                           /\ reqs[at.row].filed.shown = at.shown

FiledOK == \A f \in Filers : filing[f] = idle \/ (FiledFits(filing[f]) /\ FiledShown(filing[f], notices, requests))

RulesInv == TypeInv /\ RowsOK /\ ShownOK /\ UpdatesOK /\ FiledOK

(* A list of notices only gets longer, and no wording in it changes.       *)
Grown(list, more) ==
    /\ Len(list) \in Nat /\ Len(more) \in Nat /\ Len(list) <= Len(more)
    /\ \A i \in 1..Len(list) : more[i].body = list[i].body

LEMMA NoticesGrow ==
  ASSUME EditsOK, CatalogueOK, [Next]_vars
  PROVE  Grown(notices, notices')
<1>1. notices \in Seq(Notice) /\ Len(notices) \in Nat
  BY DEF CatalogueOK
<1>2. CASE notices' = notices
  BY <1>1, <1>2 DEF Grown
<1>3. ASSUME NEW h \in Handlers, CommitStep(h)
      PROVE  Grown(notices, notices')
  <2>1. CASE PublishNotice(h)
    <3>1. /\ Len(notices') = Len(notices) + 1
          /\ \A i \in 1..Len(notices) : notices'[i] = IF notices[i].scope = edit[h].scope
                                        THEN [notices[i] EXCEPT !.superseded = TRUE] ELSE notices[i]
      BY Zenon, <2>1, PublishedAre
    <3>2. ASSUME NEW i \in 1..Len(notices)
          PROVE  notices'[i].body = notices[i].body
      <4>1. notices[i] \in Notice
        BY <1>1
      <4>2. [notices[i] EXCEPT !.superseded = TRUE].body = notices[i].body
        BY <4>1 DEF Notice
      <4> QED
        BY Zenon, <3>1, <4>2
    <3>3. Len(notices') \in Nat /\ Len(notices) <= Len(notices')
      BY <1>1, <3>1
    <3> QED
      BY <1>1, <3>2, <3>3 DEF Grown
  <2>2. CASE WriteCategory(h) \/ RemoveCategory(h) \/ WriteServiceType(h) \/ Archive(h) \/ RemoveServiceType(h) \/ Promote(h)
    BY <1>2, <2>2 DEF WriteCategory, RemoveCategory, WriteServiceType, Archive, RemoveServiceType, Promote
  <2> QED
    BY <1>3, <2>1, <2>2 DEF CommitStep
<1>4. ASSUME NEW h \in Handlers, NEW v, GoesOn(h, v)
      PROVE  notices' = notices
  BY <1>4 DEF GoesOn, Quiet, tables
<1>5. ASSUME Aside \/ Lost
      PROVE  notices' = notices
  BY <1>5 DEF Aside, Lost, tables
<1> QED
  BY <1>2, <1>3, <1>4, <1>5, CatalogueSide

LEMMA ShownStays ==
  ASSUME NEW row, NEW list, NEW more, Grown(list, more), ShownFits(row, list)
  PROVE  ShownFits(row, more)
<1> DEFINE shown == row.filed.shown
<1>1. shown = 0 \/ shown \in 1..Len(list)
  BY DEF ShownFits
<1>2. CASE shown = 0
  BY <1>2 DEF ShownFits
<1>3. CASE shown \in 1..Len(list)
  <2>1. shown \in 1..Len(more) /\ more[shown].body = list[shown].body
    <3> HIDE DEF shown
    <3> QED
      BY <1>3 DEF Grown
  <2> QED
    BY Zenon, <2>1 DEF ShownFits
<1> QED
  BY <1>1, <1>2, <1>3

LEMMA RowIsThere ==
  ASSUME NEW row, RowFits(row)
  PROVE  row # absent
<1>1. DOMAIN row = RowFields
  <2>1. row = [k \in RowFields |-> row[k]]
    BY DEF RowFits
  <2> QED
    BY Zenon, <2>1
<1>2. DOMAIN absent = {"none"} /\ "service" \in RowFields
  BY DEF absent, RowFields
<1> QED
  BY <1>1, <1>2

(* One row is written, or none: what was filed there stays.                *)
RowGoes(r, v) ==
    /\ requests' = [requests EXCEPT ![r] = v]
    /\ RowFits(v) /\ ShownFits(v, notices)
    /\ requests[r] = absent \/ v.filed = requests[r].filed

RequestsMove == requests' = requests \/ \E r \in Requests : \E v : RowGoes(r, v)

(* A list of rows as it may be later.                                      *)
Onward(reqs, more) ==
    \A r \in Requests : reqs[r] # absent => more[r] # absent /\ more[r].filed = reqs[r].filed

LEMMA RowsMove ==
  ASSUME RowsOK, ShownOK, RequestsMove, Grown(notices, notices')
  PROVE  RowsOK' /\ ShownOK' /\ Onward(requests, requests')
<1>1. CASE requests' = requests
  <2>1. RowsOK' /\ Onward(requests, requests')
    BY Zenon, <1>1 DEF RowsOK, Onward
  <2>2. ShownOK'
    BY Zenon, <1>1, ShownStays DEF ShownOK
  <2> QED
    BY <2>1, <2>2
<1>2. ASSUME NEW r \in Requests, NEW v, RowGoes(r, v)
      PROVE  RowsOK' /\ ShownOK' /\ Onward(requests, requests')
  <2>1. requests = [x \in Requests |-> requests[x]] /\ requests' = [requests EXCEPT ![r] = v]
    BY <1>2 DEF RowsOK, RowGoes
  <2>2. \A x \in Requests : requests'[x] = IF x = r THEN v ELSE requests[x]
    BY <2>1
  <2>3. requests' = [x \in Requests |-> requests'[x]]
    BY <2>1
  <2>4. RowFits(v) /\ v # absent /\ ShownFits(v, notices)
    BY Zenon, <1>2, RowIsThere DEF RowGoes
  <2>5. RowsOK'
    BY Zenon, <2>2, <2>3, <2>4 DEF RowsOK
  <2>6. ShownOK'
    BY Zenon, <2>2, <2>4, ShownStays DEF ShownOK
  <2>7. Onward(requests, requests')
    BY Zenon, <1>2, <2>2, <2>4 DEF Onward, RowGoes
  <2> QED
    BY <2>5, <2>6, <2>7
<1> QED
  BY Zenon, <1>1, <1>2 DEF RequestsMove

LEMMA UpdateStays ==
  ASSUME NEW call, NEW reqs, NEW more, Onward(reqs, more), UpdateFits(call, reqs)
  PROVE  UpdateFits(call, more)
BY Zenon DEF UpdateFits, Onward

LEMMA FiledStays ==
  ASSUME NEW at, NEW list, NEW longer, Grown(list, longer), NEW reqs, NEW more, Onward(reqs, more),
         FiledShown(at, list, reqs)
  PROVE  FiledShown(at, longer, more)
<1> DEFINE shown == at.shown
<1>1. shown \in {0} \cup 1..Len(longer)
  <2>1. shown \in {0} \cup 1..Len(list)
    BY DEF FiledShown
  <2> HIDE DEF shown
  <2> QED
    BY <2>1 DEF Grown
<1> QED
  BY Zenon, <1>1 DEF FiledShown, Onward
-----------------------------------------------------------------------------
(* Calls of the console: only an Update keeps an answer to be written.     *)

Notes(h, v) == edit' = [edit EXCEPT ![h] = v] /\ v.op # "Update"

LEMMA CallsAreNoUpdates ==
  ASSUME NEW at \in CatalogueCalls \cup {idle}
  PROVE  at.op # "Update"
<1>1. idle.op = "idle"
  BY Apart
<1> QED
  BY <1>1 DEF CatalogueCalls, CategoryCalls, CategoryCallRows, RemovalCalls, ServiceCalls, WithdrawalCalls, FrontCalls,
              NoticeCalls

LEMMA CataloguedNotes ==
  ASSUME EditsOK, CatalogueOK, NEW h \in Handlers, Catalogued(h)
  PROVE  requests' = requests /\ \E v : Notes(h, v)
<1>1. ASSUME NEW v \in CatalogueCalls, Quiet(h, v)
      PROVE  \E w : Notes(h, w)
  BY Zenon, <1>1, CallsAreNoUpdates DEF Notes, Quiet
<1>2. ASSUME NEW s \in Services, NEW form \in load.forms, SaveServiceType(h, s, form)
      PROVE  requests' = requests /\ \E v : Notes(h, v)
  <2>1. requests' = requests
    BY <1>2 DEF SaveServiceType, Begin
  <2>2. Quiet(h, ServiceCall(s, form)) /\ ServiceCall(s, form) \in CatalogueCalls
    BY Zenon, <1>2, SaveServiceBegins DEF CatalogueCalls
  <2> QED
    BY Zenon, <1>1, <2>1, <2>2
<1>3. ASSUME NEW s \in Services, DeleteServiceType(h, s)
      PROVE  requests' = requests /\ \E v : Notes(h, v)
  <2>1. requests' = requests
    BY <1>3 DEF DeleteServiceType, Begin
  <2>2. Quiet(h, WithdrawalCall(s)) /\ WithdrawalCall(s) \in CatalogueCalls
    BY Zenon, <1>3, DeleteServiceBegins DEF CatalogueCalls
  <2> QED
    BY Zenon, <1>1, <2>1, <2>2
<1>4. ASSUME NEW list \in load.lists, SetPromoted(h, list)
      PROVE  requests' = requests /\ \E v : Notes(h, v)
  <2>1. requests' = requests
    BY <1>4 DEF SetPromoted, Begin
  <2>2. Quiet(h, FrontCall(list)) /\ FrontCall(list) \in CatalogueCalls
    BY Zenon, <1>4, SetPromotedBegins DEF CatalogueCalls
  <2> QED
    BY Zenon, <1>1, <2>1, <2>2
<1>5. ASSUME NEW scope \in Services \cup {None}, NEW body \in Bodies, SaveCollectionNotice(h, scope, body)
      PROVE  requests' = requests /\ \E v : Notes(h, v)
  <2>1. requests' = requests
    BY <1>5 DEF SaveCollectionNotice, Begin
  <2>2. PICK previous \in IF InScope(scope) = {} THEN {absent} ELSE {notices[i] : i \in Latest(scope)} :
           /\ Quiet(h, NoticeCall(scope, body, previous))
           /\ NoticeCall(scope, body, previous) \in NoticeCalls
    BY <1>5, SaveNoticeBegins
  <2>3. NoticeCall(scope, body, previous) \in CatalogueCalls
    BY Zenon, <2>2 DEF CatalogueCalls
  <2> QED
    BY Zenon, <1>1, <2>1, <2>2, <2>3
<1>6. ASSUME NEW c \in Categories, NEW row \in Category, SaveCategory(h, c, row)
      PROVE  requests' = requests /\ \E v : Notes(h, v)
  <2>1. requests' = requests
    BY <1>6 DEF SaveCategory, Begin
  <2>2. Quiet(h, CategoryCall(c, row)) /\ CategoryCall(c, row) \in CatalogueCalls
    BY Zenon, <1>6, SaveCategoryBegins DEF CatalogueCalls
  <2> QED
    BY Zenon, <1>1, <2>1, <2>2
<1>7. ASSUME NEW c \in Categories, DeleteCategory(h, c)
      PROVE  requests' = requests /\ \E v : Notes(h, v)
  <2>1. requests' = requests
    BY <1>7 DEF DeleteCategory, Begin
  <2>2. Quiet(h, RemovalCall(c)) /\ RemovalCall(c) \in CatalogueCalls
    BY Zenon, <1>7, DeleteCategoryBegins DEF CatalogueCalls
  <2> QED
    BY Zenon, <1>1, <2>1, <2>2
<1> QED
  BY <1>2, <1>3, <1>4, <1>5, <1>6, <1>7 DEF Catalogued, ServiceEdits, NoticeEdits, CategoryEdits

LEMMA StepNotes ==
  ASSUME EditsOK, CatalogueOK, NEW h \in Handlers, CatalogueStep(h)
  PROVE  requests' = requests /\ \E v : Notes(h, v)
<1>1. ASSUME NEW v \in CatalogueCalls \cup {idle}, Quiet(h, v)
      PROVE  \E w : Notes(h, w)
  BY Zenon, <1>1, CallsAreNoUpdates DEF Notes, Quiet
<1>2. CASE CommitStep(h)
  <2>1. Done(h) /\ idle.op # "Update"
    BY Zenon, <1>2, CommitsAreDone, CallsAreNoUpdates
  <2> QED
    BY <2>1 DEF Done, Notes
<1>3. CASE Walk(h)
  <2>1. requests' = requests
    BY <1>3 DEF Walk, Refuse, Goto
  <2>2. Quiet(h, idle) \/ \E v \in CategoryCalls : Quiet(h, v)
    BY Zenon, <1>3, WalkGoesOn
  <2> QED
    BY Zenon, <1>1, <2>1, <2>2 DEF CatalogueCalls
<1>4. CASE ReadExisting(h)
  <2>1. requests' = requests
    BY <1>4 DEF ReadExisting, Refuse, Goto
  <2>2. Quiet(h, idle) \/ \E v \in CategoryCalls : Quiet(h, v)
    BY Zenon, <1>4, ExistingGoesOn
  <2> QED
    BY Zenon, <1>1, <2>1, <2>2 DEF CatalogueCalls
<1>5. CASE CountServices(h) \/ CountChildren(h)
  <2>1. requests' = requests
    BY <1>5 DEF CountServices, CountChildren, Refuse, Goto
  <2>2. \/ Quiet(h, idle)
        \/ \E pc \in {"children", "remove"} :
              [edit[h] EXCEPT !.pc = pc] \in RemovalCalls /\ Quiet(h, [edit[h] EXCEPT !.pc = pc])
    BY Zenon, <1>5, CountsGoOn
  <2> QED
    BY Zenon, <1>1, <2>1, <2>2 DEF CatalogueCalls
<1>6. CASE ReadCurrent(h)
  <2>1. requests' = requests
    BY <1>6 DEF ReadCurrent
  <2>2. \E v \in ServiceCalls : Quiet(h, v)
    BY Zenon, <1>6, CurrentGoesOn
  <2> QED
    BY Zenon, <1>1, <2>1, <2>2 DEF CatalogueCalls
<1> QED
  BY <1>2, <1>3, <1>4, <1>5, <1>6 DEF CatalogueStep, CommitStep

LEMMA DeskNotes ==
  ASSUME NEW h \in Handlers, DeskEdits(h)
  PROVE  /\ requests' = requests /\ filing' = filing
         /\ edit' = edit \/ \E v : Notes(h, v)
<1>1. CASE RuleEdits(h)
  BY <1>1 DEF DeskEdits, RuleEdits, SaveRule, DeleteRule, DeskEdit
<1>2. CASE QueueEdits(h)
  <2>1. ASSUME NEW q \in Queues, DeleteQueue(h, q)
        PROVE  requests' = requests /\ \E v : Notes(h, v)
    <3>1. edit' = [edit EXCEPT ![h] = [op |-> "DeleteQueue", id |-> q]] /\ requests' = requests
      BY <2>1 DEF DeleteQueue, DeskEdit
    <3>2. [op |-> "DeleteQueue", id |-> q].op # "Update"
      OBVIOUS
    <3> QED
      BY Zenon, <3>1, <3>2 DEF Notes
  <2>2. ASSUME NEW q, NEW form, SaveQueue(h, q, form)
        PROVE  requests' = requests /\ edit' = edit
    BY <2>2 DEF SaveQueue, DeskEdit
  <2>3. ASSUME NEW q, NEW members, SetQueueMembers(h, q, members)
        PROVE  requests' = requests /\ edit' = edit
    BY <2>3 DEF SetQueueMembers, DeskEdit
  <2> QED
    BY <1>2, <2>1, <2>2, <2>3 DEF QueueEdits, DeskEdits
<1>3. CASE PolicyEdits(h)
  <2>1. ASSUME NEW p, NEW form, SaveSLAPolicy(h, p, form)
        PROVE  requests' = requests /\ edit' = edit
    BY <2>1 DEF SaveSLAPolicy, DeskEdit
  <2>2. ASSUME NEW k, NEW row, SaveCalendar(h, k, row)
        PROVE  requests' = requests /\ \E v : Notes(h, v)
    <3>1. edit' = [edit EXCEPT ![h] = [op |-> "SaveCalendar", id |-> k]] /\ requests' = requests
      BY <2>2 DEF SaveCalendar, DeskEdit
    <3>2. [op |-> "SaveCalendar", id |-> k].op # "Update"
      OBVIOUS
    <3> QED
      BY Zenon, <3>1, <3>2 DEF Notes
  <2> QED
    BY <1>3, <2>1, <2>2 DEF PolicyEdits, DeskEdits
<1>4. ASSUME NEW u, ChangeStatus(h, u)
      PROVE  requests' = requests /\ edit' = edit
  BY <1>4 DEF ChangeStatus, DeskEdit
<1>5. CASE DeskStep(h)
  <2>1. edit' = [edit EXCEPT ![h] = idle] /\ requests' = requests
    BY <1>5 DEF DeskStep, RemoveQueue, DropCalendar, Resumes
  <2>2. idle.op # "Update"
    BY Apart
  <2> QED
    BY <2>1, <2>2 DEF Notes, DeskEdits
<1> QED
  BY <1>1, <1>2, <1>3, <1>4, <1>5 DEF DeskEdits, Desked

EditsGo ==
    \/ edit' = edit \/ edit' = [h \in Handlers |-> idle]
    \/ \E h \in Handlers : \E v : edit' = [edit EXCEPT ![h] = v] /\ UpdateFits(v, requests)

LEMMA NotesGo ==
  ASSUME NEW h \in Handlers, NEW v, Notes(h, v)
  PROVE  EditsGo
BY Zenon DEF Notes, EditsGo, UpdateFits

LEMMA UpdatesMove ==
  ASSUME EditsOK, UpdatesOK, EditsGo, Onward(requests, requests')
  PROVE  UpdatesOK'
<1>1. CASE edit' = edit
  BY Zenon, <1>1, UpdateStays DEF UpdatesOK
<1>2. CASE edit' = [h \in Handlers |-> idle]
  <2>1. \A h \in Handlers : edit'[h].op # "Update"
    BY <1>2, Apart
  <2> QED
    BY Zenon, <2>1 DEF UpdatesOK, UpdateFits
<1>3. ASSUME NEW h \in Handlers, NEW v, edit' = [edit EXCEPT ![h] = v], UpdateFits(v, requests)
      PROVE  UpdatesOK'
  <2>1. edit = [g \in Handlers |-> edit[g]]
    BY DEF EditsOK
  <2>2. \A g \in Handlers : edit'[g] = IF g = h THEN v ELSE edit[g]
    BY <1>3, <2>1
  <2> QED
    BY Zenon, <1>3, <2>2, UpdateStays DEF UpdatesOK
<1> QED
  BY Zenon, <1>1, <1>2, <1>3 DEF EditsGo

LEMMA FieldsAre ==
  ASSUME CatalogueOK, NEW s \in Services, services[s] # absent
  PROVE  services[s].form.fields \in Seq(Field)
BY DEF CatalogueOK, Service, Form

LEMMA UpdateBegins ==
  ASSUME CatalogueOK, RowsOK, NEW h \in Handlers, NEW r \in Requests, NEW data \in load.data, Update(h, r, data)
  PROVE  requests' = requests /\ EditsGo
<1> DEFINE s == requests[r].service
           fields == IF services[s] = absent THEN <<>> ELSE services[s].form.fields
<1>1. PICK answers \in ValidateFormData(fields, data) :
        Begin(h, [op |-> "Update", pc |-> "write", id |-> r, version |-> requests[r].version,
                  fields |-> fields, answers |-> answers])
  BY Zenon DEF Update
<1>2. requests[r] # absent
  BY DEF Update
<1>3. s \in Services
  BY Zenon, <1>2 DEF RowsOK, RowFits
<1>4. fields \in Seq(Field)
  <2>1. <<>> \in Seq(Field)
    OBVIOUS
  <2> QED
    BY Zenon, <1>3, <2>1, FieldsAre
<1>5. IsData(data)
  BY Zenon, TriageConstants DEF CatalogueOK
<1> HIDE DEF fields
<1>6. FitsForm(fields, answers)
  BY Zenon, <1>1, <1>4, <1>5, FormsAreKept
<1> DEFINE call == [op |-> "Update", pc |-> "write", id |-> r, version |-> requests[r].version,
                    fields |-> fields, answers |-> answers]
<1>7. call.op = "Update" /\ call.id = r /\ call.fields = fields /\ call.answers = answers
  BY Zenon
<1>8. edit' = [edit EXCEPT ![h] = call] /\ requests' = requests
  BY Zenon, <1>1 DEF Begin
<1> HIDE DEF call
<1>9. UpdateFits(call, requests)
  BY Zenon, <1>2, <1>6, <1>7 DEF UpdateFits
<1> QED
  BY Zenon, <1>8, <1>9 DEF EditsGo

LEMMA RowChanged ==
  ASSUME NEW row, RowFits(row), NEW list, ShownFits(row, list),
         NEW v, v = [k \in RowFields |-> v[k]], v.service = row.service, v.filed = row.filed, v.targets = row.targets,
         v.notice = row.notice, FitsForm(v.fields, v.answers)
  PROVE  RowFits(v) /\ ShownFits(v, list)
BY Zenon DEF RowFits, ShownFits

LEMMA UpdateWrites ==
  ASSUME EditsOK, RowsOK, ShownOK, UpdatesOK, NEW h \in Handlers, WriteUpdate(h)
  PROVE  RequestsMove /\ EditsGo
<1> DEFINE call == edit[h]
           id == call.id
           row == requests[id]
           v == [row EXCEPT !.fields = call.fields, !.answers = call.answers, !.version = call.version + 1]
<1>1. edit' = [edit EXCEPT ![h] = idle]
  BY Zenon DEF WriteUpdate
<1>2. EditsGo
  <2>1. idle.op # "Update"
    BY Apart
  <2> QED
    BY Zenon, <1>1, <2>1, NotesGo DEF Notes
<1>3. id \in Requests /\ row # absent /\ FitsForm(call.fields, call.answers)
  BY Zenon DEF UpdatesOK, UpdateFits, WriteUpdate, At
<1>4. RowFits(row) /\ ShownFits(row, notices) /\ row = [k \in RowFields |-> row[k]]
  BY Zenon, <1>3 DEF RowsOK, ShownOK, RowFits
<1>5. requests' = requests \/ requests' = [requests EXCEPT ![id] = v]
  <2>1. \/ requests' = requests
        \/ requests' = [requests EXCEPT ![call.id].fields = call.fields, ![call.id].answers = call.answers,
                                        ![call.id].version = call.version + 1]
    BY Zenon DEF WriteUpdate
  <2>2. requests = [r \in Requests |-> requests[r]]
    BY DEF RowsOK
  <2> QED
    BY Zenon, <1>3, <1>4, <2>1, <2>2 DEF RowFields
<1>6. /\ v = [k \in RowFields |-> v[k]] /\ v.fields = call.fields /\ v.answers = call.answers
      /\ v.service = row.service /\ v.filed = row.filed /\ v.targets = row.targets /\ v.notice = row.notice
  BY Zenon, <1>4 DEF RowFields
<1> HIDE DEF v
<1>7. RowFits(v) /\ ShownFits(v, notices)
  <2>1. FitsForm(v.fields, v.answers)
    BY Zenon, <1>3, <1>6
  <2> HIDE DEF row
  <2> QED
    BY Zenon, <1>4, <1>6, <2>1, RowChanged
<1>8. requests' = requests \/ RowGoes(id, v)
  BY Zenon, <1>5, <1>6, <1>7 DEF RowGoes
<1> QED
  BY Zenon, <1>2, <1>3, <1>8 DEF RequestsMove

LEMMA CloseWrites ==
  ASSUME RowsOK, ShownOK, NEW r \in Requests, CloseRequest(r)
  PROVE  RequestsMove /\ edit' = edit /\ filing' = filing
<1> DEFINE row == requests[r]
           v == [row EXCEPT !.open = FALSE, !.version = @ + 1]
<1>1. edit' = edit /\ filing' = filing /\ row # absent
  BY Zenon DEF CloseRequest, Outside
<1>2. RowFits(row) /\ ShownFits(row, notices) /\ row = [k \in RowFields |-> row[k]] /\ FitsForm(row.fields, row.answers)
  BY Zenon, <1>1 DEF RowsOK, ShownOK, RowFits
<1>3. requests' = [requests EXCEPT ![r] = v]
  <2>1. requests' = [requests EXCEPT ![r].open = FALSE, ![r].version = @ + 1]
    BY Zenon DEF CloseRequest
  <2>2. requests = [x \in Requests |-> requests[x]]
    BY DEF RowsOK
  <2> QED
    BY Zenon, <1>2, <2>1, <2>2 DEF RowFields
<1>4. /\ v = [k \in RowFields |-> v[k]] /\ v.fields = row.fields /\ v.answers = row.answers
      /\ v.service = row.service /\ v.filed = row.filed /\ v.targets = row.targets /\ v.notice = row.notice
  BY Zenon, <1>2 DEF RowFields
<1> HIDE DEF v
<1>5. RowFits(v) /\ ShownFits(v, notices)
  <2>1. FitsForm(v.fields, v.answers)
    BY Zenon, <1>2, <1>4
  <2> HIDE DEF row
  <2> QED
    BY Zenon, <1>2, <1>4, <2>1, RowChanged
<1>6. RowGoes(r, v)
  BY Zenon, <1>3, <1>4, <1>5 DEF RowGoes
<1> QED
  BY Zenon, <1>1, <1>6 DEF RequestsMove
-----------------------------------------------------------------------------
(* Submissions, step by step.                                              *)

FilingGoes(f, v) ==
    /\ filing' = [filing EXCEPT ![f] = v]
    /\ v = idle \/ (FiledFits(v) /\ FiledShown(v, notices, requests'))

FilingGo ==
    \/ filing' = filing \/ filing' = [f \in Filers |-> idle]
    \/ \E f \in Filers : \E v : FilingGoes(f, v)

LEMMA FilingMoves ==
  ASSUME FilingsOK, FiledOK, FilingGo, Grown(notices, notices'), Onward(requests, requests')
  PROVE  FiledOK'
<1>1. CASE filing' = filing
  BY Zenon, <1>1, FiledStays DEF FiledOK
<1>2. CASE filing' = [f \in Filers |-> idle]
  BY <1>2 DEF FiledOK
<1>3. ASSUME NEW f \in Filers, NEW v, FilingGoes(f, v)
      PROVE  FiledOK'
  <2>1. filing = [g \in Filers |-> filing[g]] /\ filing' = [filing EXCEPT ![f] = v]
    BY <1>3 DEF FilingsOK, FilingGoes
  <2>2. \A g \in Filers : filing'[g] = IF g = f THEN v ELSE filing[g]
    BY <2>1
  <2>3. Onward(requests', requests')
    BY Zenon DEF Onward
  <2>4. v = idle \/ (FiledFits(v) /\ FiledShown(v, notices', requests'))
    BY Zenon, <1>3, <2>3, FiledStays DEF FilingGoes
  <2>5. ASSUME NEW g \in Filers
        PROVE  filing'[g] = idle \/ (FiledFits(filing'[g]) /\ FiledShown(filing'[g], notices', requests'))
    <3>1. CASE g = f
      BY Zenon, <2>2, <2>4, <3>1
    <3>2. CASE g # f
      <4>1. filing'[g] = filing[g]
        BY Zenon, <2>2, <3>2
      <4> QED
        BY Zenon, <4>1, FiledStays DEF FiledOK
    <3> QED
      BY <3>1, <3>2
  <2> QED
    BY Zenon, <2>5 DEF FiledOK
<1> QED
  BY Zenon, <1>1, <1>2, <1>3 DEF FilingGo

(* A step on the way to the insert.                                        *)
LEMMA OnTheWay ==
  ASSUME FiledOK, NEW f \in Filers, filing[f] # idle, NEW v, filing' = [filing EXCEPT ![f] = v],
         v.shown = filing[f].shown, v.pc # "notice", FiledFits(v)
  PROVE  FilingGo
BY Zenon DEF FilingGo, FilingGoes, FiledOK, FiledShown

LEMMA StopsAreFine ==
  ASSUME NEW f \in Filers, Stops(f)
  PROVE  FilingGo
BY Zenon DEF FilingGo, FilingGoes, Stops

(* Past the rules, what was ruled and read of the form stays.              *)
LEMMA PastTheRules ==
  ASSUME NEW at, FiledFits(at), at.pc \notin {"read", "route"},
         NEW v, v.report = at.report, v.fields = at.fields, v.answers = at.answers, PlacedByRules(v),
         v.pc \notin {"read", "route"},
         v.pc \in {"queue", "turn", "loads"} => ~Assigned(v.placed),
         v.pc \in {"queue", "turn", "loads", "policy"} => v.policy = absent,
         v.pc = "insert" => v.policy = absent \/ (v.policy \in SavedPolicies /\ v.hours \in KnownHours)
  PROVE  FiledFits(v)
BY Zenon DEF FiledFits

(* A step that only goes on.                                               *)
LEMMA GoesStraightOn ==
  ASSUME FilingsOK, FiledOK, NEW f \in Filers, filing[f] # idle, filing[f].pc \notin {"read", "route"},
         NEW pc \in {"policy", "insert", "rows"}, Now(f, pc),
         pc = "policy" => filing[f].policy = absent,
         pc = "insert" => filing[f].policy = absent \/ (filing[f].policy \in SavedPolicies /\ filing[f].hours \in KnownHours)
  PROVE  FilingGo
<1> DEFINE at == filing[f]
           v == [at EXCEPT !.pc = pc]
<1>1. filing' = [filing EXCEPT ![f] = v]
  BY DEF Now, FilingsOK
<1>2. at = [k \in FilingFields |-> at[k]] /\ FiledFits(at) /\ PlacedByRules(at)
  BY Zenon, FilingIs DEF FiledOK, FiledFits
<1>3. /\ v.pc = pc /\ v.report = at.report /\ v.placed = at.placed /\ v.policy = at.policy /\ v.hours = at.hours
      /\ v.fields = at.fields /\ v.answers = at.answers /\ v.ruled = at.ruled /\ v.tags = at.tags
      /\ v.eligible = at.eligible /\ v.shown = at.shown
  BY Zenon, <1>2 DEF FilingFields
<1>4. pc \notin {"read", "route", "queue", "turn", "loads", "notice"}
  OBVIOUS
<1> HIDE DEF v
<1>5. PlacedByRules(v)
  BY Zenon, <1>2, <1>3, StillPlaced
<1>6. FiledFits(v)
  BY Zenon, <1>2, <1>3, <1>4, <1>5, PastTheRules
<1> QED
  BY Zenon, <1>1, <1>3, <1>4, <1>6, OnTheWay

LEMMA SubmitGoes ==
  ASSUME CatalogueOK, NEW f \in Filers, NEW report \in load.reports, NEW shown \in {0} \cup DOMAIN notices,
         Submit(f, report, shown)
  PROVE  FilingGo
<1> DEFINE v == [pc |-> "read", report |-> report, shown |-> shown, row |-> None, category |-> NoName,
                 fields |-> <<>>, answers |-> report.answers, placed |-> NoDecision, tags |-> {}, ruled |-> absent,
                 eligible |-> <<>>, cursor |-> 0, policy |-> absent, hours |-> absent]
<1>1. filing' = [filing EXCEPT ![f] = v]
  BY DEF Submit
<1>2. v.pc = "read" /\ v.report = report /\ v.shown = shown /\ v.policy = absent
  BY Zenon
<1>3. report.at \in Nat /\ IsData(report.answers)
  BY Zenon, TriageConstants DEF CatalogueOK
<1>4. shown \in {0} \cup 1..Len(notices)
  BY DEF CatalogueOK
<1> HIDE DEF v
<1>5. FiledFits(v)
  BY Zenon, <1>2, <1>3 DEF FiledFits
<1>6. FiledShown(v, notices, requests')
  BY Zenon, <1>2, <1>4 DEF FiledShown
<1> QED
  BY Zenon, <1>1, <1>5, <1>6 DEF FilingGo, FilingGoes

LEMMA ReadServiceGoes ==
  ASSUME FilingsOK, FiledOK, CatalogueOK, NEW f \in Filers, ReadService(f)
  PROVE  FilingGo
<1> DEFINE at == filing[f]
           s == at.report.service
           form == services[s].form
<1>1. CASE Stops(f)
  BY Zenon, <1>1, StopsAreFine
<1>2. ASSUME LiveAt(s, at.report.at), NEW answers \in ValidateFormData(form.fields, at.report.answers),
             filing' = [filing EXCEPT
                   ![f].pc = "route", ![f].tags = at.report.tags, ![f].category = services[s].label,
                   ![f].fields = services[s].form.fields, ![f].answers = answers,
                   ![f].placed = [NoDecision EXCEPT
                      !["queue"] = services[s].form.defaults.queue,
                      !["policy"] = services[s].form.defaults.policy,
                      !["priority"] = IF at.report.priority = NoOutcome THEN services[s].form.defaults.priority
                                      ELSE at.report.priority]]
      PROVE  FilingGo
  <2> DEFINE priority == IF at.report.priority = NoOutcome THEN form.defaults.priority ELSE at.report.priority
             placed == [NoDecision EXCEPT !["queue"] = form.defaults.queue, !["policy"] = form.defaults.policy,
                                          !["priority"] = priority]
             v == [at EXCEPT !.pc = "route", !.tags = at.report.tags, !.category = services[s].label,
                             !.fields = form.fields, !.answers = answers, !.placed = placed]
  <2>1. filing' = [filing EXCEPT ![f] = v]
    BY Zenon, <1>2 DEF FilingsOK
  <2>2. at # idle /\ at.pc = "read" /\ at = [k \in FilingFields |-> at[k]] /\ s \in Services /\ FiledFits(at)
    BY Zenon, FilingIs DEF ReadService, On, FiledOK
  <2>3. services[s] # absent
    BY Zenon, <1>2 DEF LiveAt
  <2>4. at.report.at \in Nat /\ IsData(at.report.answers) /\ at.policy = absent
    BY Zenon, <2>2 DEF FiledFits
  <2>5. FitsForm(form.fields, answers)
    <3> HIDE DEF at, form
    <3>1. form.fields \in Seq(Field)
      BY Zenon, <2>2, <2>3, FieldsAre DEF form
    <3> QED
      BY Zenon, <1>2, <2>4, <3>1, FormsAreKept
  <2> HIDE DEF priority
  <2>6. placed["assignee"] = NoOutcome /\ placed["system"] = NoOutcome
    BY DEF NoDecision, Outcomes
  <2> HIDE DEF placed
  <2>7. /\ v.pc = "route" /\ v.report = at.report /\ v.placed = placed /\ v.fields = form.fields /\ v.answers = answers
        /\ v.tags = at.report.tags /\ v.policy = at.policy /\ v.shown = at.shown
    BY Zenon, <2>2 DEF FilingFields
  <2> HIDE DEF v
  <2>8. FiledFits(v)
    BY Zenon, <2>4, <2>5, <2>6, <2>7 DEF FiledFits
  <2>9. v.pc # "notice"
    BY Zenon, <2>7
  <2> QED
    BY Zenon, <2>1, <2>2, <2>7, <2>8, <2>9, OnTheWay
<1> QED
  BY Zenon, <1>1, <1>2 DEF ReadService

LEMMA RouteGoes ==
  ASSUME FilingsOK, FiledOK, DeskOK, NEW f \in Filers, Route(f)
  PROVE  FilingGo
<1> DEFINE at == filing[f]
           d == Evaluate(ListRules, rules, Facts(at))
           placed == ApplyDecision(at.placed, d)
           ruled == [rules |-> [p \in ToSet(ListRules) |-> rules[p]], facts |-> Facts(at), placed |-> at.placed]
           pc == IF placed["queue"] # None /\ ~Assigned(placed) THEN "queue" ELSE "policy"
           v == [at EXCEPT !.placed = placed, !.tags = @ \cup d.tags, !.ruled = ruled, !.pc = pc]
<1>1. at # idle /\ at.pc = "route" /\ FiledFits(at) /\ at = [k \in FilingFields |-> at[k]]
  BY Zenon, FilingIs DEF Route, On, FiledOK
<1>2. filing' = [filing EXCEPT ![f] = v]
  BY Zenon DEF Route, FilingsOK
<1>3. /\ at.report.at \in Nat /\ IsData(at.report.answers) /\ FitsForm(at.fields, at.answers) /\ at.policy = absent
      /\ at.placed["assignee"] = NoOutcome /\ at.placed["system"] = NoOutcome /\ at.tags = at.report.tags
  BY Zenon, <1>1 DEF FiledFits
<1>4. (pc = "queue" /\ ~Assigned(placed)) \/ pc = "policy"
  BY Zenon
<1>5. /\ v.pc = pc /\ v.report = at.report /\ v.placed = ApplyDecision(at.placed, d) /\ v.fields = at.fields
      /\ v.answers = at.answers /\ v.ruled = ruled /\ v.tags = at.tags \cup d.tags /\ v.policy = at.policy
      /\ v.shown = at.shown /\ v.placed = placed
  <2> HIDE DEF placed, pc, ruled, d
  <2>1. /\ v.pc = pc /\ v.report = at.report /\ v.placed = placed /\ v.fields = at.fields
        /\ v.answers = at.answers /\ v.ruled = ruled /\ v.tags = at.tags \cup d.tags /\ v.policy = at.policy
        /\ v.shown = at.shown
    BY Zenon, <1>1 DEF FilingFields
  <2> QED
    BY Zenon, <2>1 DEF placed
<1>6. PlacedByRules(v)
  <2>1. /\ v.ruled = [rules |-> [p \in ToSet(ListRules) |-> rules[p]], facts |-> Facts(at), placed |-> at.placed]
        /\ v.placed = ApplyDecision(at.placed, Evaluate(ListRules, rules, Facts(at)))
        /\ v.tags = v.report.tags \cup Evaluate(ListRules, rules, Facts(at)).tags
    BY Zenon, <1>3, <1>5
  <2> HIDE DEF v, at, d, placed, ruled, pc
  <2> QED
    BY <1>3, <2>1, RulesPlace
<1> HIDE DEF v, d, placed, ruled, pc
<1>7. FiledFits(v)
  BY Zenon, <1>3, <1>4, <1>5, <1>6 DEF FiledFits
<1>8. v.pc # "notice"
  BY Zenon, <1>4, <1>5
<1> QED
  BY Zenon, <1>1, <1>2, <1>5, <1>7, <1>8, OnTheWay

(* Those who may be given what no rule has given.                          *)
LEMMA ReadQueueGoes ==
  ASSUME FilingsOK, FiledOK, DeskOK, NEW f \in Filers, ReadQueue(f)
  PROVE  FilingGo
<1> DEFINE at == filing[f]
           q == at.placed["queue"]
           working == queues[q].members \cap staff \cap Systems
<1>1. at # idle /\ at.pc = "queue" /\ FiledFits(at) /\ FilingFits(at) /\ at = [k \in FilingFields |-> at[k]]
  BY Zenon, FilingIs DEF ReadQueue, On, FiledOK
<1>2. at.policy = absent /\ PlacedByRules(at) /\ ~Assigned(at.placed) /\ at.placed = [o \in Outcomes |-> at.placed[o]]
  BY Zenon, <1>1 DEF FiledFits, FilingFits
<1>3. at.placed["assignee"] = NoOutcome /\ at.placed["system"] = NoOutcome
  BY Zenon, <1>2 DEF Assigned
<1>4. CASE Now(f, "policy")
  BY Zenon, <1>1, <1>2, <1>4, GoesStraightOn
<1>5. ASSUME NEW y \in Systems, filing' = [filing EXCEPT ![f].pc = "policy", ![f].placed["system"] = y]
      PROVE  FilingGo
  <2> DEFINE placed == [at.placed EXCEPT !["system"] = y]
             v == [at EXCEPT !.pc = "policy", !.placed = placed]
  <2>1. filing' = [filing EXCEPT ![f] = v]
    BY Zenon, <1>1, <1>5 DEF FilingsOK, FilingFields
  <2>2. /\ placed["system"] = y /\ placed["assignee"] = NoOutcome
        /\ \A o \in {"queue", "department", "priority", "policy"} : placed[o] = at.placed[o]
    BY <1>2, <1>3 DEF Outcomes
  <2> HIDE DEF placed
  <2>3. /\ v.pc = "policy" /\ v.report = at.report /\ v.placed = placed /\ v.fields = at.fields
        /\ v.answers = at.answers /\ v.ruled = at.ruled /\ v.tags = at.tags /\ v.policy = at.policy
        /\ v.eligible = at.eligible /\ v.shown = at.shown
    BY Zenon, <1>1 DEF FilingFields
  <2> HIDE DEF v
  <2>4. PlacedByRules(v)
    <3>1. /\ v.placed["assignee"] \in ToSet(v.eligible) \cup {NoOutcome}
          /\ v.placed["system"] \in Systems \cup {NoOutcome}
          /\ NoOutcome \in {v.placed["assignee"], v.placed["system"]}
      BY Zenon, <2>2, <2>3
    <3>2. \A o \in {"queue", "department", "priority", "policy"} : v.placed[o] = at.placed[o]
      BY Zenon, <2>2, <2>3
    <3> QED
      BY Zenon, <1>2, <2>3, <3>1, <3>2, OwnerGiven
  <2>5. v.pc \notin {"read", "route", "queue", "turn", "loads", "insert", "notice"} /\ at.pc \notin {"read", "route"}
    BY Zenon, <1>1, <2>3
  <2>6. FiledFits(v)
    BY Zenon, <1>1, <1>2, <2>3, <2>4, <2>5, PastTheRules
  <2> QED
    BY Zenon, <1>1, <2>1, <2>3, <2>5, <2>6, OnTheWay
<1>6. ASSUME NEW pc \in {"turn", "loads"}, NEW e, NEW c,
             filing' = [filing EXCEPT ![f].eligible = e, ![f].cursor = c, ![f].pc = pc]
      PROVE  FilingGo
  <2> DEFINE v == [at EXCEPT !.eligible = e, !.cursor = c, !.pc = pc]
  <2>1. filing' = [filing EXCEPT ![f] = v]
    BY Zenon, <1>6 DEF FilingsOK
  <2>2. /\ v.pc = pc /\ v.report = at.report /\ v.placed = at.placed /\ v.fields = at.fields
        /\ v.answers = at.answers /\ v.ruled = at.ruled /\ v.tags = at.tags /\ v.policy = at.policy
        /\ v.eligible = e /\ v.shown = at.shown
    BY Zenon, <1>1 DEF FilingFields
  <2> HIDE DEF v
  <2>3. PlacedByRules(v)
    <3>1. /\ v.placed["assignee"] \in ToSet(v.eligible) \cup {NoOutcome}
          /\ v.placed["system"] \in Systems \cup {NoOutcome}
          /\ NoOutcome \in {v.placed["assignee"], v.placed["system"]}
      BY Zenon, <1>3, <2>2
    <3>2. \A o \in {"queue", "department", "priority", "policy"} : v.placed[o] = at.placed[o]
      BY Zenon, <2>2
    <3> QED
      BY Zenon, <1>2, <2>2, <3>1, <3>2, OwnerGiven
  <2>4. v.pc \notin {"read", "route", "insert", "notice"} /\ at.pc \notin {"read", "route"} /\ ~Assigned(v.placed)
    BY Zenon, <1>1, <1>2, <2>2
  <2>5. FiledFits(v)
    BY Zenon, <1>1, <1>2, <2>2, <2>3, <2>4, PastTheRules
  <2> QED
    BY Zenon, <1>1, <2>1, <2>2, <2>4, <2>5, OnTheWay
<1>7. \/ Now(f, "policy")
      \/ \E y \in working : filing' = [filing EXCEPT ![f].pc = "policy", ![f].placed["system"] = y]
      \/ filing' = [filing EXCEPT ![f].eligible = Eligible(q), ![f].cursor = queues[q].cursor,
                                  ![f].pc = IF queues[q].form.strategy = "round_robin" THEN "turn" ELSE "loads"]
  BY Zenon DEF ReadQueue
<1>8. CASE \E y \in working : filing' = [filing EXCEPT ![f].pc = "policy", ![f].placed["system"] = y]
  BY Zenon, <1>5, <1>8
<1>9. CASE filing' = [filing EXCEPT ![f].eligible = Eligible(q), ![f].cursor = queues[q].cursor,
                                    ![f].pc = IF queues[q].form.strategy = "round_robin" THEN "turn" ELSE "loads"]
  <2> DEFINE pc == IF queues[q].form.strategy = "round_robin" THEN "turn" ELSE "loads"
  <2>1. pc \in {"turn", "loads"}
    OBVIOUS
  <2>2. filing' = [filing EXCEPT ![f].eligible = Eligible(q), ![f].cursor = queues[q].cursor, ![f].pc = pc]
    BY <1>9
  <2> HIDE DEF pc
  <2> QED
    BY Zenon, <1>6, <2>1, <2>2
<1> QED
  BY Zenon, <1>4, <1>7, <1>8, <1>9

LEMMA OwnerGoes ==
  ASSUME FilingsOK, FiledOK, NEW f \in Filers, filing[f] # idle, filing[f].pc \in {"turn", "loads"},
         NEW u \in ToSet(filing[f].eligible),
         filing' = [filing EXCEPT ![f].pc = "policy", ![f].placed["assignee"] = u]
  PROVE  FilingGo
<1> DEFINE at == filing[f]
           placed == [at.placed EXCEPT !["assignee"] = u]
           v == [at EXCEPT !.pc = "policy", !.placed = placed]
<1>1. FiledFits(at) /\ FilingFits(at) /\ at = [k \in FilingFields |-> at[k]]
  BY Zenon, FilingIs DEF FiledOK
<1>2. at.policy = absent /\ PlacedByRules(at) /\ ~Assigned(at.placed) /\ at.placed = [o \in Outcomes |-> at.placed[o]]
  BY Zenon, <1>1 DEF FiledFits, FilingFits
<1>3. at.placed["assignee"] = NoOutcome /\ at.placed["system"] = NoOutcome
  BY Zenon, <1>2 DEF Assigned
<1>4. filing' = [filing EXCEPT ![f] = v]
  BY Zenon, <1>1 DEF FilingsOK, FilingFields
<1>5. /\ placed["assignee"] = u /\ placed["system"] = NoOutcome
      /\ \A o \in {"queue", "department", "priority", "policy"} : placed[o] = at.placed[o]
  BY <1>2, <1>3 DEF Outcomes
<1> HIDE DEF placed
<1>6. /\ v.pc = "policy" /\ v.report = at.report /\ v.placed = placed /\ v.fields = at.fields
      /\ v.answers = at.answers /\ v.ruled = at.ruled /\ v.tags = at.tags /\ v.policy = at.policy
      /\ v.eligible = at.eligible /\ v.shown = at.shown
  BY Zenon, <1>1 DEF FilingFields
<1> HIDE DEF v
<1>7. PlacedByRules(v)
  <2>1. /\ v.placed["assignee"] \in ToSet(v.eligible) \cup {NoOutcome}
        /\ v.placed["system"] \in Systems \cup {NoOutcome}
        /\ NoOutcome \in {v.placed["assignee"], v.placed["system"]}
    BY Zenon, <1>5, <1>6
  <2>2. \A o \in {"queue", "department", "priority", "policy"} : v.placed[o] = at.placed[o]
    BY Zenon, <1>5, <1>6
  <2> QED
    BY Zenon, <1>2, <1>6, <2>1, <2>2, OwnerGiven
<1>8. v.pc \notin {"read", "route", "queue", "turn", "loads", "insert", "notice"} /\ at.pc \notin {"read", "route"}
  BY Zenon, <1>6
<1>9. FiledFits(v)
  BY Zenon, <1>1, <1>2, <1>6, <1>7, <1>8, PastTheRules
<1> QED
  BY Zenon, <1>4, <1>6, <1>8, <1>9, OnTheWay

LEMMA TurnGoes ==
  ASSUME FilingsOK, FiledOK, NEW f \in Filers, TakeTurn(f)
  PROVE  FilingGo
<1> DEFINE at == filing[f]
           e == at.eligible
           c == at.cursor
<1>1. /\ at # idle /\ at.pc = "turn"
      /\ filing' = [filing EXCEPT ![f].pc = "policy", ![f].placed["assignee"] = InTurn(e, c)]
  BY Zenon DEF TakeTurn, On
<1>2. FilingFits(at)
  BY Zenon, <1>1, FilingIs
<1>3. e \in Seq(ToSet(Users)) /\ e # <<>> /\ c \in Nat
  BY <1>1, <1>2 DEF FilingFits
<1>4. InTurn(e, c) \in ToSet(e)
  <2> HIDE DEF e, c
  <2>1. (c % Len(e)) + 1 \in 1..Len(e)
    BY Zenon, <1>3, InTurnIs
  <2>2. (c % Len(e)) + 1 \in DOMAIN e
    BY <1>3, <2>1
  <2> QED
    BY Zenon, <2>2 DEF InTurn, ToSet
<1> QED
  BY Zenon, <1>1, <1>4, OwnerGoes

LEMMA SomeoneHasLeast ==
  ASSUME NEW X, NEW e \in Seq(X), e # <<>>
  PROVE  LeastLoaded(e) \in ToSet(e)
<1> DEFINE S == {OpenWork(e[i]) : i \in DOMAIN e}
<1>1. DOMAIN e = 1..Len(e) /\ Len(e) \in Nat /\ 1 \in DOMAIN e
  OBVIOUS
<1>2. \A u : OpenWork(u) \in Nat
  <2>1. ASSUME NEW u
        PROVE  OpenWork(u) \in Nat
    <3> DEFINE R == {r \in Requests : /\ requests[r] # absent /\ requests[r].open
                                      /\ requests[r].placed["assignee"] = u}
    <3>1. R \subseteq Requests /\ IsFiniteSet(Requests)
      BY CatalogueConstants
    <3> HIDE DEF R
    <3>2. Cardinality(R) \in Nat
      BY <3>1, FS_Subset, FS_CardinalityType
    <3> QED
      BY <3>2 DEF OpenWork, R
  <2> QED
    BY <2>1
<1>3. S \subseteq Nat /\ S # {}
  BY Zenon, <1>1, <1>2
<1>4. PICK m \in S : \A n \in S : m <= n
  BY Zenon, <1>3, LeastOf
<1> DEFINE T == {i \in DOMAIN e : OpenWork(e[i]) = m}
<1>5. T \subseteq Nat /\ T # {}
  BY <1>1, <1>4
<1>6. PICK i \in T : \A j \in T : i <= j
  BY Zenon, <1>5, LeastOf
<1>7. ASSUME NEW j \in DOMAIN e
      PROVE  OpenWork(e[i]) <= OpenWork(e[j]) /\ (j < i => OpenWork(e[i]) < OpenWork(e[j]))
  <2>1. OpenWork(e[i]) = m /\ m <= OpenWork(e[j]) /\ m \in Nat /\ OpenWork(e[j]) \in Nat
    BY Zenon, <1>2, <1>3, <1>4, <1>6
  <2>2. j < i => OpenWork(e[j]) # m
    <3>1. i \in Nat /\ j \in Nat
      BY <1>1, <1>6
    <3>2. OpenWork(e[j]) = m => i <= j
      BY Zenon, <1>6
    <3> QED
      BY <3>1, <3>2
  <2> DEFINE n == OpenWork(e[j])
  <2> HIDE DEF n
  <2>3. m <= n /\ m \in Nat /\ n \in Nat /\ (j < i => n # m)
    BY Zenon, <2>1, <2>2 DEF n
  <2>4. m <= n /\ (j < i => m < n)
    BY <2>3
  <2> QED
    BY Zenon, <2>1, <2>4 DEF n
<1>8. i \in DOMAIN e
  BY Zenon, <1>6
<1> DEFINE First(k) == \A j \in DOMAIN e : /\ OpenWork(e[k]) <= OpenWork(e[j])
                                           /\ j < k => OpenWork(e[k]) < OpenWork(e[j])
<1>9. \E k \in DOMAIN e : First(k)
  BY Zenon, <1>7, <1>8
<1>10. LeastLoaded(e) = e[CHOOSE k \in DOMAIN e : First(k)]
  BY Zenon DEF LeastLoaded
<1> HIDE DEF First
<1>11. (CHOOSE k \in DOMAIN e : First(k)) \in DOMAIN e
  BY Zenon, <1>9
<1> QED
  BY Zenon, <1>10, <1>11 DEF ToSet

LEMMA LoadsGo ==
  ASSUME FilingsOK, FiledOK, NEW f \in Filers, CompareLoads(f)
  PROVE  FilingGo
<1> DEFINE at == filing[f]
           e == at.eligible
<1>1. /\ at # idle /\ at.pc = "loads"
      /\ filing' = [filing EXCEPT ![f].pc = "policy", ![f].placed["assignee"] = LeastLoaded(e)]
  BY Zenon DEF CompareLoads, On
<1>2. FilingFits(at)
  BY Zenon, <1>1, FilingIs
<1>3. e \in Seq(ToSet(Users)) /\ e # <<>>
  BY <1>1, <1>2 DEF FilingFits
<1>4. LeastLoaded(e) \in ToSet(e)
  BY Zenon, <1>3, SomeoneHasLeast
<1> QED
  BY Zenon, <1>1, <1>4, OwnerGoes

(* The policy and its hours.                                               *)
LEMMA HoursGo ==
  ASSUME FilingsOK, FiledOK, NEW f \in Filers, filing[f] # idle, filing[f].pc \notin {"read", "route"},
         NEW pc \in {"hours", "insert", "fill"}, NEW policy, NEW hours,
         pc = "insert" => policy \in SavedPolicies /\ hours \in KnownHours,
         NEW v, v = [filing[f] EXCEPT !.pc = pc, !.policy = policy, !.hours = hours],
         filing' = [filing EXCEPT ![f] = v]
  PROVE  FilingGo
<1> DEFINE at == filing[f]
<1>1. FiledFits(at) /\ at = [k \in FilingFields |-> at[k]]
  BY Zenon, FilingIs DEF FiledOK
<1>2. PlacedByRules(at)
  BY Zenon, <1>1 DEF FiledFits
<1>3. /\ v.pc = pc /\ v.report = at.report /\ v.placed = at.placed /\ v.fields = at.fields
      /\ v.answers = at.answers /\ v.ruled = at.ruled /\ v.tags = at.tags /\ v.policy = policy /\ v.hours = hours
      /\ v.eligible = at.eligible /\ v.shown = at.shown
  BY Zenon, <1>1 DEF FilingFields
<1>4. pc \notin {"read", "route", "queue", "turn", "loads", "policy", "notice"}
  OBVIOUS
<1> HIDE DEF at
<1>5. PlacedByRules(v)
  BY Zenon, <1>2, <1>3, StillPlaced
<1>6. at.pc \notin {"read", "route"}
  BY Zenon DEF at
<1>7. FiledFits(v)
  BY Zenon, <1>1, <1>3, <1>4, <1>5, <1>6, PastTheRules
<1> QED
  BY Zenon, <1>3, <1>4, <1>7, OnTheWay DEF at

LEMMA ReadPolicyGoes ==
  ASSUME FilingsOK, FiledOK, DeskOK, NEW f \in Filers, ReadPolicy(f)
  PROVE  FilingGo
<1> DEFINE at == filing[f]
           p == at.placed["policy"]
<1>1. at # idle /\ at.pc = "policy" /\ FiledFits(at) /\ at = [k \in FilingFields |-> at[k]]
  BY Zenon, FilingIs DEF ReadPolicy, On, FiledOK
<1>2. at.policy = absent
  BY Zenon, <1>1 DEF FiledFits
<1>3. CASE Now(f, "insert")
  BY Zenon, <1>1, <1>2, <1>3, GoesStraightOn
<1>4. CASE filing' = [filing EXCEPT ![f].pc = "hours", ![f].policy = policies[p]]
  <2> DEFINE v == [at EXCEPT !.pc = "hours", !.policy = policies[p], !.hours = at.hours]
  <2>1. v = [at EXCEPT !.pc = "hours", !.policy = policies[p]]
    <3>1. at.hours = at["hours"]
      OBVIOUS
    <3> QED
      BY Zenon, <1>1 DEF FilingFields
  <2>2. filing' = [filing EXCEPT ![f] = v]
    BY Zenon, <1>4, <2>1 DEF FilingsOK
  <2> DEFINE policy == policies[p]
  <2>3. v = [at EXCEPT !.pc = "hours", !.policy = policy, !.hours = at.hours]
    OBVIOUS
  <2> HIDE DEF v, policy
  <2> QED
    BY Zenon, <1>1, <2>2, <2>3, HoursGo
<1> QED
  BY Zenon, <1>3, <1>4 DEF ReadPolicy

LEMMA HoursAreRead ==
  ASSUME FilingsOK, FiledOK, DeskOK, NEW f \in Filers, LookUp(f) \/ ReadCalendar(f)
  PROVE  FilingGo
<1> DEFINE at == filing[f]
           k == at.policy.calendar
<1>1. at # idle /\ at.pc \in {"hours", "rows"} /\ FilingFits(at) /\ at = [x \in FilingFields |-> at[x]]
  BY Zenon, FilingIs DEF LookUp, ReadCalendar, On
<1>2. at.policy \in SavedPolicies /\ k \in Calendars \cup {None}
  BY Zenon, <1>1, PoliciesHaveCalendars DEF FilingFits
<1>3. ASSUME NEW pc \in {"insert", "fill"}, NEW hours \in KnownHours,
             filing' = [filing EXCEPT ![f].pc = pc, ![f].hours = hours]
      PROVE  FilingGo
  <2> DEFINE v == [at EXCEPT !.pc = pc, !.policy = at.policy, !.hours = hours]
  <2>1. v = [at EXCEPT !.pc = pc, !.hours = hours]
    BY Zenon, <1>1 DEF FilingFields
  <2>2. filing' = [filing EXCEPT ![f] = v]
    BY Zenon, <1>3, <2>1 DEF FilingsOK
  <2> DEFINE policy == at.policy
  <2>3. v = [at EXCEPT !.pc = pc, !.policy = policy, !.hours = hours]
    OBVIOUS
  <2>4. pc \in {"hours", "insert", "fill"} /\ filing[f] # idle /\ filing[f].pc \notin {"read", "route"}
    BY Zenon, <1>1, <1>3
  <2>5. pc = "insert" => policy \in SavedPolicies /\ hours \in KnownHours
    BY Zenon, <1>2, <1>3
  <2> HIDE DEF v, policy
  <2> QED
    BY Zenon, <2>2, <2>3, <2>4, <2>5, HoursGo
<1>4. CASE LookUp(f)
  <2>1. CASE Now(f, "rows")
    BY Zenon, <1>1, <2>1, GoesStraightOn
  <2>2. CASE cache[k] # absent /\ filing' = [filing EXCEPT ![f].pc = "insert", ![f].hours = cache[k]]
    <3>1. cache[k] \in KnownHours
      BY Zenon, <1>2, <2>2 DEF DeskOK, KnownHours
    <3> QED
      BY Zenon, <1>3, <2>2, <3>1
  <2> QED
    BY Zenon, <1>4, <2>1, <2>2 DEF LookUp
<1>5. CASE ReadCalendar(f)
  <2>1. PICK row \in CalendarRows(k) :
          filing' = [filing EXCEPT ![f].pc = IF row = absent THEN "insert" ELSE "fill",
                                   ![f].hours = IF row = absent THEN AlwaysOpenCalendar ELSE row.hours]
    BY Zenon, <1>5 DEF ReadCalendar
  <2> DEFINE pc == IF row = absent THEN "insert" ELSE "fill"
             hours == IF row = absent THEN AlwaysOpenCalendar ELSE row.hours
  <2>2. row = absent \/ row.hours \in Hours
    BY Zenon, <1>2, <2>1, CalendarRowsAre
  <2>3. pc \in {"insert", "fill"} /\ hours \in KnownHours
    BY Zenon, <2>2 DEF KnownHours
  <2>4. filing' = [filing EXCEPT ![f].pc = pc, ![f].hours = hours]
    BY <2>1
  <2> HIDE DEF pc, hours
  <2> QED
    BY Zenon, <1>3, <2>3, <2>4
<1> QED
  BY <1>4, <1>5

LEMMA FillGoes ==
  ASSUME FilingsOK, FiledOK, NEW f \in Filers, FillCache(f)
  PROVE  FilingGo
<1> DEFINE at == filing[f]
<1>1. at # idle /\ at.pc = "fill" /\ Now(f, "insert")
  BY Zenon DEF FillCache, On
<1>2. FilingFits(at)
  BY Zenon, <1>1, FilingIs
<1>3. at.policy \in SavedPolicies /\ at.hours \in KnownHours
  BY Zenon, <1>1, <1>2 DEF FilingFits, KnownHours
<1> QED
  BY Zenon, <1>1, <1>3, GoesStraightOn

(* The insert, and the notice recorded after it.                           *)
LEMMA InsertGoes ==
  ASSUME FilingsOK, FiledOK, RowsOK, NEW f \in Filers, Insert(f)
  PROVE  RequestsMove /\ FilingGo
<1> DEFINE me == filing[f]
<1>1. me # idle /\ me.pc = "insert" /\ FiledFits(me) /\ FilingFits(me) /\ FiledShown(me, notices, requests)
  BY Zenon, FilingIs DEF Insert, On, FiledOK
<1>2. /\ PlacedByRules(me) /\ FitsForm(me.fields, me.answers) /\ me.report.at \in Nat /\ IsData(me.report.answers)
      /\ me.policy = absent \/ (me.policy \in SavedPolicies /\ me.hours \in KnownHours)
      /\ me.report.service \in Services /\ me = [k \in FilingFields |-> me[k]]
      /\ me.shown \in {0} \cup 1..Len(notices)
  BY Zenon, <1>1 DEF FiledFits, FilingFits, FiledShown
<1>3. PICK r \in Requests :
        /\ requests[r] = absent
        /\ requests' = [requests EXCEPT ![r] =
              [service |-> me.report.service, placed |-> me.placed, tags |-> me.tags, targets |-> Due(me),
               fields |-> me.fields, answers |-> me.answers, version |-> 1,
               open |-> TRUE, notice |-> NoNotice, filed |-> me]]
        /\ filing' = [filing EXCEPT ![f] = IF me.report.way = "portal" THEN [me EXCEPT !.pc = "notice", !.row = r] ELSE idle]
  BY Zenon DEF Insert
<1> DEFINE due == Due(me)
           row == [service |-> me.report.service, placed |-> me.placed, tags |-> me.tags, targets |-> due,
                   fields |-> me.fields, answers |-> me.answers, version |-> 1,
                   open |-> TRUE, notice |-> NoNotice, filed |-> me]
           v == [me EXCEPT !.pc = "notice", !.row = r]
<1>4. requests' = [requests EXCEPT ![r] = row] /\ (filing' = [filing EXCEPT ![f] = v] \/ filing' = [filing EXCEPT ![f] = idle])
  BY Zenon, <1>3
<1>5. me.policy # absent => DueInOpenHours(me, due)
  BY Zenon, <1>2, DueIs
<1> HIDE DEF due
<1>6. /\ row = [k \in RowFields |-> row[k]] /\ row.service = me.report.service /\ row.filed = me /\ row.targets = due
      /\ row.fields = me.fields /\ row.answers = me.answers /\ row.notice = NoNotice
  BY Zenon DEF RowFields
<1>7. /\ v.pc = "notice" /\ v.report = me.report /\ v.placed = me.placed /\ v.fields = me.fields
      /\ v.answers = me.answers /\ v.ruled = me.ruled /\ v.tags = me.tags
      /\ v.eligible = me.eligible /\ v.shown = me.shown /\ v.row = r
  BY Zenon, <1>2 DEF FilingFields
<1> HIDE DEF row, v
<1>8. RowFits(row)
  BY Zenon, <1>2, <1>5, <1>6 DEF RowFits
<1>9. ShownFits(row, notices)
  BY Zenon, <1>2, <1>6 DEF ShownFits
<1>10. RequestsMove
  BY Zenon, <1>3, <1>4, <1>8, <1>9 DEF RequestsMove, RowGoes
<1>11. PlacedByRules(v)
  BY Zenon, <1>2, <1>7, StillPlaced
<1>12. FiledFits(v)
  <2>1. v.pc \notin {"read", "route", "queue", "turn", "loads", "policy", "insert"} /\ me.pc \notin {"read", "route"}
    BY Zenon, <1>1, <1>7
  <2> QED
    BY Zenon, <1>1, <1>7, <1>11, <2>1, PastTheRules
<1>13. FiledShown(v, notices, requests')
  <2>1. requests'[r] = row
    BY Zenon, <1>4 DEF RowsOK
  <2>2. row # absent
    BY Zenon, <1>8, RowIsThere
  <2> QED
    BY Zenon, <1>2, <1>6, <1>7, <2>1, <2>2 DEF FiledShown
<1>14. FilingGo
  BY Zenon, <1>4, <1>12, <1>13 DEF FilingGo, FilingGoes
<1> QED
  BY <1>10, <1>14

LEMMA NoticeGoes ==
  ASSUME FilingsOK, FiledOK, RowsOK, ShownOK, NEW f \in Filers, RecordNoticeShown(f)
  PROVE  RequestsMove /\ FilingGo
<1> DEFINE me == filing[f]
           row == requests[me.row]
<1>1. me # idle /\ me.pc = "notice" /\ Stops(f)
  BY Zenon DEF RecordNoticeShown, On
<1>2. FilingGo
  BY Zenon, <1>1, StopsAreFine
<1>3. me.row \in Requests /\ row # absent /\ row.filed.shown = me.shown
  BY Zenon, <1>1 DEF FiledOK, FiledShown
<1>4. /\ RowFits(row) /\ ShownFits(row, notices) /\ row = [k \in RowFields |-> row[k]]
  BY Zenon, <1>3 DEF RowsOK, ShownOK, RowFits
<1>5. CASE requests' = requests
  BY Zenon, <1>2, <1>5 DEF RequestsMove
<1>6. ASSUME NEW i \in ResolveShownNotice(me),
             requests' = [requests EXCEPT ![me.row].notice = [id |-> i, body |-> notices[i].body]]
      PROVE  RequestsMove
  <2> DEFINE said == [id |-> i, body |-> notices[i].body]
             v == [row EXCEPT !.notice = said]
  <2>1. me.shown = 0 \/ i = me.shown
    BY Zenon, <1>6 DEF ResolveShownNotice
  <2>2. me.shown = 0 \/ said = [id |-> me.shown, body |-> notices[me.shown].body]
    BY Zenon, <2>1
  <2>3. requests' = [requests EXCEPT ![me.row] = v]
    BY Zenon, <1>3, <1>6 DEF RowsOK
  <2> HIDE DEF said
  <2>4. /\ v = [k \in RowFields |-> v[k]] /\ v.fields = row.fields /\ v.answers = row.answers
        /\ v.service = row.service /\ v.filed = row.filed /\ v.targets = row.targets /\ v.notice = said
    BY Zenon, <1>4 DEF RowFields
  <2> HIDE DEF v
  <2>5. RowFits(v)
    BY Zenon, <1>4, <2>4 DEF RowFits
  <2>6. ShownFits(v, notices)
    BY Zenon, <1>3, <1>4, <2>2, <2>4 DEF ShownFits
  <2> QED
    BY Zenon, <1>3, <2>3, <2>4, <2>5, <2>6 DEF RequestsMove, RowGoes
<1> QED
  BY Zenon, <1>2, <1>5, <1>6 DEF RecordNoticeShown

LEMMA FilingStepMoves ==
  ASSUME FilingsOK, DeskOK, CatalogueOK, RowsOK, ShownOK, FiledOK, NEW f \in Filers, FilingStep(f)
  PROVE  RequestsMove /\ FilingGo /\ edit' = edit
<1>1. ASSUME requests' = requests
      PROVE  RequestsMove
  BY Zenon, <1>1 DEF RequestsMove
<1>2. CASE ReadService(f)
  BY Zenon, <1>1, <1>2, ReadServiceGoes DEF ReadService, Outside
<1>3. CASE Route(f)
  BY Zenon, <1>1, <1>3, RouteGoes DEF Route, Outside
<1>4. CASE ReadQueue(f)
  BY Zenon, <1>1, <1>4, ReadQueueGoes DEF ReadQueue, Outside
<1>5. CASE TakeTurn(f)
  BY Zenon, <1>1, <1>5, TurnGoes DEF TakeTurn, Outside
<1>6. CASE CompareLoads(f)
  BY Zenon, <1>1, <1>6, LoadsGo DEF CompareLoads, Outside
<1>7. CASE ReadPolicy(f)
  BY Zenon, <1>1, <1>7, ReadPolicyGoes DEF ReadPolicy, Outside
<1>8. CASE LookUp(f) \/ ReadCalendar(f)
  BY Zenon, <1>1, <1>8, HoursAreRead DEF LookUp, ReadCalendar, Outside
<1>9. CASE FillCache(f)
  BY Zenon, <1>1, <1>9, FillGoes DEF FillCache, Outside
<1>10. CASE Insert(f)
  BY Zenon, <1>10, InsertGoes DEF Insert, Outside
<1>11. CASE RecordNoticeShown(f)
  BY Zenon, <1>11, NoticeGoes DEF RecordNoticeShown, Outside
<1> QED
  BY Zenon, <1>2, <1>3, <1>4, <1>5, <1>6, <1>7, <1>8, <1>9, <1>10, <1>11 DEF FilingStep

LEMMA EveryStepMoves ==
  ASSUME RulesInv, [Next]_vars
  PROVE  RequestsMove /\ EditsGo /\ FilingGo
<1> USE DEF RulesInv, TypeInv
<1>1. ASSUME UNCHANGED <<requests, edit, filing>>
      PROVE  RequestsMove /\ EditsGo /\ FilingGo
  BY <1>1 DEF RequestsMove, EditsGo, FilingGo
<1>2. CASE UNCHANGED vars
  BY <1>1, <1>2 DEF vars, catalogueVars
<1>3. ASSUME NEW h \in Handlers, Edits(h)
      PROVE  RequestsMove /\ EditsGo /\ FilingGo
  <2>1. FilingGo
    BY Zenon, <1>3 DEF Edits, FilingGo
  <2>2. ASSUME requests' = requests /\ \E v : Notes(h, v)
        PROVE  RequestsMove /\ EditsGo
    BY Zenon, <2>2, NotesGo DEF RequestsMove
  <2>3. CASE Catalogued(h) \/ CatalogueStep(h)
    BY Zenon, <2>1, <2>2, <2>3, CataloguedNotes, StepNotes
  <2>4. ASSUME NEW r \in Requests, NEW data \in load.data, Update(h, r, data)
        PROVE  RequestsMove /\ EditsGo
    BY Zenon, <2>4, UpdateBegins DEF RequestsMove
  <2>5. CASE WriteUpdate(h)
    BY Zenon, <2>1, <2>5, UpdateWrites
  <2> QED
    BY Zenon, <1>3, <2>1, <2>3, <2>4, <2>5 DEF Edits
<1>4. ASSUME NEW h \in Handlers, DeskEdits(h)
      PROVE  RequestsMove /\ EditsGo /\ FilingGo
  BY Zenon, <1>4, DeskNotes, NotesGo DEF RequestsMove, EditsGo, FilingGo
<1>5. ASSUME NEW f \in Filers, NEW report \in load.reports, NEW shown \in {0} \cup DOMAIN notices,
             Submit(f, report, shown)
      PROVE  RequestsMove /\ EditsGo /\ FilingGo
  <2>1. requests' = requests /\ edit' = edit
    BY <1>5 DEF Submit, Outside
  <2>2. FilingGo
    BY Zenon, <1>5, SubmitGoes
  <2> QED
    BY Zenon, <2>1, <2>2 DEF RequestsMove, EditsGo
<1>6. ASSUME NEW f \in Filers, FilingStep(f)
      PROVE  RequestsMove /\ EditsGo /\ FilingGo
  BY Zenon, <1>6, FilingStepMoves DEF EditsGo
<1>7. ASSUME NEW r \in Requests, CloseRequest(r)
      PROVE  RequestsMove /\ EditsGo /\ FilingGo
  BY Zenon, <1>7, CloseWrites DEF EditsGo, FilingGo
<1>8. CASE Restart
  BY <1>8 DEF Restart, RequestsMove, EditsGo, FilingGo
<1> QED
  BY Zenon, <1>2, <1>3, <1>4, <1>5, <1>6, <1>7, <1>8 DEF Next

LEMMA RulesStay == RulesInv /\ [Next]_vars => RulesInv'
<1> SUFFICES ASSUME RulesInv, [Next]_vars
             PROVE  RulesInv'
  OBVIOUS
<1>1. TypeInv'
  BY Zenon, TypesStay DEF RulesInv
<1>2. EditsOK /\ CatalogueOK /\ FilingsOK /\ RowsOK /\ ShownOK /\ UpdatesOK /\ FiledOK
  BY Zenon DEF RulesInv, TypeInv
<1>3. RequestsMove /\ EditsGo /\ FilingGo
  BY Zenon, EveryStepMoves
<1>4. Grown(notices, notices')
  BY Zenon, <1>2, NoticesGrow
<1>5. RowsOK' /\ ShownOK' /\ Onward(requests, requests')
  BY Zenon, <1>2, <1>3, <1>4, RowsMove
<1>6. UpdatesOK'
  BY Zenon, <1>2, <1>3, <1>5, UpdatesMove
<1>7. FiledOK'
  BY Zenon, <1>2, <1>3, <1>4, <1>5, FilingMoves
<1> QED
  BY Zenon, <1>1, <1>5, <1>6, <1>7 DEF RulesInv

LEMMA RulesInit == Init => RulesInv
<1> SUFFICES ASSUME Init
             PROVE  RulesInv
  OBVIOUS
<1>1. TypeInv
  BY TypeInit
<1>2. RowsOK /\ ShownOK
  BY DEF Init, RowsOK, ShownOK
<1>3. UpdatesOK
  BY Apart DEF Init, UpdatesOK, UpdateFits
<1>4. FiledOK
  BY DEF Init, FiledOK
<1> QED
  BY <1>1, <1>2, <1>3, <1>4 DEF RulesInv

(* Every request is where the rules of its moment sent it, is due in the   *)
(* open hours its policy asks for, records the notice that was shown, and  *)
(* holds answers that fit its form; whatever the console edits meanwhile,  *)
(* and wherever the server ends (requests.Create, Update).                 *)
THEOREM FiledAsRuled == Spec => []RequestsFollowTheRules
<1>1. RulesInv => RequestsFollowTheRules
  <2> SUFFICES ASSUME RulesInv, NEW r \in Requests, requests[r] # absent, NEW row, row = requests[r]
               PROVE  /\ PlacedByRules(row.filed)
                      /\ row.filed.policy # absent => DueInOpenHours(row.filed, row.targets)
                      /\ RecordsWhatWasShown(row)
                      /\ FitsForm(row.fields, row.answers)
    BY Zenon DEF RequestsFollowTheRules
  <2>1. RowFits(row) /\ ShownFits(row, notices)
    BY Zenon DEF RulesInv, RowsOK, ShownOK
  <2> QED
    BY Zenon, <2>1 DEF RowFits, ShownFits, RecordsWhatWasShown
<1> QED
  BY <1>1, RulesInit, RulesStay, PTL DEF Spec
=============================================================================
