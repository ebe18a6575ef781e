---------------------------- MODULE BusinessTime ----------------------------
(***************************************************************************)
(* Business hours (internal/catalog/calendar.go, policies.go) and the      *)
(* targets of an SLA policy.                                               *)
(*                                                                         *)
(* An instant is a number of minutes.  Time zones are left out: a day has  *)
(* DayLength minutes, and days are numbered from 0, which is the first day *)
(* of the week.  A calendar is a record of windows (for each day of the    *)
(* week, its pairs of opening and closing minutes as they were entered),   *)
(* holidays (numbers of days) and alwaysOpen.                              *)
(***************************************************************************)
EXTENDS Integers, FiniteSets, Lists

CONSTANTS
    DayLength,  \* minutes of a day
    Week,       \* days of a week
    MaxDays     \* the days Add and Between look ahead (400)

ASSUME TimeAssumption == {DayLength, Week, MaxDays} \subseteq Nat \ {0}

DayOf(t) == t \div DayLength

Midnight(day) == day * DayLength

Earlier(a, b) == IF a < b THEN a ELSE b

Later(a, b) == IF a < b THEN b ELSE a

Window == [start : Nat, end : Nat]

IsCalendar(cal) ==
    /\ cal.windows \in [0..(Week - 1) -> Seq(Window)]
    /\ cal.holidays \subseteq Nat /\ cal.alwaysOpen \in BOOLEAN

(* A window that does not end after it starts is dropped.                  *)
WindowsOf(cal, d) == Those(cal.windows[d], {w \in ToSet(cal.windows[d]) : w.start < w.end})

WindowsOn(cal, day) == IF day \in cal.holidays THEN <<>> ELSE WindowsOf(cal, day % Week)

AlwaysOpen(cal) ==
    cal.alwaysOpen \/ \A d \in 0..(Week - 1) : \A i \in DOMAIN cal.windows[d] :
                         cal.windows[d][i].end <= cal.windows[d][i].start

IsOpen(cal, t) ==
    \/ AlwaysOpen(cal)
    \/ \E w \in ToSet(WindowsOn(cal, DayOf(t))) : t % DayLength \in w.start..(w.end - 1)

(* The clock at some instant, with minutes left to spend.                  *)
SpendIn(c, day, w) ==
    LET opens  == Midnight(day) + w.start
        closes == Midnight(day) + w.end
        from   == Later(c.at, opens)
    IN  IF c.left = 0 \/ c.at >= closes THEN c
        ELSE IF closes - from >= c.left THEN [at |-> from + c.left, left |-> 0]
        ELSE [at |-> closes, left |-> c.left - (closes - from)]

(* The next day is that of where the windows left the clock: after one     *)
(* that closes at midnight, the day after the next.                        *)
SpendDay(c, cal) ==
    LET spent == FoldLeft(LAMBDA d, w : SpendIn(d, DayOf(c.at), w), c, WindowsOn(cal, DayOf(c.at)))
    IN  IF spent.left = 0 THEN spent ELSE [spent EXCEPT !.at = Midnight(DayOf(spent.at) + 1)]

Add(cal, from, minutes) ==
    LET clock[n \in 0..MaxDays] == IF n = 0 THEN [at |-> from, left |-> minutes]
                                   ELSE SpendDay(clock[n - 1], cal)
    IN  IF AlwaysOpen(cal) THEN from + minutes
        ELSE IF minutes <= 0 THEN from
        ELSE IF clock[MaxDays].left = 0 THEN clock[MaxDays].at
        ELSE from + minutes

Overlap(lo, hi, day, w) ==
    Later(0, Earlier(hi, Midnight(day) + w.end) - Later(lo, Midnight(day) + w.start))

CountDay(lo, hi, cal) ==
    FoldLeft(LAMBDA total, w : total + Overlap(lo, hi, DayOf(lo), w), 0, WindowsOn(cal, DayOf(lo)))

Between(cal, from, to) ==
    LET clock[n \in 0..MaxDays] ==
            IF n = 0 THEN [at |-> from, total |-> 0]
            ELSE IF clock[n - 1].at >= to THEN clock[n - 1]
            ELSE [at |-> Midnight(DayOf(clock[n - 1].at) + 1),
                  total |-> clock[n - 1].total + CountDay(clock[n - 1].at, to, cal)]
    IN  IF to <= from THEN 0
        ELSE IF AlwaysOpen(cal) THEN to - from
        ELSE clock[MaxDays].total

-----------------------------------------------------------------------------
(* Policies: the targets, with what a priority overrides, and the share of *)
(* the resolution target at which a warning is due.                        *)

NoTarget == -1

TargetsFor(policy, priority) ==
    LET over == IF priority \in DOMAIN policy.overrides THEN policy.overrides[priority]
                ELSE [response |-> NoTarget, resolution |-> NoTarget]
    IN  [response |-> IF over.response = NoTarget THEN policy.response ELSE over.response,
         resolution |-> IF over.resolution = NoTarget THEN policy.resolution ELSE over.resolution]

WarnMinutes(policy, resolution) == (resolution * policy.warnAt) \div 100

ComputeTargets(policy, cal, priority, from) ==
    LET targets == TargetsFor(policy, priority)
    IN  [responseDue |-> Add(cal, from, targets.response),
         due |-> Add(cal, from, targets.resolution),
         warnAt |-> Add(cal, from, WarnMinutes(policy, targets.resolution))]

SavedPolicy(policy) ==
    [policy EXCEPT !.warnAt = IF @ \in 1..100 THEN @ ELSE 80]

ValidPolicy(policy) == policy.response > 0 /\ policy.resolution > 0

-----------------------------------------------------------------------------
(* The reference: business time is the number of open minutes.             *)

OpenMinutes(cal, from, to) == Cardinality({t \in from..(to - 1) : IsOpen(cal, t)})

(* Windows in order and apart from each other, none past midnight.         *)
Orderly(cal) ==
    \A d \in 0..(Week - 1) :
       LET ws == WindowsOf(cal, d)
       IN  \A i \in DOMAIN ws : /\ ws[i].end <= DayLength
                                /\ \A j \in DOMAIN ws : i < j => ws[i].end <= ws[j].start

ClosesAtMidnight(cal, day) == \E w \in ToSet(WindowsOn(cal, day)) : w.end = DayLength

ShutsBeforeMidnight(cal) == \A day \in 0..(Week - 1) : \A w \in ToSet(WindowsOf(cal, day)) : w.end < DayLength

(* The days a search from an instant may pass over: after one that closes  *)
(* at midnight.                                                            *)
MayPassOver(cal, from, day) == day > DayOf(from) /\ ClosesAtMidnight(cal, day - 1)

SureMinutes(cal, from, to) ==
    Cardinality({t \in from..(to - 1) : IsOpen(cal, t) /\ ~MayPassOver(cal, from, DayOf(t))})

(* Never before the minutes asked for are over, at the end of one of them, *)
(* and later only by days passed over: where none closes at midnight, the  *)
(* open minutes are exactly those asked for.                               *)
Reaches(cal, from, to, minutes) ==
    /\ from <= to
    /\ SureMinutes(cal, from, to) <= minutes /\ minutes <= OpenMinutes(cal, from, to)
    /\ minutes > 0 => IsOpen(cal, to - 1)

(* Where Add arrives: there, if the days looked at have that many minutes, *)
(* and else after the minutes themselves, open or not.                     *)
Arrives(cal, from, minutes, to) ==
    IF minutes < 0 THEN to \in {from, from + minutes}
    ELSE IF minutes <= SureMinutes(cal, from, Midnight(DayOf(from) + MaxDays)) THEN Reaches(cal, from, to, minutes)
    ELSE to = from + minutes \/ (~ShutsBeforeMidnight(cal) /\ Reaches(cal, from, to, minutes))
=============================================================================
