---------------------------- MODULE OutboxProof ----------------------------
(***************************************************************************)
(* Proofs about Outbox for any messages, contents, handlers and passes and *)
(* any bounds.                                                             *)
(***************************************************************************)
EXTENDS Outbox, FiniteSetTheorems, TLAPS

-----------------------------------------------------------------------------
(* What the writes make of a row.                                          *)

LEMMA AbsentIsNoRow == absent \notin Row
  BY DEF absent, Row, States

LEMMA QueuedType ==
  /\ \A c \in Contents : Queued(c) \in Row /\ Queued(c).content = c
  /\ Refused \in Row /\ Refused.content = NoContent /\ Refused.state = "suppressed"
  <1>1. 0 \in 0..MaxAttempts /\ 0 < MaxAttempts
    BY AttemptsAssumption
  <1>2. ASSUME NEW c \in Contents \cup {NoContent}
        PROVE  Queued(c) \in Row /\ Queued(c).content = c
    BY <1>1 DEF Queued, Row, States
  <1>3. QED
    BY <1>2 DEF Refused, Row, States

LEMMA RequeuedType ==
  ASSUME NEW row \in Row
  PROVE  /\ Requeued(row) \in Row
         /\ Requeued(row).content = row.content
         /\ Requeued(row).fresh = row.fresh
         /\ Requeued(row).attempts = 0
         /\ Requeued(row).state = "pending"
  <1>1. 0 \in 0..MaxAttempts
    BY AttemptsAssumption
  <1>2. QED
    BY <1>1 DEF Requeued, Row, States

LEMMA ResultType ==
  ASSUME NEW row \in Row, NEW read \in 0..MaxAttempts, read < MaxAttempts,
         NEW outcome \in Outcomes
  PROVE  LET new == Result(row, read, outcome)
         IN  /\ new \in Row
             /\ new.content = row.content
             /\ new.fresh = row.fresh
             /\ new.state = "pending" => row.state = "pending" /\ new.attempts < MaxAttempts
             /\ new.state = "suppressed" => row.state = "suppressed" \/ outcome = "refused"
             /\ outcome = "sent" => new.state = "sent"
             /\ outcome = "refused" => new.state = "suppressed"
  <1> DEFINE n == read + 1
             state == IF Waits(read, outcome) THEN row.state ELSE Final(outcome)
             due == row.due /\ ~Waits(read, outcome)
             new == Result(row, read, outcome)
  <1>1. n \in 0..MaxAttempts
    BY AttemptsAssumption
  <1>2. /\ state \in States
        /\ state = "pending" => row.state = "pending" /\ n < MaxAttempts
        /\ state = "suppressed" => row.state = "suppressed" \/ outcome = "refused"
        /\ outcome = "sent" => state = "sent"
        /\ outcome = "refused" => state = "suppressed"
    BY DEF Waits, Final, Row, States, Outcomes
  <1>3. due \in BOOLEAN
    OBVIOUS
  <1>4. new = [row EXCEPT !.attempts = n, !.state = state, !.due = due]
    BY DEF Result
  <1> HIDE DEF n, state, due
  <1>5. QED
    BY <1>1, <1>2, <1>3, <1>4 DEF Row, new
-----------------------------------------------------------------------------
(* Type correctness.  Rows are never deleted, and a message without        *)
(* content is suppressed from the start, so what a pass or an operator     *)
(* holds is a row of a real message.  A pass holds it with an attempt left *)
(* because it was pending when it was read, and so the attempts of a       *)
(* pending row belong to the same induction.                               *)

Real(m) == m \in Messages /\ outbox[m] \in Row /\ outbox[m].content \in Contents

Left(n) == n \in 0..MaxAttempts /\ n < MaxAttempts

RowsInv ==
    \A m \in Messages : outbox[m] \in Row =>
        /\ outbox[m].content = NoContent => outbox[m].state = "suppressed"
        /\ Pending(m) => Left(outbox[m].attempts)

PassFits(p) ==
    pass[p] # IdlePass =>
        /\ pass[p].msg \in DOMAIN pass[p].batch
        /\ \A m \in DOMAIN pass[p].batch : Real(m) /\ Left(pass[p].batch[m])
        /\ pass[p].pc = "flag" => ~ByEmail(pass[p].msg)

CallFits(h) == call[h].pc = "requeue" => Real(call[h].msg)

TypeInv == /\ TypeOK
           /\ RowsInv
           /\ \A p \in Passes : PassFits(p)
           /\ \A h \in Handlers : CallFits(h)

(* What every step does to the table: rows stay, and keep their contents.  *)
KeepsRows ==
    \A m \in Messages : outbox[m] \in Row =>
        outbox'[m] \in Row /\ outbox'[m].content = outbox[m].content

LEMMA BatchType ==
  ASSUME NEW f, NEW S \in SUBSET Messages, f \in [S -> 0..MaxAttempts]
  PROVE  f \in UNION {[T -> 0..MaxAttempts] : T \in SUBSET Messages}
  OBVIOUS

LEMMA ActivePass ==
  ASSUME TypeInv, NEW p \in Passes, pass[p].pc # "idle"
  PROVE  /\ pass[p] \in Pass /\ pass[p] # IdlePass
         /\ pass[p].msg \in Messages /\ pass[p].outcome \in Outcomes
         /\ Real(pass[p].msg) /\ Left(pass[p].batch[pass[p].msg])
         /\ DOMAIN pass[p].batch \in SUBSET Messages
         /\ pass[p].batch \in [DOMAIN pass[p].batch -> 0..MaxAttempts]
  <1>1. pass[p] \in Pass /\ pass[p] # IdlePass
    BY DEF TypeInv, TypeOK, IdlePass
  <1>2. PassFits(p)
    BY DEF TypeInv
  <1>3. PICK S \in SUBSET Messages : pass[p].batch \in [S -> 0..MaxAttempts]
    BY <1>1 DEF Pass
  <1>4. S = DOMAIN pass[p].batch
    BY <1>3
  <1>5. pass[p].msg \in Messages /\ pass[p].outcome \in Outcomes
    BY <1>1 DEF Pass
  <1>6. Real(pass[p].msg) /\ Left(pass[p].batch[pass[p].msg])
    BY <1>1, <1>2 DEF PassFits
  <1>7. QED
    BY <1>1, <1>3, <1>4, <1>5, <1>6

LEMMA WrittenRow ==
  ASSUME TypeInv, NEW m \in Messages, NEW row \in Row,
         outbox' = [outbox EXCEPT ![m] = row],
         outbox[m] \in Row => row.content = outbox[m].content,
         row.content = NoContent => row.state = "suppressed",
         row.state = "pending" => Left(row.attempts)
  PROVE  /\ outbox' \in [Messages -> Row \cup {absent}]
         /\ RowsInv'
         /\ KeepsRows
  BY DEF TypeInv, TypeOK, RowsInv, KeepsRows, Pending

LEMMA KeptRows ==
  ASSUME TypeInv, outbox' = outbox
  PROVE  /\ outbox' \in [Messages -> Row \cup {absent}]
         /\ RowsInv'
         /\ KeepsRows
  BY DEF TypeInv, TypeOK, RowsInv, KeepsRows, Pending

LEMMA StillReal ==
  ASSUME KeepsRows, NEW m, Real(m)
  PROVE  Real(m)' /\ (ByEmail(m)' <=> ByEmail(m))
  BY DEF KeepsRows, Real, ByEmail

LEMMA PassKept ==
  ASSUME TypeInv, KeepsRows, NEW p \in Passes, pass'[p] = pass[p]
  PROVE  pass'[p] \in Pass \cup {IdlePass} /\ PassFits(p)'
  <1>1. PassFits(p) /\ pass[p] \in Pass \cup {IdlePass}
    BY DEF TypeInv, TypeOK
  <1>2. SUFFICES ASSUME pass[p] # IdlePass
                 PROVE  PassFits(p)'
    BY <1>1 DEF PassFits
  <1>3. \A m \in DOMAIN pass[p].batch : Real(m)' /\ (ByEmail(m)' <=> ByEmail(m))
    BY <1>1, <1>2, StillReal DEF PassFits
  <1>4. QED
    BY <1>1, <1>2, <1>3 DEF PassFits

LEMMA CallKept ==
  ASSUME TypeInv, KeepsRows, NEW h \in Handlers, call'[h] = call[h]
  PROVE  call'[h] \in Call \cup {IdleCall} /\ CallFits(h)'
  <1>1. CallFits(h) /\ call[h] \in Call \cup {IdleCall}
    BY DEF TypeInv, TypeOK
  <1>2. call[h].pc = "requeue" => Real(call[h].msg)'
    BY <1>1, StillReal DEF CallFits
  <1>3. QED
    BY <1>1, <1>2 DEF CallFits

LEMMA TypeInit ==
  ASSUME Init
  PROVE  TypeInv
  <1>1. /\ 0 \in Nat /\ TRUE \in BOOLEAN /\ IdlePass.pc = "idle" /\ IdleCall.pc = "idle"
        /\ \A m \in Messages : outbox[m] = absent
    BY DEF Init, IdlePass, IdleCall
  <1>2. TypeOK
    BY <1>1 DEF Init, TypeOK
  <1>3. RowsInv
    BY <1>1, AbsentIsNoRow DEF RowsInv
  <1>4. \A p \in Passes : PassFits(p)
    BY DEF Init, PassFits
  <1>5. \A h \in Handlers : CallFits(h)
    BY <1>1 DEF Init, CallFits
  <1>6. QED
    BY <1>2, <1>3, <1>4, <1>5 DEF TypeInv

(* The conjuncts every step leaves alone or counts up.                     *)
CountsOK == /\ reachable \in [Contacts -> BOOLEAN]
            /\ mailer \in BOOLEAN
            /\ accepted \in [Passes -> [Messages -> Nat]]
            /\ excused \in [Passes -> [Messages -> Nat]]
            /\ retries \in [Messages -> Nat]
            /\ begun \in Nat
            /\ mishaps \in Nat

LEMMA CountType ==
  ASSUME NEW f \in [Passes -> [Messages -> Nat]], NEW p \in Passes, NEW m \in Messages
  PROVE  Count(f, p, m) \in [Passes -> [Messages -> Nat]]
  BY DEF Count

LEMMA CountsType ==
  ASSUME TypeInv, [Next]_vars
  PROVE  CountsOK'
  <1> USE DEF CountsOK, vars, history
  <1>0. CountsOK /\ begun + 1 \in Nat /\ mishaps + 1 \in Nat
    BY DEF TypeInv, TypeOK
  <1>1. ASSUME NEW h \in Handlers, HandlerStep(h)
        PROVE  CountsOK'
    <2>1. CASE RetryWrite(h)
      <3>1. call[h].msg \in Messages
        BY <2>1 DEF RetryWrite, TypeInv, CallFits, Real
      <3>2. QED
        BY <1>0, <2>1, <3>1 DEF RetryWrite
    <2>2. CASE ~RetryWrite(h)
      BY <1>0, <1>1, <2>2 DEF HandlerStep, EnqueueCount, EnqueueInsert, RecordSuppression,
                              RetryRead
    <2>3. QED
      BY <2>1, <2>2
  <1>2. ASSUME NEW p \in Passes, PassStep(p)
        PROVE  CountsOK'
    <2>1. CASE Send(p)
      <3>1. Count(accepted, p, pass[p].msg) \in [Passes -> [Messages -> Nat]]
        BY <1>0, <2>1, ActivePass, CountType DEF Send
      <3>2. QED
        BY <1>0, <2>1, <3>1 DEF Send
    <2>2. CASE SendUnanswered(p)
      <3>1. /\ Count(accepted, p, pass[p].msg) \in [Passes -> [Messages -> Nat]]
            /\ Count(excused, p, pass[p].msg) \in [Passes -> [Messages -> Nat]]
        BY <1>0, <2>2, ActivePass, CountType DEF SendUnanswered
      <3>2. QED
        BY <1>0, <2>2, <3>1 DEF SendUnanswered
    <2>3. CASE Flag(p)
      <3>1. (pass[p].outcome = "sent") \in BOOLEAN
        OBVIOUS
      <3>2. QED
        BY <1>0, <2>3, <3>1 DEF Flag
    <2>4. CASE Select(p) \/ Record(p)
      BY <1>0, <2>4 DEF Select, Record
    <2>5. QED
      BY <1>2, <2>1, <2>2, <2>3, <2>4 DEF PassStep
  <1>3. ASSUME NEW P \in SUBSET Passes, Lost(P)
        PROVE  excused' \in [Passes -> [Messages -> Nat]]
    <2>1. \A p \in Passes, m \in Messages : excused[p][m] \in Nat /\ excused[p][m] + 1 \in Nat
      BY <1>0
    <2>2. QED
      BY <1>3, <2>1 DEF Lost
  <1>4. ASSUME NEW p \in Passes, CutOff(p)
        PROVE  CountsOK'
    BY <1>0, <1>3, <1>4 DEF CutOff
  <1>5. CASE Restart
    BY <1>0, <1>3, <1>5 DEF Restart
  <1>6. ASSUME NEW m \in Messages, BecomesDue(m) \/ Ages(m)
        PROVE  CountsOK'
    BY <1>0, <1>6 DEF BecomesDue, Ages
  <1>7. CASE UNCHANGED vars
    BY <1>0, <1>7
  <1>8. QED
    BY <1>1, <1>2, <1>4, <1>5, <1>6, <1>7 DEF Next

(* The table after a step.                                                 *)
TableOK == outbox \in [Messages -> Row \cup {absent}] /\ RowsInv

LEMMA InsertKeepsTable ==
  ASSUME TypeInv, NEW row \in Row, Insert(row),
         row.content = NoContent => row.state = "suppressed",
         row.state = "pending" => Left(row.attempts)
  PROVE  TableOK' /\ KeepsRows
  <1>1. PICK m \in Messages : ~Exists(m) /\ outbox' = [outbox EXCEPT ![m] = row]
    BY DEF Insert
  <1>2. outbox[m] \notin Row
    BY <1>1, AbsentIsNoRow DEF Exists
  <1>3. QED
    BY <1>1, <1>2, WrittenRow DEF TableOK

LEMMA TableStep ==
  ASSUME TypeInv, [Next]_vars
  PROVE  TableOK' /\ KeepsRows
  <1> USE DEF vars
  <1>1. ASSUME NEW h \in Handlers, HandlerStep(h)
        PROVE  TableOK' /\ KeepsRows
    <2>1. CASE EnqueueInsert(h)
      <3>1. call[h].content \in Contents
        BY <2>1 DEF EnqueueInsert, TypeInv, TypeOK, Call, IdleCall
      <3>2. /\ Queued(call[h].content) \in Row
            /\ Queued(call[h].content).content # NoContent
            /\ Left(Queued(call[h].content).attempts)
        BY <3>1, QueuedType, ContentsAssumption, AttemptsAssumption DEF Queued, Left
      <3>3. QED
        BY <2>1, <3>2, InsertKeepsTable DEF EnqueueInsert
    <2>2. CASE RecordSuppression(h)
      <3>1. Refused.state # "pending"
        BY QueuedType
      <3>2. QED
        BY <2>2, <3>1, QueuedType, InsertKeepsTable DEF RecordSuppression
    <2>3. CASE RetryWrite(h)
      <3> DEFINE m == call[h].msg
      <3>1. Real(m)
        BY <2>3 DEF RetryWrite, TypeInv, CallFits
      <3>2. /\ Requeued(outbox[m]) \in Row
            /\ Requeued(outbox[m]).content = outbox[m].content
            /\ Left(Requeued(outbox[m]).attempts)
        BY <3>1, RequeuedType, AttemptsAssumption DEF Real, Left
      <3>3. outbox' = [outbox EXCEPT ![m] = Requeued(outbox[m])]
        BY <2>3 DEF RetryWrite
      <3>4. m \in Messages /\ Requeued(outbox[m]).content # NoContent
        BY <3>1, <3>2, ContentsAssumption DEF Real
      <3> HIDE DEF m
      <3>5. QED
        BY <3>2, <3>3, <3>4, WrittenRow DEF TableOK
    <2>4. CASE (\E c \in Contents : EnqueueCount(h, c)) \/ (\E m \in Messages : RetryRead(h, m))
      BY <2>4, KeptRows DEF EnqueueCount, RetryRead, TableOK
    <2>5. QED
      BY <1>1, <2>1, <2>2, <2>3, <2>4 DEF HandlerStep
  <1>2. ASSUME NEW p \in Passes, Record(p)
        PROVE  TableOK' /\ KeepsRows
    <2> DEFINE m == pass[p].msg
               read == pass[p].batch[m]
               new == Result(outbox[m], read, pass[p].outcome)
    <2>1. Real(m) /\ Left(read) /\ pass[p].outcome \in Outcomes
      BY <1>2, ActivePass DEF Record
    <2>2. /\ new \in Row
          /\ new.content = outbox[m].content
          /\ new.state = "pending" => Left(new.attempts)
      BY <2>1, ResultType DEF Real, Left, Row
    <2>3. outbox' = [outbox EXCEPT ![m] = new]
      BY <1>2 DEF Record
    <2>4. m \in Messages /\ new.content # NoContent
      BY <2>1, <2>2, ContentsAssumption DEF Real
    <2> HIDE DEF m, new
    <2>5. QED
      BY <2>2, <2>3, <2>4, WrittenRow DEF TableOK
  <1>3. ASSUME NEW m \in Messages, BecomesDue(m) \/ Ages(m)
        PROVE  TableOK' /\ KeepsRows
    <2>1. outbox[m] \in Row
      BY <1>3 DEF BecomesDue, Ages, Pending, Exists, TypeInv, TypeOK, absent
    <2>2. PICK row \in Row : /\ outbox' = [outbox EXCEPT ![m] = row]
                             /\ row.content = outbox[m].content
                             /\ row.state = outbox[m].state
                             /\ row.attempts = outbox[m].attempts
      <3>1. CASE BecomesDue(m)
        <4> DEFINE row == [outbox[m] EXCEPT !.due = TRUE]
        <4>1. row \in Row /\ row.content = outbox[m].content
              /\ row.state = outbox[m].state /\ row.attempts = outbox[m].attempts
          BY <2>1 DEF Row
        <4>2. outbox' = [outbox EXCEPT ![m] = row]
          BY <3>1 DEF BecomesDue
        <4>3. QED
          BY <4>1, <4>2
      <3>2. CASE Ages(m)
        <4> DEFINE row == [outbox[m] EXCEPT !.fresh = FALSE]
        <4>1. row \in Row /\ row.content = outbox[m].content
              /\ row.state = outbox[m].state /\ row.attempts = outbox[m].attempts
          BY <2>1 DEF Row
        <4>2. outbox' = [outbox EXCEPT ![m] = row]
          BY <3>2 DEF Ages
        <4>3. QED
          BY <4>1, <4>2
      <3>3. QED
        BY <1>3, <3>1, <3>2
    <2>3. /\ row.content = NoContent => row.state = "suppressed"
          /\ row.state = "pending" => Left(row.attempts)
      BY <2>1, <2>2 DEF TypeInv, RowsInv, Pending
    <2>4. QED
      BY <2>2, <2>3, WrittenRow DEF TableOK
  <1>4. ASSUME UNCHANGED outbox
        PROVE  TableOK' /\ KeepsRows
    BY <1>4, KeptRows DEF TableOK
  <1>5. QED
    BY <1>1, <1>2, <1>3, <1>4 DEF Next, PassStep, Select, Send, SendUnanswered, Flag,
                                  CutOff, Restart

(* A pass after a step.  Its new value s keeps what it holds from the old  *)
(* batch, or from the rows that were due.                                  *)
PassOK(p) == pass[p] \in Pass \cup {IdlePass} /\ PassFits(p)

LEMMA NewPass ==
  ASSUME TypeInv, KeepsRows, NEW p \in Passes,
         NEW pc \in {"send", "flag", "record"}, NEW m,
         NEW S \in SUBSET Messages, NEW batch \in [S -> 0..MaxAttempts],
         NEW outcome \in Outcomes,
         m \in S,
         \A n \in S : Real(n) /\ Left(batch[n]),
         pc = "flag" => ~ByEmail(m),
         pass'[p] = InHand(pc, batch, m, outcome)
  PROVE  PassOK(p)'
  <1>1. batch \in UNION {[T -> 0..MaxAttempts] : T \in SUBSET Messages}
    BY BatchType
  <1>2. m \in Messages
    OBVIOUS
  <1>3. pass'[p] \in Pass
    BY <1>1, <1>2 DEF Pass, InHand
  <1>4. \A n \in S : Real(n)' /\ (ByEmail(n)' <=> ByEmail(n))
    BY StillReal
  <1>5. DOMAIN batch = S
    OBVIOUS
  <1> HIDE DEF Pass
  <1>6. PassFits(p)'
    BY <1>4, <1>5 DEF PassFits, InHand
  <1>7. QED
    BY <1>3, <1>6 DEF PassOK

(* A step on a message in hand changes the pc and the outcome only.        *)
LEMMA AdvancedPass ==
  ASSUME TypeInv, KeepsRows, NEW p \in Passes, pass[p].pc # "idle",
         NEW pc \in {"flag", "record"}, NEW outcome \in Outcomes,
         pc = "flag" => ~ByEmail(pass[p].msg),
         pass'[p] = InHand(pc, pass[p].batch, pass[p].msg, outcome)
  PROVE  PassOK(p)'
  <1>1. /\ pass[p] # IdlePass
        /\ DOMAIN pass[p].batch \in SUBSET Messages
        /\ pass[p].batch \in [DOMAIN pass[p].batch -> 0..MaxAttempts]
    BY ActivePass
  <1>2. /\ pass[p].msg \in DOMAIN pass[p].batch
        /\ \A n \in DOMAIN pass[p].batch : Real(n) /\ Left(pass[p].batch[n])
    BY <1>1 DEF TypeInv, PassFits
  <1>3. pc \in {"send", "flag", "record"}
    OBVIOUS
  <1>4. QED
    BY <1>1, <1>2, <1>3, NewPass

LEMMA PassesStep ==
  ASSUME TypeInv, [Next]_vars, KeepsRows, NEW p \in Passes
  PROVE  PassOK(p)' /\ pass' = [r \in Passes |-> pass'[r]]
  <1> DEFINE kept == pass'[p] = pass[p]
  <1>0. /\ pass \in [Passes -> Pass \cup {IdlePass}]
        /\ kept => PassOK(p)'
        /\ pass'[p] = IdlePass => PassOK(p)'
    BY PassKept DEF TypeInv, TypeOK, PassOK, PassFits
  <1>1. ASSUME NEW q \in Passes, PassStep(q)
        PROVE  \E s : /\ pass' = [pass EXCEPT ![q] = s]
                      /\ q = p => PassOK(p)'
    <2>1. CASE Select(q)
      <3> DEFINE batch == [n \in Due |-> outbox[n].attempts]
      <3>1. PICK m \in Due : pass' = [pass EXCEPT ![q] = Taken(batch, m)]
        BY <2>1 DEF Select
      <3>2. \A n \in Due : Real(n) /\ Left(outbox[n].attempts)
        BY ContentsAssumption DEF Due, Pending, Real, TypeInv, TypeOK, RowsInv, Row, absent
      <3>3. /\ batch \in [Due -> 0..MaxAttempts] /\ Due \in SUBSET Messages
            /\ \A n \in Due : Real(n) /\ Left(batch[n])
        BY <3>2 DEF Left, Due
      <3>4. "send" \in {"send", "flag", "record"} /\ "retry" \in Outcomes /\ "send" # "flag"
        BY DEF Outcomes
      <3> HIDE DEF batch
      <3>5. ASSUME q = p PROVE PassOK(p)'
        <4>1. pass'[p] = InHand("send", batch, m, "retry")
          BY <1>0, <3>1, <3>5 DEF Taken
        <4>2. QED
          BY <3>3, <3>4, <4>1, NewPass
      <3>6. QED
        BY <3>1, <3>5
    <2>2. CASE Send(q) \/ SendUnanswered(q)
      <3>1. PICK outcome \in Outcomes : Answered(q, outcome)
        <4>1. Answers(pass[q].msg) \subseteq Outcomes /\ "retry" \in Outcomes
          BY DEF Answers, MailAnswers, Bounced, Outcomes
        <4>2. QED
          BY <2>2, <4>1 DEF Send, SendUnanswered
      <3> DEFINE m == pass[q].msg
                 pc == IF TellsOfContact(m, outcome) THEN "flag" ELSE "record"
      <3>2. pass' = [pass EXCEPT ![q] = InHand(pc, pass[q].batch, m, outcome)]
        BY <3>1 DEF Answered
      <3>3. pc \in {"flag", "record"} /\ (pc = "flag" => ~ByEmail(m))
        BY DEF TellsOfContact
      <3>4. pass[q].pc # "idle"
        BY <2>2 DEF Send, SendUnanswered
      <3> HIDE DEF pc
      <3>5. ASSUME q = p PROVE PassOK(p)'
        <4>1. pass'[p] = InHand(pc, pass[p].batch, pass[p].msg, outcome)
          BY <1>0, <3>2, <3>5
        <4>2. QED
          BY <3>3, <3>4, <3>5, <4>1, AdvancedPass
      <3>6. QED
        BY <3>2, <3>5
    <2>3. CASE Flag(q)
      <3>1. /\ pass[q].pc # "idle"
            /\ pass' = [pass EXCEPT ![q] =
                  InHand("record", pass[q].batch, pass[q].msg, pass[q].outcome)]
        BY <2>3 DEF Flag
      <3>2. pass[q].outcome \in Outcomes /\ "record" \in {"flag", "record"} /\ "record" # "flag"
        BY <3>1, ActivePass
      <3>3. ASSUME q = p PROVE PassOK(p)'
        <4>1. pass'[p] = InHand("record", pass[p].batch, pass[p].msg, pass[p].outcome)
          BY <1>0, <3>1, <3>3
        <4>2. QED
          BY <3>1, <3>2, <3>3, <4>1, AdvancedPass
      <3>4. QED
        BY <3>1, <3>3
    <2>4. CASE Record(q)
      <3> DEFINE batch == pass[q].batch
                 rest == DOMAIN batch \ {pass[q].msg}
      <3>1. CASE pass' = [pass EXCEPT ![q] = IdlePass]
        BY <1>0, <3>1
      <3>2. CASE \E n \in rest : pass' = [pass EXCEPT ![q] = Taken([k \in rest |-> batch[k]], n)]
        <4> DEFINE new == [k \in rest |-> batch[k]]
        <4>1. PICK n \in rest : pass' = [pass EXCEPT ![q] = Taken(new, n)]
          BY <3>2
        <4>2. \A k \in rest : Real(k) /\ Left(batch[k])
          BY <2>4, ActivePass DEF Record, TypeInv, PassFits
        <4>3. /\ rest \in SUBSET Messages /\ new \in [rest -> 0..MaxAttempts]
              /\ \A k \in rest : Real(k) /\ Left(new[k])
          BY <4>2 DEF Left, Real
        <4>4. "send" \in {"send", "flag", "record"} /\ "retry" \in Outcomes /\ "send" # "flag"
          BY DEF Outcomes
        <4> HIDE DEF rest, new
        <4>5. ASSUME q = p PROVE PassOK(p)'
          <5>1. pass'[p] = InHand("send", new, n, "retry")
            BY <1>0, <4>1, <4>5 DEF Taken
          <5>2. QED
            BY <4>3, <4>4, <5>1, NewPass
        <4>6. QED
          BY <4>1, <4>5
      <3>3. QED
        BY <2>4, <3>1, <3>2 DEF Record
    <2>5. QED
      BY <1>1, <2>1, <2>2, <2>3, <2>4 DEF PassStep
  <1>2. ASSUME NEW q \in Passes, CutOff(q)
        PROVE  PassOK(p)' /\ pass' = [r \in Passes |-> pass'[r]]
    BY <1>0, <1>2 DEF CutOff
  <1>3. CASE Restart
    BY <1>0, <1>3 DEF Restart
  <1>4. ASSUME UNCHANGED pass
        PROVE  PassOK(p)' /\ pass' = [r \in Passes |-> pass'[r]]
    BY <1>0, <1>4
  <1>5. ASSUME NEW q \in Passes, PassStep(q)
        PROVE  PassOK(p)' /\ pass' = [r \in Passes |-> pass'[r]]
    <2>1. PICK s : pass' = [pass EXCEPT ![q] = s] /\ (q = p => PassOK(p)')
      BY <1>1, <1>5
    <2>2. QED
      BY <1>0, <2>1
  <1>6. QED
    BY <1>2, <1>3, <1>4, <1>5 DEF Next, vars, HandlerStep, EnqueueCount, EnqueueInsert,
           RecordSuppression, RetryRead, RetryWrite, BecomesDue, Ages

LEMMA CallsStep ==
  ASSUME TypeInv, [Next]_vars, KeepsRows
  PROVE  /\ call' \in [Handlers -> Call \cup {IdleCall}]
         /\ \A h \in Handlers : CallFits(h)'
  <1> DEFINE OK == /\ call' \in [Handlers -> Call \cup {IdleCall}]
                   /\ \A h \in Handlers : CallFits(h)'
  <1>0. /\ call \in [Handlers -> Call \cup {IdleCall}]
        /\ IdleCall.pc # "requeue"
        /\ \A h \in Handlers : call'[h] = call[h] => CallFits(h)'
    BY CallKept DEF TypeInv, TypeOK, IdleCall
  <1>1. ASSUME NEW h \in Handlers, NEW s \in Call \cup {IdleCall},
               s.pc = "requeue" => Real(s.msg), call' = [call EXCEPT ![h] = s]
        PROVE  OK
    <2>1. call'[h] = s /\ \A k \in Handlers \ {h} : call'[k] = call[k]
      BY <1>0, <1>1
    <2>2. s.pc = "requeue" => Real(s.msg)'
      BY <1>1, StillReal
    <2>3. CallFits(h)'
      BY <2>1, <2>2 DEF CallFits
    <2>4. QED
      BY <1>0, <1>1, <2>1, <2>3
  <1>2. ASSUME NEW h \in Handlers, HandlerStep(h)
        PROVE  OK
    <2>1. CASE \E c \in Contents : EnqueueCount(h, c)
      <3>1. PICK c \in Contents : call' = [call EXCEPT ![h] = [pc |-> "insert", content |-> c]]
        BY <2>1 DEF EnqueueCount
      <3> DEFINE s == [pc |-> "insert", content |-> c]
      <3>2. s \in Call /\ s.pc # "requeue"
        BY DEF Call
      <3> HIDE DEF OK, s
      <3>3. QED
        BY <1>1, <3>1, <3>2 DEF s
    <2>2. CASE \E m \in Messages : RetryRead(h, m)
      <3>1. PICK m \in Messages : RetryRead(h, m)
        BY <2>2
      <3> DEFINE s == [pc |-> "requeue", msg |-> m]
      <3>2. s \in Call /\ s.msg = m
        BY DEF Call
      <3>3. Real(m)
        BY <3>1 DEF RetryRead, Retryable, Exists, Real, TypeInv, TypeOK, RowsInv, Row, Contents
      <3>4. call' = [call EXCEPT ![h] = s]
        BY <3>1 DEF RetryRead
      <3> HIDE DEF OK, s
      <3>5. QED
        BY <1>1, <3>2, <3>3, <3>4
    <2>3. CASE EnqueueInsert(h) \/ RetryWrite(h)
      <3>1. call' = [call EXCEPT ![h] = IdleCall]
        BY <2>3 DEF EnqueueInsert, RetryWrite
      <3>2. QED
        BY <1>0, <1>1, <3>1
    <2>4. CASE RecordSuppression(h)
      BY <1>0, <2>4 DEF RecordSuppression
    <2>5. QED
      BY <1>2, <2>1, <2>2, <2>3, <2>4 DEF HandlerStep
  <1>3. CASE Restart
    <2>1. \A h \in Handlers : call'[h] = IdleCall
      BY <1>3 DEF Restart
    <2>2. \A h \in Handlers : CallFits(h)'
      BY <1>0, <2>1 DEF CallFits
    <2>3. QED
      BY <1>3, <2>2 DEF Restart
  <1>4. ASSUME UNCHANGED call
        PROVE  OK
    BY <1>0, <1>4
  <1>5. QED
    BY <1>2, <1>3, <1>4 DEF Next, vars, PassStep, Select, Send, SendUnanswered, Flag, Record,
                            CutOff, BecomesDue, Ages

LEMMA TypeStep ==
  ASSUME TypeInv, [Next]_vars
  PROVE  TypeInv'
  <1>1. TableOK' /\ KeepsRows
    BY TableStep
  <1>2. CountsOK'
    BY CountsType
  <1>3. /\ \A p \in Passes : PassOK(p)'
        /\ pass' \in [Passes -> Pass \cup {IdlePass}]
    <2>1. CASE Passes = {}
      <3>1. pass' = [p \in {} |-> IdlePass] \/ pass' = pass
        BY <2>1 DEF Next, vars, PassStep, HandlerStep, EnqueueCount, EnqueueInsert,
             RecordSuppression, RetryRead, RetryWrite, BecomesDue, Ages, Restart
      <3>2. QED
        BY <2>1, <3>1 DEF TypeInv, TypeOK
    <2>2. CASE Passes # {}
      <3>1. /\ \A p \in Passes : PassOK(p)'
            /\ pass' = [r \in Passes |-> pass'[r]]
        BY <1>1, <2>2, PassesStep
      <3>2. \A p \in Passes : pass'[p] \in Pass \cup {IdlePass}
        BY <3>1 DEF PassOK
      <3>3. QED
        BY <3>1, <3>2
    <2>3. QED
      BY <2>1, <2>2
  <1>4. /\ call' \in [Handlers -> Call \cup {IdleCall}]
        /\ \A h \in Handlers : CallFits(h)'
    BY <1>1, CallsStep
  <1>5. QED
    BY <1>1, <1>2, <1>3, <1>4 DEF TypeInv, TypeOK, TableOK, CountsOK, PassOK

LEMMA TypeAlways == Spec => []TypeInv
  <1>1. Init => TypeInv
    BY TypeInit
  <1>2. TypeInv /\ [Next]_vars => TypeInv'
    BY TypeStep
  <1>3. QED
    BY <1>1, <1>2, PTL DEF Spec

(* The outbox, its passes and its handlers keep their types.               *)
THEOREM OutboxTypeCorrect == Spec => []TypeOK
  <1>1. TypeInv => TypeOK
    BY DEF TypeInv
  <1>2. QED
    BY <1>1, TypeAlways, PTL

(* A message that waits has an attempt left: a result is recorded with the *)
(* attempts as read, which were those of a pending row, and leaves the     *)
(* message pending only when one more is allowed.                          *)
THEOREM AttemptsAlwaysRemain == Spec => []AttemptsRemain
  <1>1. TypeInv => AttemptsRemain
    BY DEF TypeInv, TypeOK, RowsInv, AttemptsRemain, Pending, Left, absent
  <1>2. QED
    BY <1>1, TypeAlways, PTL
-----------------------------------------------------------------------------
(* Duplicates.  While p may still send m, because m is pending or in the   *)
(* batch of p, the allowance of p for m has one acceptance left, unless p  *)
(* has just had m accepted and is about to record it.                      *)

InBatch(p, m) == pass[p].pc # "idle" /\ m \in DOMAIN pass[p].batch

MaySend(p, m) == (Pending(m) \/ InBatch(p, m)) /\ ~Holds(p, m)

Allowance(p, m) == retries[m] + excused[p][m]

DuplicatesAt(p, m) ==
    /\ accepted[p][m] <= 1 + Allowance(p, m)
    /\ MaySend(p, m) \/ ~Exists(m) => accepted[p][m] <= Allowance(p, m)

DuplicatesInv == \A p \in Passes, m \in Messages : DuplicatesAt(p, m)

(* What is enough for a step to keep the invariant at p and m.             *)
LEMMA CountsAreNumbers ==
  ASSUME TypeInv, NEW p \in Passes, NEW m \in Messages
  PROVE  /\ accepted[p][m] \in Nat /\ excused[p][m] \in Nat /\ retries[m] \in Nat
         /\ Allowance(p, m) \in Nat
  BY DEF TypeInv, TypeOK, Allowance

LEMMA CountAt ==
  ASSUME NEW f \in [Passes -> [Messages -> Nat]], NEW p \in Passes, NEW m \in Messages,
         NEW q \in Passes, NEW n \in Messages
  PROVE  Count(f, p, m)[q][n] = IF q = p /\ n = m THEN f[q][n] + 1 ELSE f[q][n]
  BY DEF Count

LEMMA DuplicatesInit ==
  ASSUME Init
  PROVE  DuplicatesInv
  BY DEF Init, DuplicatesInv, DuplicatesAt, Allowance

(* The histories stay and p may not begin to be able to send m.            *)
LEMMA DuplicatesKept ==
  ASSUME TypeInv, DuplicatesInv, NEW p \in Passes, NEW m \in Messages,
         accepted'[p][m] = accepted[p][m], Allowance(p, m)' = Allowance(p, m),
         MaySend(p, m)' \/ ~Exists(m)' => MaySend(p, m) \/ ~Exists(m)
  PROVE  DuplicatesAt(p, m)'
  BY DEF DuplicatesInv, DuplicatesAt

LEMMA DuplicatesStep ==
  ASSUME TypeInv, [Next]_vars, DuplicatesInv
  PROVE  DuplicatesInv'
  <1> SUFFICES ASSUME NEW p \in Passes, NEW m \in Messages
               PROVE  DuplicatesAt(p, m)'
    BY DEF DuplicatesInv
  <1> USE DEF history
  <1>0. /\ accepted[p][m] \in Nat /\ excused[p][m] \in Nat /\ retries[m] \in Nat
        /\ accepted[p][m] <= 1 + Allowance(p, m)
        /\ MaySend(p, m) \/ ~Exists(m) => accepted[p][m] <= Allowance(p, m)
        /\ KeepsRows
        /\ pass \in [Passes -> Pass \cup {IdlePass}]
        /\ outbox \in [Messages -> Row \cup {absent}]
    BY CountsAreNumbers, TableStep DEF DuplicatesInv, DuplicatesAt, TypeInv, TypeOK
  <1>c. accepted \in [Passes -> [Messages -> Nat]] /\ excused \in [Passes -> [Messages -> Nat]]
    BY DEF TypeInv, TypeOK
  <1>e. Exists(m) => Exists(m)' /\ outbox'[m] \in Row
    BY <1>0, AbsentIsNoRow DEF Exists, KeepsRows
  (* Steps that leave the passes and the histories alone.                  *)
  <1>k. ASSUME UNCHANGED <<pass, history>>, Pending(m)' => Pending(m) \/ ~Exists(m)
        PROVE  DuplicatesAt(p, m)'
    <2>1. MaySend(p, m)' \/ ~Exists(m)' => MaySend(p, m) \/ ~Exists(m)
      BY <1>k, <1>e DEF MaySend, InBatch, Holds
    <2>2. accepted'[p][m] = accepted[p][m] /\ Allowance(p, m)' = Allowance(p, m)
      BY <1>k DEF Allowance
    <2>3. QED
      BY <2>1, <2>2, DuplicatesKept
  <1>1. ASSUME NEW h \in Handlers, HandlerStep(h)
        PROVE  DuplicatesAt(p, m)'
    <2>1. CASE EnqueueInsert(h) \/ RecordSuppression(h)
      <3>1. PICK n \in Messages : ~Exists(n) /\ \A k \in Messages \ {n} : outbox'[k] = outbox[k]
        BY <1>0, <2>1 DEF EnqueueInsert, RecordSuppression, Insert
      <3>2. Pending(m)' => Pending(m) \/ ~Exists(m)
        BY <1>0, <3>1 DEF Pending
      <3>3. UNCHANGED <<pass, history>>
        BY <2>1 DEF EnqueueInsert, RecordSuppression
      <3>4. QED
        BY <1>k, <3>2, <3>3
    <2>2. CASE RetryWrite(h)
      <3> DEFINE n == call[h].msg
      <3>1. /\ n \in Messages /\ outbox' = [outbox EXCEPT ![n] = Requeued(outbox[n])]
            /\ retries' = [retries EXCEPT ![n] = @ + 1]
            /\ UNCHANGED <<pass, accepted, excused>>
        BY <2>2 DEF RetryWrite, TypeInv, CallFits, Real
      <3>2. CASE n = m
        BY <1>0, <3>1, <3>2 DEF DuplicatesAt, Allowance, TypeInv, TypeOK
      <3>3. CASE n # m
        <4>1. outbox'[m] = outbox[m] /\ retries'[m] = retries[m]
          BY <1>0, <3>1, <3>3 DEF TypeInv, TypeOK
        <4>2. MaySend(p, m)' \/ ~Exists(m)' => MaySend(p, m) \/ ~Exists(m)
          BY <3>1, <4>1 DEF MaySend, InBatch, Holds, Pending, Exists
        <4>3. accepted'[p][m] = accepted[p][m] /\ Allowance(p, m)' = Allowance(p, m)
          BY <3>1, <4>1 DEF Allowance
        <4>4. QED
          BY <4>2, <4>3, DuplicatesKept
      <3>4. QED
        BY <3>2, <3>3
    <2>3. CASE (\E c \in Contents : EnqueueCount(h, c)) \/ (\E n \in Messages : RetryRead(h, n))
      <3>1. UNCHANGED <<outbox, pass, history>>
        BY <2>3 DEF EnqueueCount, RetryRead
      <3>2. Pending(m)' => Pending(m)
        BY <3>1 DEF Pending
      <3>3. QED
        BY <1>k, <3>1, <3>2
    <2>4. QED
      BY <1>1, <2>1, <2>2, <2>3 DEF HandlerStep
  <1>2. ASSUME NEW n \in Messages, BecomesDue(n) \/ Ages(n)
        PROVE  DuplicatesAt(p, m)'
    <2>1. UNCHANGED <<pass, history>> /\ outbox'[m].state = outbox[m].state
      BY <1>0, <1>2 DEF BecomesDue, Ages, Row, absent
    <2>2. Pending(m)' => Pending(m)
      BY <2>1 DEF Pending
    <2>3. QED
      BY <1>k, <2>1, <2>2
  <1>3. CASE UNCHANGED vars
    <2>1. UNCHANGED <<outbox, pass, history>>
      BY <1>3 DEF vars
    <2>2. Pending(m)' => Pending(m)
      BY <2>1 DEF Pending
    <2>3. QED
      BY <1>k, <2>1, <2>2
  (* Another pass's step does not touch what p holds.                      *)
  <1>4. ASSUME NEW q \in Passes, q # p, PassStep(q)
        PROVE  DuplicatesAt(p, m)'
    <2>1. pass'[p] = pass[p]
      BY <1>0, <1>4 DEF PassStep, Select, Send, SendUnanswered, Answered, Flag, Record
    <2>2. accepted'[p][m] = accepted[p][m] /\ Allowance(p, m)' = Allowance(p, m)
      BY <1>0, <1>4 DEF PassStep, Select, Send, SendUnanswered, Flag, Record, Count,
                        Allowance, TypeInv, TypeOK
    <2>3. Pending(m)' => Pending(m)
      <3>1. CASE Record(q)
        <4> DEFINE n == pass[q].msg
                   new == Result(outbox[n], pass[q].batch[n], pass[q].outcome)
        <4>1. Real(n) /\ Left(pass[q].batch[n]) /\ pass[q].outcome \in Outcomes
          BY <3>1, ActivePass DEF Record
        <4>2. new.state = "pending" => outbox[n].state = "pending"
          BY <4>1, ResultType DEF Real, Left
        <4>3. outbox' = [outbox EXCEPT ![n] = new]
          BY <3>1 DEF Record
        <4> HIDE DEF n, new
        <4>4. QED
          BY <1>0, <4>2, <4>3 DEF Pending
      <3>2. CASE ~Record(q)
        BY <1>4, <3>2 DEF PassStep, Select, Send, SendUnanswered, Flag, Pending
      <3>3. QED
        BY <3>1, <3>2
    <2>4. MaySend(p, m)' \/ ~Exists(m)' => MaySend(p, m) \/ ~Exists(m)
      BY <1>e, <2>1, <2>3 DEF MaySend, InBatch, Holds
    <2>5. QED
      BY <2>2, <2>4, DuplicatesKept
  <1>5. CASE Select(p)
    <2>1. UNCHANGED <<outbox, history>> /\ pass[p].pc = "idle"
      BY <1>5 DEF Select
    <2>2. pass'[p].pc = "send" /\ DOMAIN pass'[p].batch = Due
      BY <1>0, <1>5 DEF Select, Taken, InHand
    <2>3. MaySend(p, m)' \/ ~Exists(m)' => MaySend(p, m) \/ ~Exists(m)
      BY <2>1, <2>2 DEF MaySend, InBatch, Holds, Pending, Exists, Due
    <2>4. accepted'[p][m] = accepted[p][m] /\ Allowance(p, m)' = Allowance(p, m)
      BY <2>1 DEF Allowance
    <2>5. QED
      BY <2>3, <2>4, DuplicatesKept
  <1>6. CASE Send(p) \/ SendUnanswered(p)
    <2> DEFINE n == pass[p].msg
    <2>1. UNCHANGED <<outbox, retries>> /\ pass[p].pc = "send"
      BY <1>6 DEF Send, SendUnanswered
    <2>2. n \in DOMAIN pass[p].batch /\ Real(n) /\ n \in Messages
      BY <2>1, ActivePass DEF TypeInv, PassFits
    <2>3. PICK outcome :
            /\ Answered(p, outcome)
            /\ \/ /\ accepted' = Count(accepted, p, n)
                  /\ excused' = Count(excused, p, n)
               \/ /\ accepted' = Count(accepted, p, n) /\ outcome = "sent"
                  /\ excused' = excused
               \/ UNCHANGED <<accepted, excused>>
      BY <1>6 DEF Send, SendUnanswered
    <2>4. /\ pass'[p].pc \in {"flag", "record"} /\ pass'[p].batch = pass[p].batch
          /\ pass'[p].msg = n /\ pass'[p].outcome = outcome
      BY <1>0, <2>3 DEF Answered, InHand
    <2>5. CASE n # m
      <3>1. accepted'[p][m] = accepted[p][m] /\ Allowance(p, m)' = Allowance(p, m)
        <4>1. /\ Count(accepted, p, n)[p][m] = accepted[p][m]
              /\ Count(excused, p, n)[p][m] = excused[p][m]
          BY <1>c, <2>2, <2>5, CountAt
        <4>2. QED
          BY <2>1, <2>3, <4>1 DEF Allowance
      <3>2. MaySend(p, m)' \/ ~Exists(m)' => MaySend(p, m) \/ ~Exists(m)
        BY <2>1, <2>4, <2>5 DEF MaySend, InBatch, Holds, Pending, Exists
      <3>3. QED
        BY <3>1, <3>2, DuplicatesKept
    <2>6. CASE n = m
      <3>1. accepted[p][m] <= Allowance(p, m)
        BY <1>0, <2>1, <2>2, <2>6 DEF MaySend, InBatch, Holds
      <3>2. Exists(m)'
        BY <2>1, <2>2, <2>6, AbsentIsNoRow DEF Exists, Real
      <3>3. /\ Count(accepted, p, n)[p][m] = accepted[p][m] + 1
            /\ Count(excused, p, n)[p][m] = excused[p][m] + 1
        BY <1>c, <2>2, <2>6, CountAt
      <3>4. CASE accepted' = Count(accepted, p, n) /\ excused' = Count(excused, p, n)
        BY <1>0, <2>1, <3>1, <3>3, <3>4 DEF DuplicatesAt, Allowance
      <3>5. CASE accepted' = Count(accepted, p, n) /\ outcome = "sent" /\ excused' = excused
        <4>1. ~MaySend(p, m)'
          BY <2>4, <2>6, <3>5 DEF MaySend, Holds
        <4>2. QED
          BY <1>0, <2>1, <3>1, <3>2, <3>3, <3>5, <4>1 DEF DuplicatesAt, Allowance
      <3>6. CASE UNCHANGED <<accepted, excused>>
        BY <1>0, <2>1, <3>1, <3>6 DEF DuplicatesAt, Allowance
      <3>7. QED
        BY <2>3, <3>4, <3>5, <3>6
    <2>7. QED
      BY <2>5, <2>6
  <1>7. CASE Flag(p)
    <2>1. UNCHANGED <<outbox, history>> /\ pass[p].pc = "flag"
      BY <1>7 DEF Flag
    <2>2. /\ pass'[p].pc = "record" /\ pass'[p].batch = pass[p].batch
          /\ pass'[p].msg = pass[p].msg /\ pass'[p].outcome = pass[p].outcome
      BY <1>0, <1>7 DEF Flag, InHand
    <2>3. MaySend(p, m)' \/ ~Exists(m)' => MaySend(p, m) \/ ~Exists(m)
      BY <2>1, <2>2 DEF MaySend, InBatch, Holds, Pending, Exists
    <2>4. accepted'[p][m] = accepted[p][m] /\ Allowance(p, m)' = Allowance(p, m)
      BY <2>1 DEF Allowance
    <2>5. QED
      BY <2>3, <2>4, DuplicatesKept
  <1>8. CASE Record(p)
    <2> DEFINE n == pass[p].msg
               new == Result(outbox[n], pass[p].batch[n], pass[p].outcome)
    <2>1. /\ Real(n) /\ Left(pass[p].batch[n]) /\ pass[p].outcome \in Outcomes
          /\ pass[p].pc = "record" /\ n \in DOMAIN pass[p].batch /\ n \in Messages
          /\ UNCHANGED history
      BY <1>8, ActivePass DEF Record, TypeInv, PassFits
    <2>2. /\ new.state = "pending" => outbox[n].state = "pending"
          /\ pass[p].outcome = "sent" => new.state = "sent"
      BY <2>1, ResultType DEF Real, Left
    <2>3. outbox' = [outbox EXCEPT ![n] = new]
      BY <1>8 DEF Record
    <2>4. /\ ~Holds(p, m)'
          /\ InBatch(p, m)' => m \in DOMAIN pass[p].batch /\ m # n
      BY <1>0, <1>8 DEF Record, Taken, InHand, IdlePass, Holds, InBatch
    <2>5. accepted'[p][m] = accepted[p][m] /\ Allowance(p, m)' = Allowance(p, m)
      BY <2>1 DEF Allowance
    <2> HIDE DEF n, new
    <2>6. CASE n # m
      <3>1. outbox'[m] = outbox[m]
        BY <2>3, <2>6, <1>0
      <3>2. ~Holds(p, m)
        BY <2>6 DEF Holds, n
      <3>3. MaySend(p, m)' \/ ~Exists(m)' => MaySend(p, m) \/ ~Exists(m)
        BY <2>1, <2>4, <3>1, <3>2 DEF MaySend, InBatch, Pending, Exists
      <3>4. QED
        BY <2>5, <3>3, DuplicatesKept
    <2>7. CASE n = m
      <3>1. outbox'[m] = new
        BY <1>0, <2>3, <2>7
      <3>2. Exists(m)
        BY <2>1, <2>7, AbsentIsNoRow DEF Real, Exists
      <3>3. MaySend(p, m)' => ~Holds(p, m)
        BY <2>2, <2>4, <2>7, <3>1 DEF MaySend, Pending, Holds, n
      <3>4. MaySend(p, m)' \/ ~Exists(m)' => MaySend(p, m) \/ ~Exists(m)
        BY <1>e, <2>1, <2>7, <3>2, <3>3 DEF MaySend, InBatch
      <3>5. QED
        BY <2>5, <3>4, DuplicatesKept
    <2>8. QED
      BY <2>6, <2>7
  <1>9. ASSUME NEW P \in SUBSET Passes, Lost(P), UNCHANGED <<outbox, accepted, retries>>,
               \A q \in Passes : pass'[q] = IF q \in P THEN IdlePass ELSE pass[q]
        PROVE  DuplicatesAt(p, m)'
    <2>1. excused'[p][m] = IF p \in P /\ Holds(p, m) THEN excused[p][m] + 1 ELSE excused[p][m]
      BY <1>9 DEF Lost
    <2>2. CASE p \in P /\ Holds(p, m)
      <3>1. Allowance(p, m)' = Allowance(p, m) + 1
        BY <1>0, <1>9, <2>1, <2>2 DEF Allowance
      <3>2. QED
        BY <1>0, <1>9, <3>1 DEF DuplicatesAt, Allowance
    <2>3. CASE ~(p \in P /\ Holds(p, m))
      <3>1. accepted'[p][m] = accepted[p][m] /\ Allowance(p, m)' = Allowance(p, m)
        BY <1>9, <2>1, <2>3 DEF Allowance
      <3>2. MaySend(p, m)' \/ ~Exists(m)' => MaySend(p, m) \/ ~Exists(m)
        BY <1>9, <2>3 DEF MaySend, InBatch, Holds, Pending, Exists, IdlePass
      <3>3. QED
        BY <3>1, <3>2, DuplicatesKept
    <2>4. QED
      BY <2>2, <2>3
  <1>10. ASSUME NEW q \in Passes, CutOff(q)
         PROVE  DuplicatesAt(p, m)'
    <2> DEFINE P == {q}
    <2>1. /\ Lost(P) /\ UNCHANGED <<outbox, accepted, retries>>
          /\ \A r \in Passes : pass'[r] = IF r \in P THEN IdlePass ELSE pass[r]
      BY <1>0, <1>10 DEF CutOff
    <2>2. P \in SUBSET Passes
      OBVIOUS
    <2> HIDE DEF P
    <2>3. QED
      BY <1>9, <2>1, <2>2
  <1>11. CASE Restart
    <2>1. /\ Lost(Passes) /\ UNCHANGED <<outbox, accepted, retries>>
          /\ \A r \in Passes : pass'[r] = IF r \in Passes THEN IdlePass ELSE pass[r]
      BY <1>11 DEF Restart
    <2>2. Passes \in SUBSET Passes
      OBVIOUS
    <2>3. QED
      BY <1>9, <2>1, <2>2
  <1>12. QED
    BY <1>1, <1>2, <1>3, <1>4, <1>5, <1>6, <1>7, <1>8, <1>10, <1>11 DEF Next, PassStep

(* No pass repeats a message that it had accepted, but for an operator's   *)
(* retry or an acceptance it could not know of or record.                  *)
THEOREM DuplicatesHaveReasons == Spec => []DuplicatesAreAccounted
  <1>1. Init => DuplicatesInv
    BY DuplicatesInit
  <1>2. TypeInv /\ DuplicatesInv /\ [Next]_vars => DuplicatesInv'
    BY DuplicatesStep
  <1>3. DuplicatesInv /\ TypeInv => DuplicatesAreAccounted
    <2> SUFFICES ASSUME DuplicatesInv, TypeInv, NEW p \in Passes, NEW m \in Messages
                 PROVE  accepted[p][m] <= 1 + retries[m] + excused[p][m]
      BY DEF DuplicatesAreAccounted
    <2>1. accepted[p][m] <= 1 + (retries[m] + excused[p][m])
      BY DEF DuplicatesInv, DuplicatesAt, Allowance
    <2>2. QED
      BY <2>1, CountsAreNumbers
  <1>4. QED
    BY <1>1, <1>2, <1>3, TypeAlways, PTL DEF Spec
-----------------------------------------------------------------------------
(* Identical messages.  Every one that is stored and still fresh, and      *)
(* every one that is counted and not yet inserted, belongs to a handler of *)
(* its own: a handler counts only while none is stored.                    *)

Inserting(c) == {h \in Handlers : call[h].pc = "insert" /\ call[h].content = c}

TwinsAt(c) == Cardinality(Twins(c)) + Cardinality(Inserting(c)) <= Cardinality(Handlers)

TwinsInv == \A c \in Contents : TwinsAt(c)

LEMMA FewTwins ==
  ASSUME NEW c
  PROVE  /\ IsFiniteSet(Twins(c)) /\ Cardinality(Twins(c)) \in Nat
         /\ IsFiniteSet(Inserting(c)) /\ Cardinality(Inserting(c)) \in Nat
         /\ Cardinality(Inserting(c)) <= Cardinality(Handlers)
         /\ Cardinality(Handlers) \in Nat
  <1>1. Twins(c) \in SUBSET Messages /\ Inserting(c) \in SUBSET Handlers
    BY DEF Twins, Inserting
  <1>2. IsFiniteSet(Twins(c)) /\ IsFiniteSet(Inserting(c))
    BY <1>1, FS_Subset, FiniteAssumption
  <1>3. Cardinality(Inserting(c)) <= Cardinality(Handlers)
    BY <1>1, FS_Subset, FiniteAssumption
  <1>4. QED
    BY <1>2, <1>3, FS_CardinalityType, FiniteAssumption

LEMMA FewTwinsNext ==
  ASSUME NEW c
  PROVE  /\ IsFiniteSet(Twins(c)') /\ Cardinality(Twins(c)') \in Nat
         /\ IsFiniteSet(Inserting(c)') /\ Cardinality(Inserting(c)') \in Nat
         /\ Cardinality(Inserting(c)') <= Cardinality(Handlers)
  <1>1. Twins(c)' \in SUBSET Messages /\ Inserting(c)' \in SUBSET Handlers
    BY DEF Twins, Inserting
  <1>2. IsFiniteSet(Twins(c)') /\ IsFiniteSet(Inserting(c)')
    BY <1>1, FS_Subset, FiniteAssumption
  <1>3. Cardinality(Inserting(c)') <= Cardinality(Handlers)
    BY <1>1, FS_Subset, FiniteAssumption
  <1>4. QED
    BY <1>2, <1>3, FS_CardinalityType, FiniteAssumption

LEMMA TwinsKept ==
  ASSUME NEW c \in Contents, TwinsAt(c),
         Twins(c)' \subseteq Twins(c), Inserting(c)' \subseteq Inserting(c)
  PROVE  TwinsAt(c)'
  <1>1. /\ Cardinality(Twins(c)') <= Cardinality(Twins(c))
        /\ Cardinality(Inserting(c)') <= Cardinality(Inserting(c))
    BY FewTwins, FS_Subset
  <1>2. QED
    BY <1>1, FewTwins, FewTwinsNext DEF TwinsAt

LEMMA TwinsInit ==
  ASSUME Init
  PROVE  TwinsInv
  <1> SUFFICES ASSUME NEW c \in Contents
               PROVE  TwinsAt(c)
    BY DEF TwinsInv
  <1>1. Twins(c) = {}
    BY DEF Init, Twins, Exists
  <1>2. QED
    BY <1>1, FewTwins, FS_EmptySet DEF TwinsAt

LEMMA TwinsStep ==
  ASSUME TypeInv, [Next]_vars, TwinsInv
  PROVE  TwinsInv'
  <1> SUFFICES ASSUME NEW c \in Contents
               PROVE  TwinsAt(c)'
    BY DEF TwinsInv
  <1>0. /\ TwinsAt(c) /\ KeepsRows
        /\ outbox \in [Messages -> Row \cup {absent}]
        /\ call \in [Handlers -> Call \cup {IdleCall}]
        /\ IdleCall.pc = "idle" /\ c # NoContent
    BY TableStep, ContentsAssumption DEF TwinsInv, TypeInv, TypeOK, IdleCall
  (* Writing a row that is there neither adds a twin nor makes one fresh.  *)
  <1>w. ASSUME NEW n \in Messages, NEW row, outbox[n] \in Row,
               outbox' = [outbox EXCEPT ![n] = row],
               row.content = outbox[n].content, row.fresh => outbox[n].fresh
        PROVE  Twins(c)' \subseteq Twins(c)
    BY <1>0, <1>w, AbsentIsNoRow DEF Twins, Exists
  <1>i. outbox' = outbox => Twins(c)' \subseteq Twins(c)
    BY DEF Twins, Exists
  <1>c. call' = call => Inserting(c)' \subseteq Inserting(c)
    BY DEF Inserting
  <1>d. ASSUME NEW h \in Handlers, NEW new, call' = [call EXCEPT ![h] = new],
               new.pc = "insert" => new.content # c
        PROVE  Inserting(c)' \subseteq Inserting(c)
    BY <1>0, <1>d DEF Inserting
  <1>1. ASSUME NEW h \in Handlers, HandlerStep(h)
        PROVE  TwinsAt(c)'
    <2>1. ASSUME NEW d \in Contents, EnqueueCount(h, d)
          PROVE  TwinsAt(c)'
      <3>1. /\ call' = [call EXCEPT ![h] = [pc |-> "insert", content |-> d]]
            /\ outbox' = outbox /\ Twins(d) = {}
        BY <2>1 DEF EnqueueCount
      <3>2. CASE d = c
        <4>1. Twins(c)' = {}
          BY <3>1, <3>2, <1>i
        <4>2. QED
          BY <4>1, FewTwins, FewTwinsNext, FS_EmptySet DEF TwinsAt
      <3>3. CASE d # c
        BY <1>0, <1>i, <1>d, <3>1, <3>3, TwinsKept
      <3>4. QED
        BY <3>2, <3>3
    <2>2. CASE EnqueueInsert(h)
      <3> DEFINE d == call[h].content
      <3>1. PICK n \in Messages : ~Exists(n) /\ outbox' = [outbox EXCEPT ![n] = Queued(d)]
        BY <2>2 DEF EnqueueInsert, Insert
      <3>2. d \in Contents /\ Queued(d).content = d
        BY <1>0, <2>2, QueuedType DEF EnqueueInsert, Call
      <3>3. call' = [call EXCEPT ![h] = IdleCall] /\ call[h].pc = "insert"
        BY <2>2 DEF EnqueueInsert
      <3>4. CASE d = c
        <4>1. Twins(c)' \subseteq Twins(c) \cup {n}
          BY <1>0, <3>1 DEF Twins, Exists
        <4>2. Cardinality(Twins(c)') <= Cardinality(Twins(c)) + 1
          <5>1. /\ IsFiniteSet(Twins(c) \cup {n})
                /\ Cardinality(Twins(c) \cup {n}) <= Cardinality(Twins(c)) + 1
            BY FewTwins, FS_AddElement
          <5>2. Cardinality(Twins(c)') <= Cardinality(Twins(c) \cup {n})
            BY <4>1, <5>1, FS_Subset
          <5>3. Cardinality(Twins(c) \cup {n}) \in Nat
            BY <5>1, FS_CardinalityType
          <5>4. QED
            BY <5>1, <5>2, <5>3, FewTwins, FewTwinsNext
        <4>3. Inserting(c)' = Inserting(c) \ {h} /\ h \in Inserting(c)
          BY <1>0, <3>3, <3>4 DEF Inserting
        <4>4. Cardinality(Inserting(c)') = Cardinality(Inserting(c)) - 1
          BY <4>3, FewTwins, FS_RemoveElement
        <4>5. QED
          BY <1>0, <4>2, <4>4, FewTwins, FewTwinsNext DEF TwinsAt
      <3>5. CASE d # c
        <4>1. Twins(c)' \subseteq Twins(c)
          BY <1>0, <3>1, <3>2, <3>5 DEF Twins, Exists
        <4>2. Inserting(c)' \subseteq Inserting(c)
          BY <1>0, <1>d, <3>3
        <4>3. QED
          BY <1>0, <4>1, <4>2, TwinsKept
      <3>6. QED
        BY <3>4, <3>5
    <2>3. CASE RecordSuppression(h)
      <3>1. PICK n \in Messages : ~Exists(n) /\ outbox' = [outbox EXCEPT ![n] = Refused]
        BY <2>3 DEF RecordSuppression, Insert
      <3>2. Twins(c)' \subseteq Twins(c)
        BY <1>0, <3>1, QueuedType DEF Twins, Exists
      <3>3. call' = call
        BY <2>3 DEF RecordSuppression
      <3>4. QED
        BY <1>0, <1>c, <3>2, <3>3, TwinsKept
    <2>4. ASSUME NEW n \in Messages, RetryRead(h, n)
          PROVE  TwinsAt(c)'
      <3>1. outbox' = outbox /\ call' = [call EXCEPT ![h] = [pc |-> "requeue", msg |-> n]]
        BY <2>4 DEF RetryRead
      <3>2. Inserting(c)' \subseteq Inserting(c)
        BY <1>d, <3>1
      <3>3. QED
        BY <1>0, <1>i, <3>1, <3>2, TwinsKept
    <2>5. CASE RetryWrite(h)
      <3> DEFINE n == call[h].msg
      <3>1. Real(n) /\ outbox' = [outbox EXCEPT ![n] = Requeued(outbox[n])]
            /\ call' = [call EXCEPT ![h] = IdleCall]
        BY <2>5 DEF RetryWrite, TypeInv, CallFits
      <3>2. Twins(c)' \subseteq Twins(c)
        <4>1. Requeued(outbox[n]).content = outbox[n].content
              /\ (Requeued(outbox[n]).fresh => outbox[n].fresh)
          BY <3>1, RequeuedType DEF Real
        <4>2. QED
          BY <1>w, <3>1, <4>1 DEF Real
      <3>3. Inserting(c)' \subseteq Inserting(c)
        BY <1>0, <1>d, <3>1
      <3>4. QED
        BY <1>0, <3>2, <3>3, TwinsKept
    <2>6. QED
      BY <1>1, <2>1, <2>2, <2>3, <2>4, <2>5 DEF HandlerStep
  <1>2. ASSUME NEW p \in Passes, PassStep(p)
        PROVE  TwinsAt(c)'
    <2>1. call' = call
      BY <1>2 DEF PassStep, Select, Send, SendUnanswered, Flag, Record
    <2>2. CASE Record(p)
      <3> DEFINE n == pass[p].msg
                 new == Result(outbox[n], pass[p].batch[n], pass[p].outcome)
      <3>1. Real(n) /\ Left(pass[p].batch[n]) /\ pass[p].outcome \in Outcomes
        BY <2>2, ActivePass DEF Record
      <3>2. new.content = outbox[n].content /\ (new.fresh => outbox[n].fresh)
        BY <3>1, ResultType DEF Real, Left
      <3>3. outbox' = [outbox EXCEPT ![n] = new]
        BY <2>2 DEF Record
      <3> HIDE DEF new
      <3>4. QED
        BY <1>0, <1>c, <1>w, <2>1, <3>1, <3>2, <3>3, TwinsKept DEF Real
    <2>3. CASE ~Record(p)
      <3>1. outbox' = outbox
        BY <1>2, <2>3 DEF PassStep, Select, Send, SendUnanswered, Flag
      <3>2. QED
        BY <1>0, <1>c, <1>i, <2>1, <3>1, TwinsKept
    <2>4. QED
      BY <2>2, <2>3
  <1>3. ASSUME NEW n \in Messages, BecomesDue(n) \/ Ages(n)
        PROVE  TwinsAt(c)'
    <2>1. call' = call
      BY <1>3 DEF BecomesDue, Ages
    <2>2. Twins(c)' \subseteq Twins(c)
      BY <1>0, <1>3 DEF BecomesDue, Ages, Twins, Exists, Row, absent
    <2>3. QED
      BY <1>0, <1>c, <2>1, <2>2, TwinsKept
  <1>4. CASE Restart
    <2>1. outbox' = outbox /\ Inserting(c)' \subseteq Inserting(c)
      BY <1>0, <1>4 DEF Restart, Inserting
    <2>2. QED
      BY <1>0, <1>i, <2>1, TwinsKept
  <1>5. ASSUME UNCHANGED <<outbox, call>>
        PROVE  TwinsAt(c)'
    BY <1>0, <1>c, <1>i, <1>5, TwinsKept
  <1>6. QED
    BY <1>1, <1>2, <1>3, <1>4, <1>5 DEF Next, CutOff, vars

(* However handlers race, no more identical messages are stored within the *)
(* five minutes of the collapsing than there are handlers.                 *)
THEOREM TwinsStayBounded == Spec => []TwinsAreBounded
  <1>1. Init => TwinsInv
    BY TwinsInit
  <1>2. TypeInv /\ TwinsInv /\ [Next]_vars => TwinsInv'
    BY TwinsStep
  <1>3. TwinsInv => TwinsAreBounded
    <2> SUFFICES ASSUME TwinsInv, NEW c \in Contents
                 PROVE  Cardinality(Twins(c)) <= Cardinality(Handlers)
      BY DEF TwinsAreBounded
    <2>1. QED
      BY FewTwins DEF TwinsInv, TwinsAt
  <1>4. QED
    BY <1>1, <1>2, <1>3, TypeAlways, PTL DEF Spec
-----------------------------------------------------------------------------
(* Visible refusals.  The flag of a contact goes down before a refusal of  *)
(* C2 for it is recorded, and only an acceptance raises it again: a        *)
(* refusal that is about to be recorded counts like one that is.           *)

Doomed(m) ==
    \/ outbox[m].state = "suppressed"
    \/ \E p \in Passes : /\ pass[p].pc = "record"
                         /\ pass[p].outcome = "refused"
                         /\ pass[p].msg = m

Heard(c) == \E m \in ToContact(c), p \in Passes : accepted[p][m] > 0

Shown(c) == (reachable[c] /\ \E m \in ToContact(c) : Doomed(m)) => Heard(c)

(* A flag is raised for a message that was accepted.                       *)
FlagTrue(p) ==
    pass[p].pc = "flag" /\ pass[p].outcome = "sent" => accepted[p][pass[p].msg] > 0

RefusalInv == /\ \A c \in Contacts : Shown(c)
              /\ \A p \in Passes : FlagTrue(p)

LEMMA CountGrows ==
  ASSUME NEW f \in [Passes -> [Messages -> Nat]], NEW p \in Passes, NEW m \in Messages,
         NEW q \in Passes, NEW n \in Messages
  PROVE  f[q][n] > 0 => Count(f, p, m)[q][n] > 0
  <1>1. f[q][n] \in Nat
    OBVIOUS
  <1>2. QED
    BY <1>1, CountAt

LEMMA AcceptedStays ==
  ASSUME TypeInv, [Next]_vars, NEW q \in Passes, NEW n \in Messages, accepted[q][n] > 0
  PROVE  accepted'[q][n] > 0
  <1>1. ASSUME NEW p \in Passes, Send(p) \/ SendUnanswered(p)
        PROVE  accepted'[q][n] > 0
    <2>1. accepted' = accepted \/ accepted' = Count(accepted, p, pass[p].msg)
      BY <1>1 DEF Send, SendUnanswered
    <2>2. pass[p].msg \in Messages
      BY <1>1, ActivePass DEF Send, SendUnanswered
    <2>3. accepted \in [Passes -> [Messages -> Nat]]
      BY DEF TypeInv, TypeOK
    <2>4. QED
      BY <2>1, <2>2, <2>3, CountGrows
  <1>2. CASE accepted' = accepted
    BY <1>2
  <1>3. QED
    BY <1>1, <1>2 DEF Next, HandlerStep, EnqueueCount, EnqueueInsert, RecordSuppression,
                      RetryRead, RetryWrite, PassStep, Select, Flag, Record, CutOff,
                      Restart, BecomesDue, Ages, vars, history

LEMMA AddresseeStays ==
  ASSUME KeepsRows, TypeInv, NEW c, NEW m \in Messages, Exists(m)
  PROVE  m \in ToContact(c) <=> m \in ToContact(c)'
  <1>1. outbox[m] \in Row
    BY DEF TypeInv, TypeOK, Exists
  <1>2. Exists(m)' /\ outbox'[m].content = outbox[m].content
    BY <1>1, AbsentIsNoRow DEF KeepsRows, Exists
  <1>3. QED
    BY <1>2 DEF ToContact

LEMMA HeardStays ==
  ASSUME TypeInv, [Next]_vars, NEW c, Heard(c)
  PROVE  Heard(c)'
  <1>1. PICK m \in ToContact(c), p \in Passes : accepted[p][m] > 0
    BY DEF Heard
  <1>2. m \in Messages /\ Exists(m)
    BY DEF ToContact
  <1>3. m \in ToContact(c)' /\ accepted'[p][m] > 0
    BY <1>1, <1>2, TableStep, AddresseeStays, AcceptedStays
  <1>4. QED
    BY <1>3 DEF Heard

LEMMA RefusalInit ==
  ASSUME Init
  PROVE  RefusalInv
  <1>1. \A c \in Contacts : ToContact(c) = {}
    BY DEF Init, ToContact, Exists
  <1>2. \A p \in Passes : pass[p].pc = "idle"
    BY DEF Init, IdlePass
  <1>3. QED
    BY <1>1, <1>2 DEF RefusalInv, Shown, FlagTrue

LEMMA FlagsStep ==
  ASSUME TypeInv, [Next]_vars, RefusalInv, NEW p \in Passes
  PROVE  FlagTrue(p)'
  <1>0. FlagTrue(p) /\ pass \in [Passes -> Pass \cup {IdlePass}]
    BY DEF RefusalInv, TypeInv, TypeOK
  <1>1. CASE pass'[p] = pass[p]
    <2>1. pass[p].pc = "flag" => pass[p].msg \in Messages
      BY ActivePass
    <2>2. QED
      BY <1>0, <1>1, <2>1, AcceptedStays DEF FlagTrue
  <1>2. CASE Send(p)
    <2> DEFINE n == pass[p].msg
    <2>1. PICK outcome : /\ Answered(p, outcome)
                         /\ outcome = "sent" => accepted' = Count(accepted, p, n)
      BY <1>2 DEF Send
    <2>2. pass'[p].msg = n /\ pass'[p].outcome = outcome
      BY <1>0, <2>1 DEF Answered, InHand
    <2>3. n \in Messages /\ accepted \in [Passes -> [Messages -> Nat]]
      BY <1>2, ActivePass DEF Send, TypeInv, TypeOK
    <2>4. accepted[p][n] \in Nat /\ Count(accepted, p, n)[p][n] = accepted[p][n] + 1
      BY <2>3, CountAt
    <2>5. QED
      BY <2>1, <2>2, <2>4 DEF FlagTrue
  <1>3. CASE pass'[p].pc # "flag" \/ pass'[p].outcome # "sent"
    BY <1>3 DEF FlagTrue
  <1>4. ASSUME NEW q \in Passes, PassStep(q) \/ CutOff(q)
        PROVE  FlagTrue(p)'
    <2>1. CASE q # p
      <3>1. pass'[p] = pass[p]
        BY <1>0, <1>4, <2>1 DEF PassStep, Select, Send, SendUnanswered, Answered, Flag,
                                Record, CutOff
      <3>2. QED
        BY <1>1, <3>1
    <2>2. CASE q = p /\ ~Send(p)
      <3>1. pass'[p].pc # "flag" \/ pass'[p].outcome # "sent"
        BY <1>0, <1>4, <2>2 DEF PassStep, Select, SendUnanswered, Answered, Flag, Record,
                                CutOff, Taken, InHand, IdlePass
      <3>2. QED
        BY <1>3, <3>1
    <2>3. QED
      BY <1>2, <2>1, <2>2
  <1>5. CASE Restart
    <2>1. pass'[p].pc # "flag"
      BY <1>5 DEF Restart, IdlePass
    <2>2. QED
      BY <1>3, <2>1
  <1>6. CASE UNCHANGED pass
    BY <1>1, <1>6
  <1>7. QED
    BY <1>4, <1>5, <1>6 DEF Next, HandlerStep, EnqueueCount, EnqueueInsert,
                            RecordSuppression, RetryRead, RetryWrite, BecomesDue, Ages, vars

(* What a row was when it turns out suppressed.                            *)
LEMMA SuppressedStep ==
  ASSUME TypeInv, [Next]_vars, NEW c, NEW m \in ToContact(c)',
         outbox'[m].state = "suppressed"
  PROVE  m \in ToContact(c) /\ Doomed(m)
  <1>0. /\ m \in Messages /\ KeepsRows
        /\ outbox \in [Messages -> Row \cup {absent}]
    BY TableStep DEF ToContact, TypeInv, TypeOK
  <1>1. ASSUME Exists(m), outbox[m].state = "suppressed"
        PROVE  m \in ToContact(c) /\ Doomed(m)
    BY <1>0, <1>1, AddresseeStays DEF Doomed
  <1>2. ASSUME NEW n \in Messages, NEW row, ~Exists(n),
               outbox' = [outbox EXCEPT ![n] = row],
               row.state = "suppressed" => row.content = NoContent
        PROVE  m \in ToContact(c) /\ Doomed(m)
    <2>1. m # n
      BY <1>0, <1>2, ContentsAssumption DEF ToContact, Contents
    <2>2. outbox'[m] = outbox[m]
      BY <1>0, <1>2, <2>1
    <2>3. Exists(m)
      BY <2>2 DEF ToContact, Exists
    <2>4. QED
      BY <1>1, <2>2, <2>3
  <1>3. ASSUME NEW h \in Handlers, HandlerStep(h)
        PROVE  m \in ToContact(c) /\ Doomed(m)
    <2>1. CASE EnqueueInsert(h)
      <3>1. Queued(call[h].content).state # "suppressed"
        BY DEF Queued
      <3>2. QED
        BY <1>2, <2>1, <3>1 DEF EnqueueInsert, Insert
    <2>2. CASE RecordSuppression(h)
      BY <1>2, <2>2, QueuedType DEF RecordSuppression, Insert
    <2>3. CASE RetryWrite(h)
      <3> DEFINE n == call[h].msg
      <3>1. Real(n) /\ outbox' = [outbox EXCEPT ![n] = Requeued(outbox[n])]
        BY <2>3 DEF RetryWrite, TypeInv, CallFits
      <3>2. m # n
        BY <1>0, <3>1, RequeuedType DEF Real
      <3>3. outbox'[m] = outbox[m]
        BY <1>0, <3>1, <3>2
      <3>4. Exists(m)
        BY <3>3 DEF ToContact, Exists
      <3>5. QED
        BY <1>1, <3>3, <3>4
    <2>4. CASE outbox' = outbox
      BY <1>1, <2>4 DEF ToContact, Exists
    <2>5. QED
      BY <1>3, <2>1, <2>2, <2>3, <2>4 DEF HandlerStep, EnqueueCount, RetryRead
  <1>4. ASSUME NEW p \in Passes, Record(p)
        PROVE  m \in ToContact(c) /\ Doomed(m)
    <2> DEFINE n == pass[p].msg
               new == Result(outbox[n], pass[p].batch[n], pass[p].outcome)
    <2>1. /\ Real(n) /\ Left(pass[p].batch[n]) /\ pass[p].outcome \in Outcomes
          /\ pass[p].pc = "record"
      BY <1>4, ActivePass DEF Record
    <2>2. new.state = "suppressed" =>
              outbox[n].state = "suppressed" \/ pass[p].outcome = "refused"
      BY <2>1, ResultType DEF Real, Left
    <2>3. outbox' = [outbox EXCEPT ![n] = new]
      BY <1>4 DEF Record
    <2> HIDE DEF new
    <2>4. CASE m = n
      <3>1. outbox'[m] = new
        BY <1>0, <2>3, <2>4
      <3>2. Doomed(m)
        BY <2>1, <2>2, <2>4, <3>1 DEF Doomed
      <3>3. Exists(m)
        BY <2>1, <2>4, AbsentIsNoRow DEF Real, Exists
      <3>4. QED
        BY <1>0, <3>2, <3>3, AddresseeStays
    <2>5. CASE m # n
      <3>1. outbox'[m] = outbox[m]
        BY <1>0, <2>3, <2>5
      <3>2. QED
        BY <1>1, <3>1 DEF ToContact, Exists
    <2>6. QED
      BY <2>4, <2>5
  <1>5. ASSUME NEW n \in Messages, BecomesDue(n) \/ Ages(n)
        PROVE  m \in ToContact(c) /\ Doomed(m)
    <2>1. outbox[n] \in Row
      BY <1>0, <1>5 DEF BecomesDue, Ages, Pending, Exists, absent
    <2>2. outbox'[m].state = outbox[m].state
      BY <1>0, <1>5, <2>1 DEF BecomesDue, Ages, Row
    <2>3. Exists(m)
      BY <1>0, <1>5, <2>1, AbsentIsNoRow DEF BecomesDue, Ages, ToContact, Exists
    <2>4. QED
      BY <1>1, <2>2, <2>3
  <1>6. CASE outbox' = outbox
    BY <1>1, <1>6 DEF ToContact, Exists
  <1>7. QED
    BY <1>3, <1>4, <1>5, <1>6 DEF Next, PassStep, Select, Send, SendUnanswered, Flag,
                                  CutOff, Restart, vars

(* What a pass was about that is going to record a refusal: it was going   *)
(* to, unless it has just seen the refusal of an email, or has flagged the *)
(* contact.                                                                *)
LEMMA RecordingStep ==
  ASSUME TypeInv, [Next]_vars, NEW c \in Contacts, NEW m \in ToContact(c)', reachable'[c],
         NEW p \in Passes,
         pass'[p].pc = "record", pass'[p].outcome = "refused", pass'[p].msg = m
  PROVE  m \in ToContact(c) /\ Doomed(m)
  <1>0. /\ m \in Messages /\ KeepsRows
        /\ pass \in [Passes -> Pass \cup {IdlePass}]
        /\ reachable \in [Contacts -> BOOLEAN]
    BY TableStep DEF ToContact, TypeInv, TypeOK
  <1>1. CASE pass'[p] = pass[p]
    <2>1. Exists(m)
      BY <1>1, ActivePass, AbsentIsNoRow DEF Real, Exists
    <2>2. QED
      BY <1>0, <1>1, <2>1, AddresseeStays DEF Doomed
  <1>2. CASE Send(p) \/ SendUnanswered(p)
    <2>1. PICK outcome : Answered(p, outcome)
      BY <1>2 DEF Send, SendUnanswered
    <2>2. outcome = "refused" /\ pass[p].msg = m /\ ~TellsOfContact(m, outcome)
      BY <1>0, <2>1 DEF Answered, InHand
    <2>3. ByEmail(m) /\ outbox' = outbox
      BY <1>2, <2>2 DEF TellsOfContact, Send, SendUnanswered
    <2>4. QED
      BY <2>3, ContentsAssumption DEF ByEmail, ToContact
  <1>3. CASE Flag(p)
    <2>1. pass[p].msg = m /\ pass[p].outcome = "refused" /\ outbox' = outbox
      BY <1>0, <1>3 DEF Flag, InHand
    <2>2. ContactOf[outbox[m].content] = c
      BY <2>1 DEF ToContact
    <2>3. reachable' = [reachable EXCEPT ![c] = FALSE]
      BY <1>3, <2>1, <2>2 DEF Flag
    <2>4. QED
      BY <1>0, <2>3
  <1>4. CASE Select(p) \/ Record(p) \/ CutOff(p)
    BY <1>0, <1>4 DEF Select, Record, CutOff, Taken, InHand, IdlePass
  <1>5. CASE Restart
    BY <1>5 DEF Restart, IdlePass
  <1>6. ASSUME NEW q \in Passes, q # p, PassStep(q) \/ CutOff(q)
        PROVE  pass'[p] = pass[p]
    BY <1>0, <1>6 DEF PassStep, Select, Send, SendUnanswered, Answered, Flag, Record, CutOff
  <1>7. CASE UNCHANGED pass
    BY <1>1, <1>7
  <1>8. QED
    BY <1>1, <1>2, <1>3, <1>4, <1>5, <1>6, <1>7
       DEF Next, PassStep, HandlerStep, EnqueueCount, EnqueueInsert, RecordSuppression,
           RetryRead, RetryWrite, BecomesDue, Ages, vars

(* A contact that a step makes reachable has had a message accepted.       *)
LEMMA RaisedStep ==
  ASSUME TypeInv, [Next]_vars, RefusalInv, NEW c \in Contacts, reachable'[c]
  PROVE  reachable[c] \/ Heard(c)
  <1>1. ASSUME NEW p \in Passes, Flag(p)
        PROVE  reachable[c] \/ Heard(c)
    <2> DEFINE n == pass[p].msg
               d == ContactOf[outbox[n].content]
               up == pass[p].outcome = "sent"
    <2>1. reachable' = [reachable EXCEPT ![d] = up] /\ pass[p].pc = "flag"
      BY <1>1 DEF Flag
    <2>2. reachable \in [Contacts -> BOOLEAN]
      BY DEF TypeInv, TypeOK
    <2>3. CASE c # d
      BY <2>1, <2>2, <2>3
    <2>4. CASE c = d /\ ~up
      BY <2>1, <2>2, <2>4
    <2>5. CASE c = d /\ up
      <3>1. Real(n) /\ ~ByEmail(n)
        BY <2>1, ActivePass DEF TypeInv, PassFits
      <3>2. n \in ToContact(c)
        BY <2>5, <3>1, AbsentIsNoRow DEF Real, ByEmail, Contents, ToContact, Exists
      <3>3. accepted[p][n] > 0
        BY <2>1, <2>5 DEF RefusalInv, FlagTrue
      <3>4. QED
        BY <3>2, <3>3 DEF Heard
    <2>6. QED
      BY <2>3, <2>4, <2>5
  <1>2. CASE reachable' = reachable
    BY <1>2
  <1>3. QED
    BY <1>1, <1>2 DEF Next, HandlerStep, EnqueueCount, EnqueueInsert, RecordSuppression,
                      RetryRead, RetryWrite, PassStep, Select, Send, SendUnanswered, Record,
                      CutOff, Restart, BecomesDue, Ages, vars

LEMMA RefusalStep ==
  ASSUME TypeInv, [Next]_vars, RefusalInv
  PROVE  RefusalInv'
  <1>1. ASSUME NEW c \in Contacts, reachable'[c], NEW m \in ToContact(c)', Doomed(m)'
        PROVE  Heard(c)'
    <2>1. m \in ToContact(c) /\ Doomed(m)
      BY <1>1, SuppressedStep, RecordingStep DEF Doomed
    <2>2. reachable[c] \/ Heard(c)
      BY <1>1, RaisedStep
    <2>3. Heard(c)
      BY <2>1, <2>2 DEF RefusalInv, Shown
    <2>4. QED
      BY <2>3, HeardStays
  <1>2. \A c \in Contacts : Shown(c)'
    BY <1>1 DEF Shown
  <1>3. \A p \in Passes : FlagTrue(p)'
    BY FlagsStep
  <1>4. QED
    BY <1>2, <1>3 DEF RefusalInv

(* Whoever looks at the contact of a message C2 refused sees that it       *)
(* cannot be reached, unless C2 has accepted something for it.             *)
THEOREM RefusalsStayVisible == Spec => []RefusalIsVisible
  <1>1. Init => RefusalInv
    BY RefusalInit
  <1>2. TypeInv /\ RefusalInv /\ [Next]_vars => RefusalInv'
    BY RefusalStep
  <1>3. RefusalInv => RefusalIsVisible
    BY DEF RefusalInv, Shown, Doomed, Heard, RefusalIsVisible
  <1>4. QED
    BY <1>1, <1>2, <1>3, TypeAlways, PTL DEF Spec
=============================================================================
