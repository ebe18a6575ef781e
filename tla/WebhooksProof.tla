--------------------------- MODULE WebhooksProof ---------------------------
(***************************************************************************)
(* Proofs about Webhooks for any deliveries, systems, publishing handlers, *)
(* administrators, passes and bounds.                                      *)
(***************************************************************************)
EXTENDS Webhooks, FiniteSetTheorems, TLAPS

-----------------------------------------------------------------------------
(* What the writes make of a row.                                          *)

LEMMA AbsentIsNoRow == absent \notin Row
  BY DEF absent, Row, States

LEMMA Bounds == /\ MaxAttempts \in Nat /\ 0 < MaxAttempts
                /\ MaxEvents \in Nat /\ MaxEdits \in Nat /\ MaxMishaps \in Nat
  BY WebhookConstants

LEMMA QueuedType ==
  ASSUME NEW s \in Systems, NEW e \in 1..MaxEvents, NEW origin \in Deliveries \cup {"original"}
  PROVE  /\ Queued(s, e, origin) \in Row
         /\ Queued(s, e, origin).system = s /\ Queued(s, e, origin).event = e
         /\ Queued(s, e, origin).state = "pending" /\ Queued(s, e, origin).attempts = 0
         /\ Queued(s, e, origin).replay = origin
  <1>1. 0 \in 0..MaxAttempts
    BY Bounds
  <1>2. QED
    BY <1>1 DEF Queued, Row, States

Left(n) == n \in 0..MaxAttempts /\ n < MaxAttempts

(* A result never makes a row pending, and leaves a pending one an attempt. *)
LEMMA ResultType ==
  ASSUME NEW row \in Row, NEW read, Left(read), NEW outcome \in Outcomes
  PROVE  LET new == Result(row, read, outcome)
         IN  /\ new \in Row
             /\ new.system = row.system /\ new.event = row.event /\ new.replay = row.replay
             /\ new.state = "pending" => /\ row.state = "pending" /\ Left(new.attempts)
                                         /\ outcome # "ok"
             /\ new.state = "sent" => row.state = "sent" \/ outcome = "ok"
  <1> DEFINE n == read + 1
  <1>1. n \in 0..MaxAttempts
    BY Bounds DEF Left
  <1>2. CASE outcome = "ok"
    BY <1>1, <1>2 DEF Result, Row, States
  <1>3. CASE outcome # "ok" /\ (outcome = "rejected" \/ n >= MaxAttempts)
    BY <1>1, <1>3 DEF Result, Row, States
  <1>4. CASE outcome # "ok" /\ outcome # "rejected" /\ ~(n >= MaxAttempts)
    <2>1. n < MaxAttempts
      BY <1>1, <1>4, Bounds
    <2>2. Result(row, read, outcome) = [row EXCEPT !.attempts = n, !.due = FALSE]
      BY <1>4 DEF Result
    <2>3. QED
      BY <1>1, <1>4, <2>1, <2>2 DEF Row, Left
  <1>5. QED
    BY <1>2, <1>3, <1>4
-----------------------------------------------------------------------------
(* Type correctness.  Rows are never deleted, so what a pass or an         *)
(* administrator holds is a row; a pass holds it with an attempt left      *)
(* because it was pending when it was read.                                *)

Real(d) == d \in Deliveries /\ delivery[d] \in Row

RowsInv ==
    \A d \in Deliveries : delivery[d] \in Row =>
        /\ delivery[d].event \in 1..Len(audience)
        /\ delivery[d].system \in audience[delivery[d].event]
        /\ Pending(d) => Left(delivery[d].attempts)

PassFits(p) ==
    pass[p] # idle =>
        /\ pass[p].current \in DOMAIN pass[p].batch
        /\ \A d \in DOMAIN pass[p].batch : Real(d) /\ Left(pass[p].batch[d])

CallFits(a) == \A d \in call[a] : Real(d)

PublishFits(h) ==
    publishing[h] # idle =>
        /\ publishing[h].event \in 1..Len(audience)
        /\ publishing[h].listeners = audience[publishing[h].event]

TypeInv == /\ TypeOK
           /\ RowsInv
           /\ \A h \in Publishers : PublishFits(h)
           /\ \A p \in Passes : PassFits(p)
           /\ \A a \in Admins : CallFits(a)

(* Rows stay rows.                                                         *)
KeepsRows == \A d \in Deliveries : delivery[d] \in Row => delivery'[d] \in Row

TableOK == delivery \in [Deliveries -> Row \cup {absent}] /\ RowsInv

LEMMA LoadType ==
  ASSUME TypeInv
  PROVE  /\ load.events \in Nat /\ load.events <= MaxEvents
         /\ load.rows \in SUBSET Deliveries
         /\ \A d \in Free : d \in Deliveries /\ delivery[d] = absent
  <1>1. load \in [events : 0..MaxEvents, rows : SUBSET Deliveries,
                  systems : SUBSET Systems, passes : SUBSET Passes]
    BY WebhookConstants DEF TypeInv, TypeOK
  <1>2. load.events \in 0..MaxEvents /\ load.rows \in SUBSET Deliveries
    BY <1>1
  <1>3. QED
    BY <1>2, Bounds DEF Free, Exists

LEMMA LoadStays == ASSUME [Next]_vars PROVE load' = load
  BY DEF Next, vars, PublishRead, PublishInsert, Queue, PublishFails, SaveSystem, Replay,
         BecomesDue, ReplayAllRead, ReplayAllNext, PassStep, Select, Deliver, Record,
         DeliverUnanswered, CutOff

LEMMA ActivePass ==
  ASSUME TypeInv, NEW p \in Passes, pass[p].pc # "idle"
  PROVE  /\ pass[p] \in Pass /\ pass[p] # idle
         /\ pass[p].current \in DOMAIN pass[p].batch /\ pass[p].outcome \in Outcomes
         /\ Real(pass[p].current) /\ Left(pass[p].batch[pass[p].current])
         /\ DOMAIN pass[p].batch \in SUBSET Deliveries
         /\ pass[p].batch \in [DOMAIN pass[p].batch -> 0..MaxAttempts]
  <1>1. pass[p] \in Pass /\ pass[p] # idle
    BY DEF TypeInv, TypeOK, idle
  <1>2. PassFits(p)
    BY DEF TypeInv
  <1>3. PICK S \in SUBSET Deliveries : pass[p].batch \in [S -> 0..MaxAttempts]
    BY <1>1 DEF Pass
  <1>4. S = DOMAIN pass[p].batch
    BY <1>3
  <1>5. pass[p].outcome \in Outcomes
    BY <1>1 DEF Pass
  <1>6. /\ pass[p].current \in DOMAIN pass[p].batch
        /\ Real(pass[p].current) /\ Left(pass[p].batch[pass[p].current])
    BY <1>1, <1>2 DEF PassFits
  <1>7. QED
    BY <1>1, <1>3, <1>4, <1>5, <1>6

(* A row that is written, in its place or in a free one, for an event that *)
(* was published.                                                          *)
LEMMA WrittenRow ==
  ASSUME TypeInv, NEW d \in Deliveries, NEW row \in Row,
         delivery' = [delivery EXCEPT ![d] = row], audience' = audience,
         row.event \in 1..Len(audience), row.system \in audience[row.event],
         row.state = "pending" => Left(row.attempts)
  PROVE  TableOK' /\ KeepsRows
  BY DEF TypeInv, TypeOK, TableOK, RowsInv, KeepsRows, Pending

LEMMA KeptRows ==
  ASSUME TypeInv, delivery' = delivery, audience' = audience
  PROVE  TableOK' /\ KeepsRows
  BY DEF TypeInv, TypeOK, TableOK, RowsInv, KeepsRows, Pending

LEMMA ReplayedRow ==
  ASSUME TypeInv, NEW d, Real(d), NEW id \in Free, delivery' = Replayed(d, id), audience' = audience
  PROVE  TableOK' /\ KeepsRows
  <1> DEFINE row == Queued(delivery[d].system, delivery[d].event, d)
  <1>1. /\ delivery[d].system \in Systems /\ delivery[d].event \in 1..MaxEvents
        /\ d \in Deliveries /\ id \in Deliveries
    BY LoadType DEF Real, Row
  <1>2. /\ row \in Row /\ row.state = "pending" /\ row.attempts = 0
        /\ row.system = delivery[d].system /\ row.event = delivery[d].event
    BY <1>1, QueuedType
  <1>3. Left(row.attempts)
    BY <1>2, Bounds DEF Left
  <1>4. row.event \in 1..Len(audience) /\ row.system \in audience[row.event]
    BY <1>2, <1>1 DEF TypeInv, RowsInv, Real
  <1>5. delivery' = [delivery EXCEPT ![id] = row]
    BY DEF Replayed
  <1> HIDE DEF row
  <1>6. QED
    BY <1>1, <1>2, <1>3, <1>4, <1>5, WrittenRow

(* Reading the systems changes no row and opens one more event.            *)
LEMMA ReadRows ==
  ASSUME TypeInv, NEW h \in Publishers, NEW owner \in Systems \cup {Nobody}, PublishRead(h, owner)
  PROVE  /\ TableOK' /\ KeepsRows
         /\ audience' \in Seq(SUBSET Systems) /\ Len(audience') = Len(audience) + 1
         /\ Len(audience') <= load'.events /\ Len(audience') \in 1..MaxEvents
         /\ audience'[Len(audience) + 1] = Listeners(owner)
         /\ \A i \in 1..Len(audience) : i \in 1..Len(audience') /\ audience'[i] = audience[i]
  <1> DEFINE L == Listeners(owner)
  <1>1. /\ audience \in Seq(SUBSET Systems) /\ Len(audience) \in Nat
        /\ Len(audience) < load.events /\ audience' = Append(audience, L)
        /\ delivery' = delivery /\ load' = load
    BY DEF TypeInv, TypeOK, PublishRead
  <1>2. L \in SUBSET Systems
    BY DEF Listeners
  <1> HIDE DEF L
  <1>3. /\ audience' \in Seq(SUBSET Systems) /\ Len(audience') = Len(audience) + 1
        /\ audience'[Len(audience) + 1] = L
        /\ \A i \in 1..Len(audience) : i \in 1..Len(audience') /\ audience'[i] = audience[i]
    BY <1>1, <1>2
  <1>4. Len(audience') <= load'.events /\ Len(audience') \in 1..MaxEvents
    BY <1>1, <1>3, LoadType, Bounds
  <1>5. \A d \in Deliveries : delivery[d] \in Row =>
          /\ delivery[d].event \in 1..Len(audience)
          /\ delivery[d].system \in audience[delivery[d].event]
          /\ Pending(d) => Left(delivery[d].attempts)
    BY DEF TypeInv, RowsInv
  <1>6. RowsInv'
    BY <1>1, <1>3, <1>5 DEF RowsInv, Pending
  <1>7. QED
    BY <1>1, <1>3, <1>4, <1>6 DEF TypeInv, TypeOK, TableOK, KeepsRows, L

(* What the INSERT writes: a new row for each listener, under its own id.  *)
LEMMA InsertedRows ==
  ASSUME TypeInv, NEW h \in Publishers, PublishInsert(h)
  PROVE  LET e == publishing[h].event
             L == publishing[h].listeners
         IN  /\ e \in 1..Len(audience) /\ L = audience[e] /\ L \in SUBSET Systems
             /\ \E ids \in [L -> Free] :
                  /\ \A s, t \in L : ids[s] = ids[t] => s = t
                  /\ \A s \in L : delivery'[ids[s]] = Queued(s, e, "original")
                  /\ \A d \in Deliveries : (\A s \in L : ids[s] # d) => delivery'[d] = delivery[d]
             /\ DOMAIN delivery' = Deliveries /\ delivery' = [d \in Deliveries |-> delivery'[d]]
             /\ \A d \in Deliveries :
                  \/ delivery'[d] = delivery[d]
                  \/ /\ d \in Free /\ delivery'[d] \in Row
                     /\ delivery'[d].event = e /\ delivery'[d].system \in L
                     /\ delivery'[d].replay = "original"
                     /\ delivery'[d].state = "pending" /\ delivery'[d].attempts = 0
  <1> DEFINE e == publishing[h].event
             L == publishing[h].listeners
  <1>1. publishing[h] # idle
    BY DEF PublishInsert, Queue
  <1>2. publishing[h] \in Event /\ PublishFits(h)
    BY <1>1 DEF TypeInv, TypeOK
  <1>3. e \in 1..Len(audience) /\ L = audience[e] /\ L \in SUBSET Systems /\ e \in 1..MaxEvents
    BY <1>1, <1>2 DEF PublishFits, Event
  <1>4. PICK ids \in [L -> Free] : /\ \A s, t \in L : ids[s] = ids[t] => s = t
                                   /\ delivery' = Created(ids, e)
    BY DEF PublishInsert, Queue
  <1> HIDE DEF e, L
  <1>5. DOMAIN ids = L /\ \A s \in L : ids[s] \in Free /\ ids[s] \in Deliveries
    BY <1>4, LoadType
  <1>6. ASSUME NEW d \in Deliveries, \A s \in L : ids[s] # d
        PROVE  delivery'[d] = delivery[d]
    BY <1>4, <1>5, <1>6 DEF Created
  <1>7. ASSUME NEW s \in L
        PROVE  delivery'[ids[s]] = Queued(s, e, "original")
    <2> DEFINE t == CHOOSE u \in DOMAIN ids : ids[u] = ids[s]
    <2>1. t \in L /\ ids[t] = ids[s]
      BY <1>5
    <2>2. t = s
      BY <1>4, <2>1
    <2>3. delivery'[ids[s]] = Queued(t, e, "original")
      BY <1>4, <1>5 DEF Created
    <2>4. QED
      BY <2>2, <2>3
  <1>8. DOMAIN delivery' = Deliveries /\ delivery' = [d \in Deliveries |-> delivery'[d]]
    BY <1>4 DEF Created
  <1>9. ASSUME NEW s \in L
        PROVE  /\ Queued(s, e, "original") \in Row
               /\ Queued(s, e, "original").event = e /\ Queued(s, e, "original").system = s
               /\ Queued(s, e, "original").replay = "original"
               /\ Queued(s, e, "original").state = "pending"
               /\ Queued(s, e, "original").attempts = 0
    <2>1. s \in Systems
      BY <1>3
    <2>2. QED
      BY <1>3, <2>1, QueuedType
  <1>10. ASSUME NEW d \in Deliveries, delivery'[d] # delivery[d]
         PROVE  /\ d \in Free /\ delivery'[d] \in Row
                /\ delivery'[d].event = e /\ delivery'[d].system \in L
                /\ delivery'[d].replay = "original"
                /\ delivery'[d].state = "pending" /\ delivery'[d].attempts = 0
    <2>1. PICK s \in L : ids[s] = d
      BY <1>6, <1>10
    <2>2. QED
      BY <1>5, <1>7, <1>9, <2>1
  <1>11. \E i \in [L -> Free] :
           /\ \A s, t \in L : i[s] = i[t] => s = t
           /\ \A s \in L : delivery'[i[s]] = Queued(s, e, "original")
           /\ \A d \in Deliveries : (\A s \in L : i[s] # d) => delivery'[d] = delivery[d]
    BY <1>4, <1>6, <1>7
  <1>12. QED
    BY <1>3, <1>8, <1>10, <1>11 DEF e, L

LEMMA QueuedRows ==
  ASSUME TypeInv, NEW h \in Publishers, PublishInsert(h)
  PROVE  TableOK' /\ KeepsRows
  <1> DEFINE e == publishing[h].event
  <1>1. /\ e \in 1..Len(audience) /\ publishing[h].listeners = audience[e]
        /\ delivery' = [d \in Deliveries |-> delivery'[d]]
        /\ \A d \in Deliveries :
             \/ delivery'[d] = delivery[d]
             \/ /\ d \in Free /\ delivery'[d] \in Row
                /\ delivery'[d].event = e /\ delivery'[d].system \in audience[e]
                /\ delivery'[d].attempts = 0
    BY InsertedRows
  <1>2. audience' = audience
    BY DEF PublishInsert, Queue
  <1> HIDE DEF e
  <1>3. Left(0)
    BY Bounds DEF Left
  <1>4. KeepsRows
    BY <1>1, LoadType, AbsentIsNoRow DEF KeepsRows
  <1>5. \A d \in Deliveries : delivery'[d] \in Row \cup {absent}
    BY <1>1 DEF TypeInv, TypeOK
  <1>6. RowsInv'
    BY <1>1, <1>2, <1>3 DEF TypeInv, RowsInv, Pending
  <1>7. QED
    BY <1>1, <1>4, <1>5, <1>6 DEF TableOK

(* What a handler has yet to queue is what listened to its event.          *)
LEMMA PublishersStep ==
  ASSUME TypeInv, [Next]_vars
  PROVE  /\ publishing' \in [Publishers -> Event \cup {idle}]
         /\ \A h \in Publishers : PublishFits(h)'
  <1>0. publishing \in [Publishers -> Event \cup {idle}] /\ \A h \in Publishers : PublishFits(h)
    BY DEF TypeInv, TypeOK
  <1>1. ASSUME NEW h \in Publishers, NEW owner \in Systems \cup {Nobody}, PublishRead(h, owner)
        PROVE  /\ publishing' \in [Publishers -> Event \cup {idle}]
               /\ \A g \in Publishers : PublishFits(g)'
    <2> DEFINE new == [event |-> Len(audience) + 1, listeners |-> Listeners(owner)]
    <2>1. /\ Len(audience') = Len(audience) + 1 /\ Len(audience') \in 1..MaxEvents
          /\ audience'[Len(audience) + 1] = Listeners(owner)
          /\ \A i \in 1..Len(audience) : i \in 1..Len(audience') /\ audience'[i] = audience[i]
      BY <1>1, ReadRows
    <2>2. Listeners(owner) \in SUBSET Systems
      BY DEF Listeners
    <2>3. new \in Event /\ new.event = Len(audience') /\ new.listeners = audience'[new.event]
          /\ new.event \in 1..Len(audience')
      BY <2>1, <2>2 DEF Event
    <2>4. publishing' = publishing \/ publishing' = [publishing EXCEPT ![h] = new]
      BY <1>1 DEF PublishRead
    <2> HIDE DEF new
    <2>5. publishing' \in [Publishers -> Event \cup {idle}]
      BY <1>0, <2>3, <2>4
    <2>6. ASSUME NEW g \in Publishers, publishing'[g] # idle
          PROVE  /\ publishing'[g].event \in 1..Len(audience')
                 /\ publishing'[g].listeners = audience'[publishing'[g].event]
      <3>1. publishing'[g] = publishing[g] \/ publishing'[g] = new
        BY <1>0, <2>4
      <3>2. CASE publishing'[g] = new
        BY <2>3, <3>2
      <3>3. CASE publishing'[g] = publishing[g]
        <4>1. /\ publishing[g].event \in 1..Len(audience)
              /\ publishing[g].listeners = audience[publishing[g].event]
          BY <1>0, <2>6, <3>3 DEF PublishFits
        <4>2. QED
          BY <2>1, <3>3, <4>1
      <3>4. QED
        BY <3>1, <3>2, <3>3
    <2>7. QED
      BY <2>5, <2>6 DEF PublishFits
  <1>2. ASSUME NEW h \in Publishers, publishing' = [publishing EXCEPT ![h] = idle],
               audience' = audience
        PROVE  /\ publishing' \in [Publishers -> Event \cup {idle}]
               /\ \A g \in Publishers : PublishFits(g)'
    BY <1>0, <1>2 DEF PublishFits
  <1>3. ASSUME publishing' = publishing, audience' = audience
        PROVE  /\ publishing' \in [Publishers -> Event \cup {idle}]
               /\ \A g \in Publishers : PublishFits(g)'
    BY <1>0, <1>3 DEF PublishFits
  <1>4. QED
    BY <1>1, <1>2, <1>3
       DEF Next, vars, PublishInsert, Queue, PublishFails, SaveSystem, Replay, BecomesDue,
           ReplayAllRead, ReplayAllNext, PassStep, Select, Deliver, DeliverUnanswered, Record, CutOff

LEMMA TableStep ==
  ASSUME TypeInv, [Next]_vars
  PROVE  TableOK' /\ KeepsRows
  <1> USE DEF vars
  <1>1. ASSUME NEW h \in Publishers, NEW owner \in Systems \cup {Nobody}, PublishRead(h, owner)
        PROVE  TableOK' /\ KeepsRows
    BY <1>1, ReadRows
  <1>8. ASSUME NEW h \in Publishers, PublishInsert(h)
        PROVE  TableOK' /\ KeepsRows
    BY <1>8, QueuedRows
  <1>2. ASSUME NEW d \in Deliveries, Replay(d)
        PROVE  TableOK' /\ KeepsRows
    <2>1. Real(d)
      BY <1>2 DEF Replay, Exists, Real, TypeInv, TypeOK
    <2>2. PICK id \in Free : delivery' = Replayed(d, id)
      BY <1>2 DEF Replay
    <2>3. audience' = audience
      BY <1>2 DEF Replay
    <2>4. QED
      BY <2>1, <2>2, <2>3, ReplayedRow
  <1>3. ASSUME NEW a \in Admins, NEW d \in Deliveries, ReplayAllNext(a, d)
        PROVE  TableOK' /\ KeepsRows
    <2>1. Real(d)
      BY <1>3 DEF ReplayAllNext, TypeInv, CallFits
    <2>2. PICK id \in Free : delivery' = Replayed(d, id)
      BY <1>3 DEF ReplayAllNext
    <2>3. audience' = audience
      BY <1>3 DEF ReplayAllNext
    <2>4. QED
      BY <2>1, <2>2, <2>3, ReplayedRow
  <1>4. ASSUME NEW p \in Passes, Record(p)
        PROVE  TableOK' /\ KeepsRows
    <2> DEFINE d == pass[p].current
               read == pass[p].batch[d]
               new == Result(delivery[d], read, pass[p].outcome)
    <2>1. Real(d) /\ Left(read) /\ pass[p].outcome \in Outcomes
      BY <1>4, ActivePass DEF Record
    <2>2. /\ new \in Row
          /\ new.system = delivery[d].system /\ new.event = delivery[d].event
          /\ new.state = "pending" => Left(new.attempts)
      BY <2>1, ResultType DEF Real
    <2>3. delivery' = [delivery EXCEPT ![d] = new] /\ audience' = audience
      BY <1>4 DEF Record
    <2>4. /\ d \in Deliveries
          /\ delivery[d].event \in 1..Len(audience)
          /\ delivery[d].system \in audience[delivery[d].event]
      BY <2>1 DEF Real, TypeInv, RowsInv
    <2> HIDE DEF d, new
    <2>5. QED
      BY <2>2, <2>3, <2>4, WrittenRow
  <1>5. ASSUME NEW d \in Deliveries, BecomesDue(d)
        PROVE  TableOK' /\ KeepsRows
    <2> DEFINE new == [delivery[d] EXCEPT !.due = TRUE]
    <2>1. delivery[d] \in Row
      BY <1>5 DEF BecomesDue, Pending, TypeInv, TypeOK, absent
    <2>2. /\ new \in Row
          /\ new.system = delivery[d].system /\ new.event = delivery[d].event
          /\ new.state = delivery[d].state /\ new.attempts = delivery[d].attempts
      BY <2>1 DEF Row
    <2>3. delivery' = [delivery EXCEPT ![d] = new] /\ audience' = audience
      BY <1>5 DEF BecomesDue
    <2>4. /\ delivery[d].event \in 1..Len(audience)
          /\ delivery[d].system \in audience[delivery[d].event]
          /\ delivery[d].state = "pending" => Left(delivery[d].attempts)
      BY <2>1 DEF TypeInv, RowsInv, Pending
    <2> HIDE DEF new
    <2>5. QED
      BY <2>2, <2>3, <2>4, WrittenRow
  <1>6. ASSUME delivery' = delivery, audience' = audience
        PROVE  TableOK' /\ KeepsRows
    BY <1>6, KeptRows
  <1>7. QED
    BY <1>1, <1>2, <1>3, <1>4, <1>5, <1>6, <1>8
       DEF Next, PublishFails, SaveSystem, ReplayAllRead, PassStep, Select, Deliver,
           DeliverUnanswered, CutOff

(* A pass that is new or has moved on: what it holds it held before, or    *)
(* was pending and due.                                                    *)
PassOK(p) == pass[p] \in Pass \cup {idle} /\ PassFits(p)

LEMMA NewPass ==
  ASSUME KeepsRows, NEW p \in Passes,
         NEW pc \in {"send", "record"}, NEW d,
         NEW S \in SUBSET Deliveries, NEW batch \in [S -> 0..MaxAttempts],
         NEW outcome \in Outcomes,
         d \in S,
         \A k \in S : Real(k) /\ Left(batch[k]),
         pass'[p] = At(pc, batch, d, outcome)
  PROVE  PassOK(p)'
  <1>1. batch \in UNION {[D -> 0..MaxAttempts] : D \in SUBSET Deliveries}
    OBVIOUS
  <1>2. pass'[p] \in Pass
    BY <1>1 DEF Pass, At
  <1>3. DOMAIN batch = S
    OBVIOUS
  <1>4. \A k \in S : Real(k)'
    BY DEF KeepsRows, Real
  <1> HIDE DEF Pass
  <1>5. PassFits(p)'
    BY <1>3, <1>4 DEF PassFits, At
  <1>6. QED
    BY <1>2, <1>5 DEF PassOK

LEMMA KeptPass ==
  ASSUME TypeInv, KeepsRows, NEW p \in Passes, pass'[p] = pass[p] \/ pass'[p] = idle
  PROVE  PassOK(p)'
  <1>1. PassFits(p) /\ pass[p] \in Pass \cup {idle}
    BY DEF TypeInv, TypeOK
  <1>2. \A d : Real(d) => Real(d)'
    BY DEF KeepsRows, Real
  <1>3. QED
    BY <1>1, <1>2 DEF PassOK, PassFits

(* A pass that is answered keeps its batch.                                *)
LEMMA AnsweredPass ==
  ASSUME TypeInv, KeepsRows, NEW p \in Passes, pass[p].pc = "send",
         NEW outcome \in Outcomes, Answered(p, outcome)
  PROVE  PassOK(p)'
  <1> DEFINE S == DOMAIN pass[p].batch
  <1>1. /\ S \in SUBSET Deliveries /\ pass[p].batch \in [S -> 0..MaxAttempts]
        /\ pass[p].current \in S /\ pass[p] # idle
    BY ActivePass
  <1>2. \A d \in S : Real(d) /\ Left(pass[p].batch[d])
    BY <1>1 DEF TypeInv, PassFits
  <1>3. pass'[p] = At("record", pass[p].batch, pass[p].current, outcome)
    BY DEF Answered, TypeInv, TypeOK
  <1> HIDE DEF S
  <1>4. QED
    BY <1>1, <1>2, <1>3, NewPass

LEMMA PassStepType ==
  ASSUME TypeInv, KeepsRows, NEW p \in Passes,
         PassStep(p) \/ DeliverUnanswered(p) \/ CutOff(p)
  PROVE  PassOK(p)' /\ \A q \in Passes \ {p} : pass'[q] = pass[q]
  <1>0. pass \in [Passes -> Pass \cup {idle}]
    BY DEF TypeInv, TypeOK
  <1>1. CASE Select(p)
    <2> DEFINE batch == [k \in Due |-> delivery[k].attempts]
    <2>1. PICK d \in Due : pass' = [pass EXCEPT ![p] = At("send", batch, d, "again")]
      BY <1>1 DEF Select
    <2>2. \A k \in Due : k \in Deliveries /\ Real(k) /\ Left(delivery[k].attempts)
      <3>1. \A k \in Due : k \in Deliveries /\ Pending(k) /\ delivery[k] \in Row
        BY DEF Due, Pending, absent, TypeInv, TypeOK
      <3>2. QED
        BY <3>1 DEF Real, TypeInv, RowsInv
    <2>3. Due \in SUBSET Deliveries /\ batch \in [Due -> 0..MaxAttempts]
      BY <2>2 DEF Left
    <2>4. \A k \in Due : Real(k) /\ Left(batch[k])
      BY <2>2
    <2>5. pass'[p] = At("send", batch, d, "again") /\ "again" \in Outcomes
      BY <1>0, <2>1 DEF Outcomes
    <2> HIDE DEF batch
    <2>6. QED
      BY <1>0, <2>1, <2>3, <2>4, <2>5, NewPass
  <1>2. CASE Deliver(p) \/ DeliverUnanswered(p)
    <2>1. PICK outcome \in Outcomes : Answered(p, outcome) /\ pass[p].pc = "send"
      BY <1>2 DEF Deliver, DeliverUnanswered, Outcomes
    <2>2. QED
      BY <1>0, <2>1, AnsweredPass DEF Answered
  <1>3. CASE Record(p)
    <2> DEFINE d == pass[p].current
               rest == DOMAIN pass[p].batch \ {d}
               batch == [j \in rest |-> pass[p].batch[j]]
    <2>1. CASE rest = {}
      <3>1. pass' = [pass EXCEPT ![p] = idle]
        BY <1>3, <2>1 DEF Record
      <3>2. QED
        BY <1>0, <3>1, KeptPass
    <2>2. CASE rest # {}
      <3>1. PICK k \in rest : pass' = [pass EXCEPT ![p] = At("send", batch, k, "again")]
        BY <1>3, <2>2 DEF Record
      <3>2. /\ DOMAIN pass[p].batch \in SUBSET Deliveries /\ pass[p] # idle
            /\ pass[p].batch \in [DOMAIN pass[p].batch -> 0..MaxAttempts]
        BY <1>3, ActivePass DEF Record
      <3>3. \A j \in rest : Real(j) /\ Left(pass[p].batch[j])
        BY <3>2 DEF TypeInv, PassFits
      <3>4. rest \in SUBSET Deliveries /\ batch \in [rest -> 0..MaxAttempts]
        BY <3>2
      <3>5. \A j \in rest : Real(j) /\ Left(batch[j])
        BY <3>3
      <3>6. pass'[p] = At("send", batch, k, "again") /\ "again" \in Outcomes
        BY <1>0, <3>1 DEF Outcomes
      <3> HIDE DEF batch, rest
      <3>7. QED
        BY <1>0, <3>1, <3>4, <3>5, <3>6, NewPass
    <2>3. QED
      BY <2>1, <2>2
  <1>4. CASE CutOff(p)
    BY <1>0, <1>4, KeptPass DEF CutOff
  <1>5. QED
    BY <1>1, <1>2, <1>3, <1>4 DEF PassStep

LEMMA PassesStep ==
  ASSUME TypeInv, KeepsRows, [Next]_vars
  PROVE  \A p \in Passes : PassOK(p)'
  <1>1. ASSUME NEW p \in Passes, PassStep(p) \/ DeliverUnanswered(p) \/ CutOff(p), NEW q \in Passes
        PROVE  PassOK(q)'
    BY <1>1, PassStepType, KeptPass
  <1>2. ASSUME pass' = pass, NEW q \in Passes
        PROVE  PassOK(q)'
    BY <1>2, KeptPass
  <1>3. QED
    BY <1>1, <1>2
       DEF Next, vars, PublishRead, PublishInsert, Queue, PublishFails, SaveSystem, Replay,
           ReplayAllRead, ReplayAllNext, BecomesDue

(* The administrators' lists, the systems and the counts.                  *)
CountsOK == /\ system \in [Systems -> System]
            /\ audience \in Seq(SUBSET Systems) /\ Len(audience) <= load.events
            /\ heard \in [Deliveries -> Nat]
            /\ edits \in 0..MaxEdits
            /\ mishaps \in 0..MaxMishaps

LEMMA AcceptedType ==
  ASSUME TypeInv, NEW p \in Passes, pass[p].pc = "send", Accepted(pass[p].current)
  PROVE  heard' \in [Deliveries -> Nat]
  <1>1. pass[p].current \in Deliveries
    BY ActivePass DEF Real
  <1>2. QED
    BY <1>1 DEF Accepted, TypeInv, TypeOK

LEMMA CountsStep ==
  ASSUME TypeInv, [Next]_vars
  PROVE  CountsOK'
  <1> USE Bounds DEF CountsOK
  <1>0. /\ CountsOK
        /\ edits < MaxEdits => edits + 1 \in 0..MaxEdits
        /\ mishaps < MaxMishaps => mishaps + 1 \in 0..MaxMishaps
    BY DEF TypeInv, TypeOK
  <1>1. ASSUME NEW h \in Publishers, NEW owner \in Systems \cup {Nobody}, PublishRead(h, owner)
        PROVE  CountsOK'
    <2>1. /\ audience' \in Seq(SUBSET Systems) /\ Len(audience') <= load'.events
          /\ UNCHANGED <<system, heard, edits, mishaps>>
      BY <1>1, ReadRows DEF PublishRead
    <2>2. QED
      BY <1>0, <2>1
  <1>9. ASSUME NEW h \in Publishers, PublishInsert(h) \/ PublishFails(h)
        PROVE  CountsOK'
    BY <1>0, <1>9 DEF PublishInsert, Queue, PublishFails
  <1>2. ASSUME NEW s \in Systems, NEW as \in System, SaveSystem(s, as)
        PROVE  CountsOK'
    BY <1>0, <1>2 DEF SaveSystem
  <1>3. ASSUME NEW d \in Deliveries, Replay(d) \/ BecomesDue(d)
        PROVE  CountsOK'
    BY <1>0, <1>3 DEF Replay, BecomesDue
  <1>4. ASSUME NEW a \in Admins,
               \/ \E S \in {Systems} \cup {{s} : s \in Systems} : ReplayAllRead(a, S)
               \/ \E d \in Deliveries : ReplayAllNext(a, d)
        PROVE  CountsOK'
    BY <1>0, <1>4 DEF ReplayAllRead, ReplayAllNext
  <1>5. ASSUME NEW p \in Passes, Deliver(p) \/ DeliverUnanswered(p)
        PROVE  CountsOK'
    <2>1. heard' = heard \/ heard' \in [Deliveries -> Nat]
      BY <1>5, AcceptedType DEF Deliver, DeliverUnanswered
    <2>2. QED
      BY <1>0, <1>5, <2>1 DEF Deliver, DeliverUnanswered
  <1>6. ASSUME NEW p \in Passes, Select(p) \/ Record(p) \/ CutOff(p)
        PROVE  CountsOK'
    BY <1>0, <1>6 DEF Select, Record, CutOff
  <1>7. CASE UNCHANGED vars
    BY <1>0, <1>7 DEF vars
  <1>8. QED
    BY <1>1, <1>2, <1>3, <1>4, <1>5, <1>6, <1>7, <1>9 DEF Next, PassStep

LEMMA CallsStep ==
  ASSUME TypeInv, KeepsRows, [Next]_vars
  PROVE  call' \in [Admins -> SUBSET Deliveries] /\ \A a \in Admins : CallFits(a)'
  <1>1. \A d : Real(d) => Real(d)'
    BY DEF KeepsRows, Real
  <1>2. call \in [Admins -> SUBSET Deliveries] /\ \A a \in Admins : \A d \in call[a] : Real(d)
    BY DEF TypeInv, TypeOK, CallFits
  <1>3. ASSUME NEW a \in Admins, NEW S \in {Systems} \cup {{s} : s \in Systems}, ReplayAllRead(a, S)
        PROVE  call' \in [Admins -> SUBSET Deliveries] /\ \A b \in Admins : CallFits(b)'
    <2>1. \A d \in Dead(S) : Real(d)
      BY DEF Dead, Real, TypeInv, TypeOK, absent
    <2>2. Dead(S) \in SUBSET Deliveries /\ call' = [call EXCEPT ![a] = Dead(S)]
      BY <1>3 DEF ReplayAllRead, Dead
    <2>3. QED
      BY <1>1, <1>2, <2>1, <2>2 DEF CallFits
  <1>4. ASSUME NEW a \in Admins, NEW d \in Deliveries, ReplayAllNext(a, d)
        PROVE  call' \in [Admins -> SUBSET Deliveries] /\ \A b \in Admins : CallFits(b)'
    <2>1. call' = [call EXCEPT ![a] = @ \ {d}]
      BY <1>4 DEF ReplayAllNext
    <2>2. QED
      BY <1>1, <1>2, <2>1 DEF CallFits
  <1>5. CASE call' = call
    BY <1>1, <1>2, <1>5 DEF CallFits
  <1>6. QED
    BY <1>3, <1>4, <1>5
       DEF Next, vars, PublishRead, PublishInsert, Queue, PublishFails, SaveSystem, Replay,
           BecomesDue, PassStep, Select, Deliver, DeliverUnanswered, Record, CutOff

LEMMA TypeInit == Init => TypeInv
  <1> SUFFICES ASSUME Init PROVE TypeInv
    OBVIOUS
  <1>1. audience = <<>> /\ Len(audience) = 0 /\ audience \in Seq(SUBSET Systems)
    BY DEF Init
  <1>6. load \in Loads /\ load.events \in 0..MaxEvents
    BY WebhookConstants DEF Init
  <1>7. 0 <= load.events /\ 0 \in Nat /\ 0 \in 0..MaxEdits /\ 0 \in 0..MaxMishaps
    BY <1>6, Bounds
  <1>2. TypeOK
    BY <1>1, <1>6, <1>7 DEF Init, TypeOK
  <1>3. RowsInv
    BY AbsentIsNoRow DEF Init, RowsInv
  <1>4. /\ \A p \in Passes : PassFits(p)
        /\ \A a \in Admins : CallFits(a)
        /\ \A h \in Publishers : PublishFits(h)
    BY DEF Init, PassFits, CallFits, PublishFits
  <1>5. QED
    BY <1>2, <1>3, <1>4 DEF TypeInv

LEMMA TypeStep == TypeInv /\ [Next]_vars => TypeInv'
  <1> SUFFICES ASSUME TypeInv, [Next]_vars PROVE TypeInv'
    OBVIOUS
  <1>1. TableOK' /\ KeepsRows
    BY TableStep
  <1>2. \A p \in Passes : PassOK(p)'
    BY <1>1, PassesStep
  <1>3. pass' \in [Passes -> Pass \cup {idle}]
    <2>1. pass' = [p \in Passes |-> pass'[p]]
      BY DEF TypeInv, TypeOK, Next, vars, PublishRead, PublishInsert, Queue, PublishFails,
             SaveSystem, Replay, BecomesDue, ReplayAllRead, ReplayAllNext,
             PassStep, Select, Deliver, DeliverUnanswered, Record, CutOff, Answered
    <2>2. \A p \in Passes : pass'[p] \in Pass \cup {idle}
      BY <1>2 DEF PassOK
    <2>3. QED
      BY <2>1, <2>2
  <1>4. CountsOK' /\ call' \in [Admins -> SUBSET Deliveries] /\ \A a \in Admins : CallFits(a)'
    BY <1>1, CountsStep, CallsStep
  <1>6. /\ publishing' \in [Publishers -> Event \cup {idle}]
        /\ \A h \in Publishers : PublishFits(h)'
    BY PublishersStep
  <1>7. load' \in Loads
    BY LoadStays DEF TypeInv, TypeOK
  <1>5. QED
    BY <1>1, <1>2, <1>3, <1>4, <1>6, <1>7 DEF TypeInv, TypeOK, TableOK, CountsOK, PassOK

LEMMA TypeInvHolds == Spec => []TypeInv
  BY TypeInit, TypeStep, PTL DEF Spec

(* Every variable keeps its type, whatever passes and administrators do    *)
(* side by side.                                                           *)
THEOREM WebhooksTypeCorrect == Spec => []TypeOK
  <1>1. TypeInv => TypeOK
    BY DEF TypeInv
  <1>2. QED
    BY <1>1, TypeInvHolds, PTL
-----------------------------------------------------------------------------
(* Events reach all who listened or nobody.  A handler that has an event   *)
(* to queue is the only one to have it, and none of its rows is written    *)
(* yet; then one statement writes them all.                                *)

IsOriginal(d) == Exists(d) /\ delivery[d].replay = "original"

Fresh(h) ==
    publishing[h] # idle =>
        \A d \in Deliveries : IsOriginal(d) => delivery[d].event # publishing[h].event

Alone(g, h) ==
    g # h /\ publishing[g] # idle /\ publishing[h] # idle => publishing[g].event # publishing[h].event

WholeEvent(e) == /\ QueuedFor(e) \in {{}, audience[e]}
                 /\ \A c, d \in Original(e) : delivery[c].system = delivery[d].system => c = d

WholeInv == /\ \A h \in Publishers : Fresh(h)
            /\ \A g, h \in Publishers : Alone(g, h)
            /\ \A e \in 1..Len(audience) : WholeEvent(e)
            /\ Cardinality(Unheard) <= mishaps

(* No step but the INSERT adds to or takes from the rows of an event.      *)
SameOriginals ==
    \A d \in Deliveries : /\ IsOriginal(d)' <=> IsOriginal(d)
                          /\ IsOriginal(d) => /\ delivery'[d].event = delivery[d].event
                                              /\ delivery'[d].system = delivery[d].system

LEMMA OriginalsKept ==
  ASSUME SameOriginals, NEW e
  PROVE  /\ Original(e)' = Original(e) /\ QueuedFor(e)' = QueuedFor(e)
         /\ \A d \in Original(e) : delivery'[d].system = delivery[d].system
  <1>1. Original(e)' = Original(e)
    BY DEF SameOriginals, IsOriginal, Original
  <1>2. \A d \in Original(e) : delivery'[d].system = delivery[d].system
    BY DEF SameOriginals, IsOriginal, Original
  <1>3. QED
    BY <1>1, <1>2 DEF QueuedFor

LEMMA WrittenInPlace ==
  ASSUME TypeInv, NEW d \in Deliveries, NEW row \in Row, delivery[d] \in Row,
         delivery' = [delivery EXCEPT ![d] = row],
         row.system = delivery[d].system, row.event = delivery[d].event,
         row.replay = delivery[d].replay
  PROVE  SameOriginals
  BY AbsentIsNoRow DEF SameOriginals, IsOriginal, Exists, TypeInv, TypeOK

LEMMA WrittenAsReplay ==
  ASSUME TypeInv, NEW d, Real(d), NEW id \in Free, delivery' = Replayed(d, id)
  PROVE  SameOriginals
  <1> DEFINE row == Queued(delivery[d].system, delivery[d].event, d)
  <1>1. /\ delivery[d].system \in Systems /\ delivery[d].event \in 1..MaxEvents
        /\ d \in Deliveries /\ id \in Deliveries /\ delivery[id] = absent
    BY LoadType DEF Real, Row
  <1>2. row.replay = d /\ d # "original"
    BY <1>1, QueuedType, WebhookConstants
  <1>3. delivery' = [delivery EXCEPT ![id] = row]
    BY DEF Replayed
  <1> HIDE DEF row
  <1>4. QED
    BY <1>1, <1>2, <1>3 DEF SameOriginals, IsOriginal, Exists, TypeInv, TypeOK

LEMMA OriginalsStep ==
  ASSUME TypeInv, [Next]_vars, \A h \in Publishers : ~PublishInsert(h)
  PROVE  SameOriginals
  <1>1. ASSUME NEW d \in Deliveries, Replay(d)
        PROVE  SameOriginals
    <2>1. Real(d)
      BY <1>1 DEF Replay, Exists, Real, TypeInv, TypeOK
    <2>2. PICK id \in Free : delivery' = Replayed(d, id)
      BY <1>1 DEF Replay
    <2>3. QED
      BY <2>1, <2>2, WrittenAsReplay
  <1>2. ASSUME NEW a \in Admins, NEW d \in Deliveries, ReplayAllNext(a, d)
        PROVE  SameOriginals
    <2>1. Real(d)
      BY <1>2 DEF ReplayAllNext, TypeInv, CallFits
    <2>2. PICK id \in Free : delivery' = Replayed(d, id)
      BY <1>2 DEF ReplayAllNext
    <2>3. QED
      BY <2>1, <2>2, WrittenAsReplay
  <1>3. ASSUME NEW p \in Passes, Record(p)
        PROVE  SameOriginals
    <2> DEFINE d == pass[p].current
               new == Result(delivery[d], pass[p].batch[d], pass[p].outcome)
    <2>1. Real(d) /\ Left(pass[p].batch[d]) /\ pass[p].outcome \in Outcomes
      BY <1>3, ActivePass DEF Record
    <2>2. /\ new \in Row /\ new.replay = delivery[d].replay
          /\ new.system = delivery[d].system /\ new.event = delivery[d].event
      BY <2>1, ResultType DEF Real
    <2>3. delivery' = [delivery EXCEPT ![d] = new]
      BY <1>3 DEF Record
    <2>4. d \in Deliveries /\ delivery[d] \in Row
      BY <2>1 DEF Real
    <2> HIDE DEF d, new
    <2>5. QED
      BY <2>2, <2>3, <2>4, WrittenInPlace
  <1>4. ASSUME NEW d \in Deliveries, BecomesDue(d)
        PROVE  SameOriginals
    <2> DEFINE new == [delivery[d] EXCEPT !.due = TRUE]
    <2>1. delivery[d] \in Row
      BY <1>4 DEF BecomesDue, Pending, TypeInv, TypeOK, absent
    <2>2. /\ new \in Row /\ new.replay = delivery[d].replay
          /\ new.system = delivery[d].system /\ new.event = delivery[d].event
      BY <2>1 DEF Row
    <2>3. delivery' = [delivery EXCEPT ![d] = new]
      BY <1>4 DEF BecomesDue
    <2> HIDE DEF new
    <2>4. QED
      BY <2>1, <2>2, <2>3, WrittenInPlace
  <1>5. CASE delivery' = delivery
    BY <1>5 DEF SameOriginals, IsOriginal, Exists
  <1>6. QED
    BY <1>1, <1>2, <1>3, <1>4, <1>5
       DEF Next, vars, PublishRead, PublishFails, SaveSystem, ReplayAllRead,
           PassStep, Select, Deliver, DeliverUnanswered, CutOff

(* The events that reach nobody are so many as there are at most events.   *)
LEMMA FiniteEvents ==
  ASSUME TypeInv
  PROVE  /\ Len(audience) \in Nat /\ IsFiniteSet(Unheard) /\ Cardinality(Unheard) \in Nat
         /\ \A S \in SUBSET Unheard : Cardinality(S) \in Nat /\ Cardinality(S) <= Cardinality(Unheard)
         /\ \A e : /\ Cardinality(Unheard \cup {e}) \in Nat
                   /\ Cardinality(Unheard \cup {e}) <= Cardinality(Unheard) + 1
  <1>1. Len(audience) \in Nat
    BY DEF TypeInv, TypeOK
  <1>2. IsFiniteSet(1..Len(audience))
    BY <1>1, FS_Interval
  <1>3. Unheard \in SUBSET (1..Len(audience))
    BY DEF Unheard
  <1>4. IsFiniteSet(Unheard) /\ Cardinality(Unheard) \in Nat
    BY <1>2, <1>3, FS_Subset, FS_CardinalityType
  <1>5. \A S \in SUBSET Unheard : Cardinality(S) \in Nat /\ Cardinality(S) <= Cardinality(Unheard)
    BY <1>4, FS_Subset, FS_CardinalityType
  <1>6. ASSUME NEW e
        PROVE  /\ Cardinality(Unheard \cup {e}) \in Nat
               /\ Cardinality(Unheard \cup {e}) <= Cardinality(Unheard) + 1
    <2>1. \/ Cardinality(Unheard \cup {e}) = Cardinality(Unheard)
          \/ Cardinality(Unheard \cup {e}) = Cardinality(Unheard) + 1
      BY <1>4, FS_AddElement
    <2>2. QED
      BY <1>4, <2>1
  <1>7. QED
    BY <1>1, <1>4, <1>5, <1>6

LEMMA WholeRead ==
  ASSUME TypeInv, WholeInv, NEW h \in Publishers, NEW owner \in Systems \cup {Nobody},
         PublishRead(h, owner), SameOriginals
  PROVE  WholeInv'
  <1> DEFINE L == Listeners(owner)
  <1>0. PICK n : n = Len(audience) + 1
    OBVIOUS
  <1>1. /\ Len(audience) \in Nat /\ n = Len(audience) + 1 /\ Len(audience') = n /\ audience'[n] = L
        /\ \A i \in 1..Len(audience) : audience'[i] = audience[i]
    BY <1>0, ReadRows, FiniteEvents
  <1>2. /\ publishing[h] = idle /\ mishaps' = mishaps
        /\ publishing \in [Publishers -> Event \cup {idle}]
        /\ publishing' = IF L = {} THEN publishing
                         ELSE [publishing EXCEPT ![h] = [event |-> n, listeners |-> L]]
    BY <1>0 DEF PublishRead, TypeInv, TypeOK
  <1> HIDE DEF L
  <1>3. Original(n) = {} /\ QueuedFor(n) = {}
    <2>1. \A d \in Deliveries : Exists(d) => delivery[d].event \in 1..Len(audience)
      BY DEF TypeInv, TypeOK, RowsInv, Exists
    <2>2. Original(n) = {}
      BY <1>1, <2>1 DEF Original
    <2>3. QED
      BY <2>2 DEF QueuedFor
  <1>4. \A g \in Publishers : publishing[g] # idle => publishing[g].event \in 1..Len(audience)
    BY DEF TypeInv, PublishFits
  <1>5. \A g \in Publishers : publishing'[g] # idle =>
          \/ g # h /\ publishing'[g] = publishing[g]
          \/ g = h /\ publishing'[g].event = n
    BY <1>2
  <1>6. \A g \in Publishers : Fresh(g)'
    <2> SUFFICES ASSUME NEW g \in Publishers, publishing'[g] # idle,
                        NEW d \in Deliveries, IsOriginal(d)'
                 PROVE  delivery'[d].event # publishing'[g].event
      BY DEF Fresh
    <2>1. IsOriginal(d) /\ delivery'[d].event = delivery[d].event
      BY DEF SameOriginals
    <2>2. delivery[d].event \in 1..Len(audience)
      BY <2>1 DEF TypeInv, TypeOK, RowsInv, IsOriginal, Exists
    <2>3. CASE publishing'[g] = publishing[g]
      BY <2>1, <2>3 DEF WholeInv, Fresh
    <2>4. CASE publishing'[g].event = n
      BY <1>1, <2>1, <2>2, <2>4
    <2>5. QED
      BY <1>5, <2>3, <2>4
  <1>7. \A g, k \in Publishers : Alone(g, k)'
    BY <1>1, <1>4, <1>5 DEF WholeInv, Alone
  <1>8. \A e \in 1..Len(audience') : WholeEvent(e)'
    <2> SUFFICES ASSUME NEW e \in 1..Len(audience') PROVE WholeEvent(e)'
      OBVIOUS
    <2>1. /\ Original(e)' = Original(e) /\ QueuedFor(e)' = QueuedFor(e)
          /\ \A d \in Original(e) : delivery'[d].system = delivery[d].system
      BY OriginalsKept
    <2>2. CASE e = n
      BY <1>3, <2>1, <2>2 DEF WholeEvent
    <2>3. CASE e # n
      <3>1. e \in 1..Len(audience)
        BY <1>1, <2>3
      <3>2. WholeEvent(e) /\ audience'[e] = audience[e]
        BY <1>1, <3>1 DEF WholeInv
      <3>3. QED
        BY <2>1, <3>2 DEF WholeEvent
    <2>4. QED
      BY <2>2, <2>3
  <1>9. Unheard' \subseteq Unheard
    <2> SUFFICES ASSUME NEW e \in Unheard' PROVE e \in Unheard
      OBVIOUS
    <2>1. e \in 1..Len(audience') /\ audience'[e] # QueuedFor(e)' /\ ~OnItsWay(e)'
      BY DEF Unheard
    <2>2. QueuedFor(e)' = QueuedFor(e)
      BY OriginalsKept
    <2>3. e # n
      <3>1. CASE L = {}
        BY <1>1, <1>3, <2>1, <2>2, <3>1
      <3>2. CASE L # {}
        <4>1. publishing'[h] = [event |-> n, listeners |-> L] /\ publishing'[h] # idle
          BY <1>2, <3>2 DEF idle
        <4>2. OnItsWay(n)'
          BY <4>1 DEF OnItsWay
        <4>3. QED
          BY <2>1, <4>2
      <3>3. QED
        BY <3>1, <3>2
    <2>4. e \in 1..Len(audience) /\ audience'[e] = audience[e]
      BY <1>1, <2>1, <2>3
    <2>5. ~OnItsWay(e)
      <3> SUFFICES ASSUME NEW g \in Publishers, publishing[g] # idle, publishing[g].event = e
                   PROVE  OnItsWay(e)'
        BY <2>1 DEF OnItsWay
      <3>1. publishing'[g] = publishing[g]
        BY <1>2
      <3>2. QED
        BY <3>1 DEF OnItsWay
    <2>6. QED
      BY <2>1, <2>2, <2>4, <2>5 DEF Unheard
  <1>10. Cardinality(Unheard') <= mishaps'
    <2>1. Cardinality(Unheard') \in Nat /\ Cardinality(Unheard') <= Cardinality(Unheard)
      BY <1>9, FiniteEvents
    <2>2. QED
      BY <1>2, <2>1, FiniteEvents, Bounds DEF WholeInv, TypeInv, TypeOK
  <1>11. QED
    BY <1>6, <1>7, <1>8, <1>10 DEF WholeInv

(* One statement writes all the rows of an event that has none.            *)
LEMMA WholeInsert ==
  ASSUME TypeInv, WholeInv, NEW h \in Publishers, PublishInsert(h)
  PROVE  WholeInv'
  <1>0. PICK e, L : e = publishing[h].event /\ L = publishing[h].listeners
    OBVIOUS
  <1>1. /\ audience' = audience /\ mishaps' = mishaps /\ publishing[h] # idle
        /\ publishing' = [publishing EXCEPT ![h] = idle]
        /\ publishing \in [Publishers -> Event \cup {idle}]
    BY DEF PublishInsert, Queue, TypeInv, TypeOK
  <1>2. Original(e) = {} /\ \A g \in Publishers \ {h} : publishing[g] # idle => publishing[g].event # e
    BY <1>0, <1>1 DEF WholeInv, Fresh, Alone, Original, IsOriginal
  <1>3. e \in 1..Len(audience) /\ L = audience[e] /\ L \in SUBSET Systems
    BY <1>0, InsertedRows
  <1>4. PICK ids \in [L -> Free] :
          /\ \A s, t \in L : ids[s] = ids[t] => s = t
          /\ \A s \in L : delivery'[ids[s]] = Queued(s, e, "original")
          /\ \A d \in Deliveries : (\A s \in L : ids[s] # d) => delivery'[d] = delivery[d]
    BY <1>0, InsertedRows
  <1>5. \A d \in Deliveries : \/ delivery'[d] = delivery[d]
                              \/ d \in Free /\ delivery'[d] \in Row /\ delivery'[d].event = e
    BY <1>0, InsertedRows
  <1>6. \A s \in L : /\ ids[s] \in Deliveries /\ delivery[ids[s]] = absent
                     /\ Queued(s, e, "original") # absent
                     /\ Queued(s, e, "original").system = s
                     /\ Queued(s, e, "original").event = e
                     /\ Queued(s, e, "original").replay = "original"
    BY <1>4, LoadType DEF Queued, absent
  <1>7. Original(e)' = {ids[s] : s \in L}
    <2>1. \A s \in L : ids[s] \in Original(e)'
      BY <1>4, <1>6 DEF Original, Exists
    <2>2. ASSUME NEW d \in Original(e)'
          PROVE  \E s \in L : ids[s] = d
      <3>1. d \in Deliveries /\ delivery'[d] # absent /\ delivery'[d].event = e
            /\ delivery'[d].replay = "original"
        BY <2>2 DEF Original, Exists
      <3>2. delivery'[d] # delivery[d]
        BY <1>2, <3>1 DEF Original, Exists
      <3>3. QED
        BY <1>4, <3>1, <3>2
    <2>3. QED
      BY <2>1, <2>2
  <1>8. \A d \in Original(e)' : \E s \in L : ids[s] = d /\ delivery'[d].system = s
    BY <1>4, <1>6, <1>7
  <1>9. QueuedFor(e)' = L
    <2>1. \A s \in L : ids[s] \in Original(e)' /\ delivery'[ids[s]].system = s
      BY <1>4, <1>6, <1>7
    <2>2. QED
      BY <1>8, <2>1 DEF QueuedFor
  <1>10. ASSUME NEW k, k # e
         PROVE  /\ Original(k)' = Original(k) /\ QueuedFor(k)' = QueuedFor(k)
                /\ \A d \in Original(k) : delivery'[d].system = delivery[d].system
    <2>1. ASSUME NEW d \in Deliveries
          PROVE  /\ d \in Original(k)' <=> d \in Original(k)
                 /\ d \in Original(k) => delivery'[d] = delivery[d]
      <3>1. CASE delivery'[d] = delivery[d]
        BY <3>1 DEF Original, Exists
      <3>2. CASE d \in Free /\ delivery'[d] \in Row /\ delivery'[d].event = e
        <4>1. d \notin Original(k)
          BY <3>2, LoadType DEF Original, Exists
        <4>2. d \notin Original(k)'
          BY <1>10, <3>2 DEF Original
        <4>3. QED
          BY <4>1, <4>2
      <3>3. QED
        BY <1>5, <3>1, <3>2
    <2>2. Original(k) \subseteq Deliveries /\ Original(k)' \subseteq Deliveries
      BY DEF Original
    <2>3. Original(k)' = Original(k)
      BY <2>1, <2>2
    <2>4. QED
      BY <2>1, <2>2, <2>3 DEF QueuedFor
  <1>11. \A g \in Publishers : publishing'[g] # idle =>
           g # h /\ publishing'[g] = publishing[g] /\ publishing[g].event # e
    BY <1>1, <1>2
  <1>12. \A g \in Publishers : Fresh(g)'
    <2> SUFFICES ASSUME NEW g \in Publishers, publishing'[g] # idle,
                        NEW d \in Deliveries, IsOriginal(d)'
                 PROVE  delivery'[d].event # publishing'[g].event
      BY DEF Fresh
    <2>1. publishing'[g] = publishing[g] /\ publishing[g].event # e
      BY <1>11
    <2>2. CASE delivery'[d] = delivery[d]
      BY <2>1, <2>2 DEF WholeInv, Fresh, IsOriginal, Exists
    <2>3. CASE delivery'[d].event = e
      BY <2>1, <2>3
    <2>4. QED
      BY <1>5, <2>2, <2>3
  <1>13. \A g, k \in Publishers : Alone(g, k)'
    BY <1>11 DEF WholeInv, Alone
  <1>14. \A k \in 1..Len(audience') : WholeEvent(k)'
    <2> SUFFICES ASSUME NEW k \in 1..Len(audience) PROVE WholeEvent(k)'
      BY <1>1
    <2>1. CASE k = e
      <3>1. QueuedFor(k)' = audience'[k]
        BY <1>1, <1>3, <1>9, <2>1
      <3>2. \A c, d \in Original(k)' : delivery'[c].system = delivery'[d].system => c = d
        BY <1>8, <2>1
      <3>3. QED
        BY <3>1, <3>2 DEF WholeEvent
    <2>2. CASE k # e
      <3>1. WholeEvent(k)
        BY DEF WholeInv
      <3>2. /\ Original(k)' = Original(k) /\ QueuedFor(k)' = QueuedFor(k)
            /\ \A d \in Original(k) : delivery'[d].system = delivery[d].system
        BY <1>10, <2>2
      <3>3. QED
        BY <1>1, <3>1, <3>2 DEF WholeEvent
    <2>3. QED
      BY <2>1, <2>2
  <1>15. Unheard' \subseteq Unheard
    <2> SUFFICES ASSUME NEW k \in Unheard' PROVE k \in Unheard
      OBVIOUS
    <2>1. k \in 1..Len(audience) /\ audience[k] # QueuedFor(k)' /\ ~OnItsWay(k)'
      BY <1>1 DEF Unheard
    <2>2. k # e
      BY <1>3, <1>9, <2>1
    <2>3. QueuedFor(k)' = QueuedFor(k)
      BY <1>10, <2>2
    <2>4. ~OnItsWay(k)
      <3> SUFFICES ASSUME NEW g \in Publishers, publishing[g] # idle, publishing[g].event = k
                   PROVE  OnItsWay(k)'
        BY <2>1 DEF OnItsWay
      <3>1. g # h
        BY <1>0, <2>2
      <3>2. publishing'[g] = publishing[g]
        BY <1>1, <3>1
      <3>3. QED
        BY <3>2 DEF OnItsWay
    <2>5. QED
      BY <2>1, <2>3, <2>4 DEF Unheard
  <1>16. Cardinality(Unheard') <= mishaps'
    <2>1. Cardinality(Unheard') \in Nat /\ Cardinality(Unheard') <= Cardinality(Unheard)
      BY <1>15, FiniteEvents
    <2>2. QED
      BY <1>1, <2>1, FiniteEvents, Bounds DEF WholeInv, TypeInv, TypeOK
  <1>17. QED
    BY <1>12, <1>13, <1>14, <1>16 DEF WholeInv

(* Every other step leaves the rows of the events alone and gives up at    *)
(* most one event.                                                         *)
LEMMA WholeKept ==
  ASSUME TypeInv, WholeInv, SameOriginals, audience' = audience,
         \/ publishing' = publishing /\ mishaps' \in {mishaps, mishaps + 1}
         \/ /\ \E h \in Publishers : publishing' = [publishing EXCEPT ![h] = idle]
            /\ mishaps' = mishaps + 1
  PROVE  WholeInv'
  <1>0. publishing \in [Publishers -> Event \cup {idle}] /\ mishaps \in Nat
    BY Bounds DEF TypeInv, TypeOK
  <1>1. \A g \in Publishers : publishing'[g] # idle => publishing'[g] = publishing[g]
    BY <1>0
  <1>2. \A e : Original(e)' = Original(e) /\ QueuedFor(e)' = QueuedFor(e)
    BY OriginalsKept
  <1>3. \A g \in Publishers : Fresh(g)'
    <2> SUFFICES ASSUME NEW g \in Publishers, publishing'[g] # idle,
                        NEW d \in Deliveries, IsOriginal(d)'
                 PROVE  delivery'[d].event # publishing'[g].event
      BY DEF Fresh
    <2>1. IsOriginal(d) /\ delivery'[d].event = delivery[d].event
      BY DEF SameOriginals
    <2>2. QED
      BY <1>1, <2>1 DEF WholeInv, Fresh
  <1>4. \A g, h \in Publishers : Alone(g, h)'
    BY <1>1 DEF WholeInv, Alone
  <1>5. \A e \in 1..Len(audience') : WholeEvent(e)'
    <2> SUFFICES ASSUME NEW e \in 1..Len(audience) PROVE WholeEvent(e)'
      OBVIOUS
    <2>1. WholeEvent(e)
      BY DEF WholeInv
    <2>2. /\ Original(e)' = Original(e) /\ QueuedFor(e)' = QueuedFor(e)
          /\ \A d \in Original(e) : delivery'[d].system = delivery[d].system
      BY OriginalsKept
    <2>3. QED
      BY <2>1, <2>2 DEF WholeEvent
  <1>6. ASSUME publishing' = publishing, mishaps' \in {mishaps, mishaps + 1}
        PROVE  Cardinality(Unheard') <= mishaps'
    <2>1. ASSUME NEW e PROVE OnItsWay(e)' <=> OnItsWay(e)
      BY <1>6 DEF OnItsWay
    <2>2. ASSUME NEW e PROVE QueuedFor(e)' = QueuedFor(e)
      BY OriginalsKept
    <2>3. Unheard' = Unheard
      BY <2>1, <2>2 DEF Unheard
    <2>4. QED
      BY <1>0, <1>6, <2>3, FiniteEvents DEF WholeInv
  <1>7. ASSUME NEW h \in Publishers, publishing' = [publishing EXCEPT ![h] = idle],
               mishaps' = mishaps + 1
        PROVE  Cardinality(Unheard') <= mishaps'
    <2>0. PICK lost : lost = publishing[h].event
      OBVIOUS
    <2>1. ASSUME NEW e, OnItsWay(e), e # lost PROVE OnItsWay(e)'
      <3>1. PICK g \in Publishers : publishing[g] # idle /\ publishing[g].event = e
        BY <2>1 DEF OnItsWay
      <3>2. publishing'[g] = publishing[g]
        BY <1>0, <1>7, <2>0, <2>1, <3>1
      <3>3. QED
        BY <3>1, <3>2 DEF OnItsWay
    <2>2. ASSUME NEW e PROVE QueuedFor(e)' = QueuedFor(e)
      BY OriginalsKept
    <2>3. Unheard' \subseteq Unheard \cup {lost}
      BY <2>1, <2>2 DEF Unheard
    <2>4. /\ IsFiniteSet(Unheard \cup {lost})
          /\ Cardinality(Unheard \cup {lost}) \in Nat
          /\ Cardinality(Unheard \cup {lost}) <= Cardinality(Unheard) + 1
      BY FiniteEvents, FS_AddElement
    <2>5. Cardinality(Unheard') \in Nat /\ Cardinality(Unheard') <= Cardinality(Unheard \cup {lost})
      BY <2>3, <2>4, FS_Subset, FS_CardinalityType
    <2>6. QED
      BY <1>0, <1>7, <2>4, <2>5, FiniteEvents DEF WholeInv
  <1>8. Cardinality(Unheard)' <= mishaps'
    BY <1>6, <1>7
  <1>9. QED
    BY <1>3, <1>4, <1>5, <1>8 DEF WholeInv

LEMMA WholeStep == TypeInv /\ WholeInv /\ [Next]_vars => WholeInv'
  <1> SUFFICES ASSUME TypeInv, WholeInv, [Next]_vars PROVE WholeInv'
    OBVIOUS
  <1>1. CASE \E h \in Publishers : PublishInsert(h)
    BY <1>1, WholeInsert
  <1>2. CASE \A h \in Publishers : ~PublishInsert(h)
    <2>1. SameOriginals
      BY <1>2, OriginalsStep
    <2>2. ASSUME NEW h \in Publishers, NEW owner \in Systems \cup {Nobody}, PublishRead(h, owner)
          PROVE  WholeInv'
      BY <2>1, <2>2, WholeRead
    <2>3. ASSUME NEW h \in Publishers, PublishFails(h)
          PROVE  WholeInv'
      BY <2>1, <2>3, WholeKept DEF PublishFails
    <2>4. ASSUME audience' = audience, publishing' = publishing, mishaps' \in {mishaps, mishaps + 1}
          PROVE  WholeInv'
      BY <2>1, <2>4, WholeKept
    <2>5. QED
      BY <1>2, <2>2, <2>3, <2>4
         DEF Next, vars, SaveSystem, Replay, BecomesDue, ReplayAllRead, ReplayAllNext,
             PassStep, Select, Deliver, DeliverUnanswered, Record, CutOff
  <1>3. QED
    BY <1>1, <1>2

LEMMA WholeInit == Init => WholeInv
  <1> SUFFICES ASSUME Init PROVE WholeInv
    OBVIOUS
  <1>1. /\ \A h \in Publishers : publishing[h] = idle
        /\ audience = <<>> /\ Len(audience) = 0 /\ 1..Len(audience) = {} /\ mishaps = 0
    BY DEF Init
  <1>2. Unheard = {}
    BY <1>1 DEF Unheard
  <1>3. Cardinality(Unheard) = 0
    BY <1>2, FS_EmptySet
  <1>4. QED
    BY <1>1, <1>3 DEF WholeInv, Fresh, Alone

(* Each event is queued for everybody who listened when the systems were   *)
(* read, once each, or for nobody, whatever was edited since and replayed; *)
(* only stopped handlers leave one queued for nobody.                      *)
THEOREM EventsStayWhole == Spec => []EventsAreWhole
  <1>1. TypeInv /\ WholeInv => EventsAreWhole
    <2> SUFFICES ASSUME TypeInv, WholeInv PROVE EventsAreWhole
      OBVIOUS
    <2>1. \A d \in Deliveries : Exists(d) => delivery[d].system \in audience[delivery[d].event]
      BY DEF TypeInv, TypeOK, RowsInv, Exists
    <2>2. QED
      BY <2>1 DEF WholeInv, WholeEvent, EventsAreWhole
  <1>2. Spec => []WholeInv
    BY TypeInvHolds, WholeInit, WholeStep, PTL DEF Spec
  <1>3. QED
    BY <1>1, <1>2, TypeInvHolds, PTL
-----------------------------------------------------------------------------
(* How often a receiver accepts one delivery.  An acceptance of an         *)
(* unsettled delivery is one a pass is about to record, or was lost.  Once *)
(* it is settled no pass takes it up again, so only the passes that        *)
(* already hold it can still send it.                                      *)

Unsettled(d) == delivery[d].state \notin {"sent", "dead"}

OkHeld(d) == {p \in Passes : /\ pass[p].pc = "record" /\ pass[p].current = d
                             /\ pass[p].outcome = "ok"}

Sending(d) == {p \in Passes : /\ pass[p] # idle /\ d \in DOMAIN pass[p].batch
                              /\ ~(pass[p].pc = "record" /\ pass[p].current = d)}

AcceptedOrLost(d) == Unsettled(d) => heard[d] <= mishaps + Cardinality(OkHeld(d))

StillToCome(d) == heard[d] + Cardinality(Sending(d)) <= Cardinality(Passes) + mishaps

HeardInv == \A d \in Deliveries : AcceptedOrLost(d) /\ StillToCome(d)

LEMMA Sizes ==
  ASSUME NEW S \in SUBSET Passes
  PROVE  /\ IsFiniteSet(S) /\ Cardinality(S) \in Nat
         /\ Cardinality(S) <= Cardinality(Passes)
         /\ Cardinality(Passes) \in Nat
         /\ \A T \in SUBSET S : Cardinality(T) \in Nat /\ Cardinality(T) <= Cardinality(S)
         /\ \A p \in S : /\ Cardinality(S \ {p}) \in Nat
                         /\ Cardinality(S \ {p}) = Cardinality(S) - 1
         /\ \A p \in Passes \ S : /\ Cardinality(S \cup {p}) \in Nat
                                  /\ Cardinality(S \cup {p}) = Cardinality(S) + 1
         /\ \A T \in SUBSET Passes : S \cap T = {} =>
                Cardinality(S) + Cardinality(T) <= Cardinality(Passes)
  <1>1. IsFiniteSet(Passes)
    BY WebhookConstants
  <1>2. \A T \in SUBSET Passes : /\ IsFiniteSet(T) /\ Cardinality(T) \in Nat
                                 /\ Cardinality(T) <= Cardinality(Passes)
    BY <1>1, FS_Subset, FS_CardinalityType
  <1>3. \A T \in SUBSET S : Cardinality(T) \in Nat /\ Cardinality(T) <= Cardinality(S)
    BY <1>2, FS_Subset, FS_CardinalityType
  <1>4. \A p \in S : /\ Cardinality(S \ {p}) \in Nat
                     /\ Cardinality(S \ {p}) = Cardinality(S) - 1
    BY <1>2, FS_RemoveElement, FS_CardinalityType
  <1>5. \A p \in Passes \ S : /\ Cardinality(S \cup {p}) \in Nat
                              /\ Cardinality(S \cup {p}) = Cardinality(S) + 1
    BY <1>2, FS_AddElement, FS_CardinalityType
  <1>6. ASSUME NEW T \in SUBSET Passes, S \cap T = {}
        PROVE  Cardinality(S) + Cardinality(T) <= Cardinality(Passes)
    <2>1. /\ IsFiniteSet(S \cup T)
          /\ Cardinality(S \cup T) = Cardinality(S) + Cardinality(T) - Cardinality(S \cap T)
      BY <1>2, FS_Union
    <2>2. Cardinality(S \cap T) = 0
      BY <1>6, FS_EmptySet
    <2>3. Cardinality(S \cup T) <= Cardinality(Passes)
      BY <1>2
    <2>4. QED
      BY <1>2, <2>1, <2>2, <2>3
  <1>7. QED
    BY <1>1, <1>2, <1>3, <1>4, <1>5, <1>6, FS_CardinalityType

LEMMA Numbers == TypeInv => mishaps \in Nat /\ \A d \in Deliveries : heard[d] \in Nat
  BY Bounds DEF TypeInv, TypeOK

(* No step makes a settled delivery unsettled.                             *)
LEMMA SettledStays ==
  ASSUME TypeInv, [Next]_vars, NEW d \in Deliveries, Unsettled(d)'
  PROVE  Unsettled(d)
  <1>1. ASSUME NEW h \in Publishers, PublishInsert(h)
        PROVE  Unsettled(d)
    <2>1. d \in Free \/ delivery'[d] = delivery[d]
      BY <1>1, InsertedRows
    <2>2. CASE d \in Free
      BY <2>2, LoadType DEF Unsettled, absent
    <2>3. CASE delivery'[d] = delivery[d]
      BY <2>3 DEF Unsettled
    <2>4. QED
      BY <2>1, <2>2, <2>3
  <1>2. ASSUME NEW k, NEW id \in Free, delivery' = Replayed(k, id)
        PROVE  Unsettled(d)
    <2>1. CASE d = id
      BY <2>1, LoadType DEF Unsettled, absent
    <2>2. CASE d # id
      BY <1>2, <2>2 DEF Replayed, Unsettled, TypeInv, TypeOK
    <2>3. QED
      BY <2>1, <2>2
  <1>3. ASSUME NEW p \in Passes, Record(p)
        PROVE  Unsettled(d)
    <2> DEFINE c == pass[p].current
               new == Result(delivery[c], pass[p].batch[c], pass[p].outcome)
    <2>1. Real(c) /\ Left(pass[p].batch[c]) /\ pass[p].outcome \in Outcomes
      BY <1>3, ActivePass DEF Record
    <2>2. new \in Row /\ (new.state = "pending" => delivery[c].state = "pending")
      BY <2>1, ResultType DEF Real
    <2>3. delivery' = [delivery EXCEPT ![c] = new]
      BY <1>3 DEF Record
    <2>4. new.state \in States
      BY <2>2 DEF Row
    <2> HIDE DEF new, c
    <2>5. QED
      BY <2>1, <2>2, <2>3, <2>4 DEF Unsettled, States, TypeInv, TypeOK, Real
  <1>4. ASSUME NEW k \in Deliveries, BecomesDue(k)
        PROVE  Unsettled(d)
    BY <1>4 DEF BecomesDue, Pending, Unsettled, TypeInv, TypeOK
  <1>5. CASE delivery' = delivery
    BY <1>5 DEF Unsettled
  <1>6. QED
    BY <1>1, <1>2, <1>3, <1>4, <1>5
       DEF Next, vars, PublishRead, PublishFails, SaveSystem, Replay, ReplayAllRead,
           ReplayAllNext, PassStep, Select, Deliver, DeliverUnanswered, CutOff

(* A step that accepts nothing and starts no sending.                      *)
LEMMA QuietStep ==
  ASSUME TypeInv, HeardInv, NEW d \in Deliveries, Unsettled(d)' => Unsettled(d),
         heard'[d] = heard[d], mishaps' = mishaps,
         OkHeld(d)' = OkHeld(d), Sending(d)' \subseteq Sending(d)
  PROVE  AcceptedOrLost(d)' /\ StillToCome(d)'
  <1>1. OkHeld(d) \in SUBSET Passes /\ Sending(d) \in SUBSET Passes
    BY DEF OkHeld, Sending
  <1>2. /\ Cardinality(OkHeld(d)') = Cardinality(OkHeld(d))
        /\ Cardinality(Sending(d)') <= Cardinality(Sending(d))
        /\ {Cardinality(Sending(d)'), Cardinality(Sending(d)), Cardinality(Passes)} \subseteq Nat
    BY <1>1, Sizes
  <1>3. AcceptedOrLost(d)'
    BY <1>2 DEF HeardInv, AcceptedOrLost
  <1>4. StillToCome(d)'
    BY <1>2, Numbers DEF HeardInv, StillToCome
  <1>5. QED
    BY <1>3, <1>4

LEMMA SelectHeard ==
  ASSUME TypeInv, HeardInv, NEW p \in Passes, Select(p),
         NEW d \in Deliveries, Unsettled(d)' => Unsettled(d)
  PROVE  AcceptedOrLost(d)' /\ StillToCome(d)'
  <1>1. PICK k \in Due : pass' = [pass EXCEPT ![p] =
                             At("send", [j \in Due |-> delivery[j].attempts], k, "again")]
    BY DEF Select
  <1>2. /\ heard' = heard /\ mishaps' = mishaps /\ delivery' = delivery /\ pass[p] = idle
        /\ pass \in [Passes -> Pass \cup {idle}]
    BY DEF Select, TypeInv, TypeOK
  <1>3. OkHeld(d)' = OkHeld(d)
    BY <1>1, <1>2 DEF OkHeld, At, idle
  <1>4. CASE d \in Due
    <2>1. Unsettled(d)
      BY <1>4 DEF Due, Pending, Unsettled
    <2>2. heard[d] <= mishaps + Cardinality(OkHeld(d))
      BY <2>1 DEF HeardInv, AcceptedOrLost
    <2>3. /\ Sending(d)' \in SUBSET Passes /\ OkHeld(d) \in SUBSET Passes
          /\ Sending(d)' \cap OkHeld(d) = {}
      BY <1>3 DEF Sending, OkHeld
    <2>4. /\ Cardinality(Sending(d)') + Cardinality(OkHeld(d)) <= Cardinality(Passes)
          /\ {Cardinality(Sending(d)'), Cardinality(OkHeld(d)), Cardinality(Passes)} \subseteq Nat
      BY <2>3, Sizes
    <2>5. StillToCome(d)'
      BY <1>2, <2>2, <2>4, Numbers DEF StillToCome
    <2>6. AcceptedOrLost(d)'
      BY <1>2, <1>3, <2>2 DEF AcceptedOrLost
    <2>7. QED
      BY <2>5, <2>6
  <1>5. CASE d \notin Due
    <2>1. Sending(d)' \subseteq Sending(d)
      BY <1>1, <1>2, <1>5 DEF Sending, At, idle
    <2>2. QED
      BY <1>2, <1>3, <2>1, QuietStep
  <1>6. QED
    BY <1>4, <1>5

(* An answer takes its pass out of those that still send the delivery.     *)
LEMMA AnswerHeard ==
  ASSUME TypeInv, HeardInv, NEW p \in Passes, Deliver(p) \/ DeliverUnanswered(p),
         NEW d \in Deliveries, Unsettled(d)' => Unsettled(d)
  PROVE  AcceptedOrLost(d)' /\ StillToCome(d)'
  <1> DEFINE c == pass[p].current
  <1>1. PICK outcome \in Outcomes :
          /\ Answered(p, outcome) /\ pass[p].pc = "send" /\ delivery' = delivery
          /\ \/ outcome = "ok" /\ Accepted(c) /\ mishaps' = mishaps
             \/ outcome # "ok" /\ heard' = heard /\ mishaps' = mishaps
             \/ outcome = "again" /\ Accepted(c) /\ mishaps' = mishaps + 1
    BY DEF Deliver, DeliverUnanswered, Outcomes
  <1>2. /\ pass' = [pass EXCEPT ![p] = At("record", pass[p].batch, c, outcome)]
        /\ pass \in [Passes -> Pass \cup {idle}] /\ pass[p] # idle
        /\ c \in DOMAIN pass[p].batch /\ c \in Deliveries
    BY <1>1, ActivePass DEF Answered, TypeInv, TypeOK, Real
  <1>3. /\ OkHeld(d) \in SUBSET Passes /\ Sending(d) \in SUBSET Passes
        /\ p \notin OkHeld(d)
    BY <1>1 DEF OkHeld, Sending
  <1>4. IF c = d /\ outcome = "ok" THEN OkHeld(d)' = OkHeld(d) \cup {p}
                                   ELSE OkHeld(d)' = OkHeld(d)
    BY <1>1, <1>2 DEF OkHeld, At
  <1>5. c # d => Sending(d)' = Sending(d)
    BY <1>1, <1>2 DEF Sending, At, idle
  <1>6. c = d => p \in Sending(d) /\ Sending(d)' = Sending(d) \ {p}
    BY <1>1, <1>2 DEF Sending, At, idle
  <1>7. heard \in [Deliveries -> Nat]
    BY DEF TypeInv, TypeOK
  <1>8. CASE heard'[d] = heard[d] /\ mishaps' = mishaps /\ ~(c = d /\ outcome = "ok")
    BY <1>4, <1>5, <1>6, <1>8, QuietStep
  <1>9. CASE c # d /\ heard'[d] = heard[d] /\ mishaps' = mishaps + 1
    <2>1. {Cardinality(OkHeld(d)), Cardinality(Sending(d)), Cardinality(Passes)} \subseteq Nat
      BY <1>3, Sizes
    <2>2. AcceptedOrLost(d)'
      BY <1>4, <1>9, <2>1, Numbers DEF HeardInv, AcceptedOrLost
    <2>3. StillToCome(d)'
      BY <1>5, <1>9, <2>1, Numbers DEF HeardInv, StillToCome
    <2>4. QED
      BY <2>2, <2>3
  <1>10. CASE c = d /\ Accepted(d)
    <2>1. heard'[d] = heard[d] + 1
      BY <1>7, <1>10 DEF Accepted
    <2>2. /\ {Cardinality(OkHeld(d)), Cardinality(Sending(d)), Cardinality(Passes)} \subseteq Nat
          /\ Cardinality(OkHeld(d) \cup {p}) = Cardinality(OkHeld(d)) + 1
          /\ Cardinality(Sending(d) \ {p}) = Cardinality(Sending(d)) - 1
      BY <1>3, <1>6, <1>10, Sizes
    <2>3. /\ heard[d] + Cardinality(Sending(d)) <= Cardinality(Passes) + mishaps
          /\ Unsettled(d) => heard[d] <= mishaps + Cardinality(OkHeld(d))
      BY DEF HeardInv, StillToCome, AcceptedOrLost
    <2>4. Cardinality(Sending(d)') = Cardinality(Sending(d)) - 1
      BY <1>6, <1>10, <2>2
    <2>5. CASE outcome = "ok" /\ mishaps' = mishaps
      <3>1. Cardinality(OkHeld(d)') = Cardinality(OkHeld(d)) + 1
        BY <1>4, <1>10, <2>2, <2>5
      <3>2. StillToCome(d)'
        BY <2>1, <2>2, <2>3, <2>4, <2>5, Numbers DEF StillToCome
      <3>3. AcceptedOrLost(d)'
        BY <2>1, <2>2, <2>3, <2>5, <3>1, Numbers DEF AcceptedOrLost
      <3>4. QED
        BY <3>2, <3>3
    <2>6. CASE outcome # "ok" /\ mishaps' = mishaps + 1
      <3>1. Cardinality(OkHeld(d)') = Cardinality(OkHeld(d))
        BY <1>4, <2>6
      <3>2. StillToCome(d)'
        BY <2>1, <2>2, <2>3, <2>4, <2>6, Numbers DEF StillToCome
      <3>3. AcceptedOrLost(d)'
        BY <2>1, <2>2, <2>3, <2>6, <3>1, Numbers DEF AcceptedOrLost
      <3>4. QED
        BY <3>2, <3>3
    <2>7. outcome # "ok" => mishaps' = mishaps + 1
      <3>1. outcome # "ok" => heard' = heard \/ mishaps' = mishaps + 1
        BY <1>1
      <3>2. heard' # heard
        BY <1>7, <2>1
      <3>3. QED
        BY <3>1, <3>2
    <2>8. outcome = "ok" => mishaps' = mishaps
      BY <1>1
    <2>9. QED
      BY <2>5, <2>6, <2>7, <2>8
  <1>11. Accepted(c) /\ c # d => heard'[d] = heard[d]
    BY <1>2, <1>7 DEF Accepted
  <1>12. QED
    BY <1>1, <1>8, <1>9, <1>10, <1>11

(* Recording an outcome, whatever it is, drops the delivery from the pass. *)
LEMMA RecordHeard ==
  ASSUME TypeInv, HeardInv, NEW p \in Passes, Record(p),
         NEW d \in Deliveries, Unsettled(d)' => Unsettled(d)
  PROVE  AcceptedOrLost(d)' /\ StillToCome(d)'
  <1> DEFINE c == pass[p].current
             new == Result(delivery[c], pass[p].batch[c], pass[p].outcome)
             rest == DOMAIN pass[p].batch \ {c}
  <1>1. /\ Real(c) /\ Left(pass[p].batch[c]) /\ pass[p].outcome \in Outcomes
        /\ pass[p] # idle /\ pass[p].pc = "record"
        /\ heard' = heard /\ mishaps' = mishaps
        /\ delivery' = [delivery EXCEPT ![c] = new]
        /\ pass \in [Passes -> Pass \cup {idle}]
    BY ActivePass DEF Record, TypeInv, TypeOK
  <1>2. \/ rest = {} /\ pass' = [pass EXCEPT ![p] = idle]
        \/ \E k \in rest : pass' = [pass EXCEPT ![p] =
                             At("send", [j \in rest |-> pass[p].batch[j]], k, "again")]
    BY DEF Record
  <1>3. Sending(d)' \subseteq Sending(d)
    BY <1>1, <1>2 DEF Sending, At, idle
  <1>4. CASE p \in OkHeld(d)
    <2>1. c = d /\ pass[p].outcome = "ok"
      BY <1>4 DEF OkHeld
    <2>2. new.state = "sent"
      <3>1. new = [delivery[c] EXCEPT !.attempts = pass[p].batch[c] + 1, !.state = "sent"]
        BY <2>1 DEF Result
      <3>2. QED
        BY <1>1, <3>1 DEF Real, Row
    <2>3. ~Unsettled(d)'
      BY <1>1, <2>1, <2>2 DEF Unsettled, TypeInv, TypeOK
    <2>4. AcceptedOrLost(d)'
      BY <2>3 DEF AcceptedOrLost
    <2>5. Sending(d) \in SUBSET Passes
      BY DEF Sending
    <2>6. /\ Cardinality(Sending(d)') <= Cardinality(Sending(d))
          /\ {Cardinality(Sending(d)'), Cardinality(Sending(d)), Cardinality(Passes)} \subseteq Nat
      BY <1>3, <2>5, Sizes
    <2>7. StillToCome(d)'
      BY <1>1, <2>6, Numbers DEF HeardInv, StillToCome
    <2>8. QED
      BY <2>4, <2>7
  <1>5. CASE p \notin OkHeld(d)
    <2>1. OkHeld(d)' = OkHeld(d)
      BY <1>1, <1>2, <1>5 DEF OkHeld, At, idle
    <2>2. QED
      BY <1>1, <1>3, <2>1, QuietStep
  <1>6. QED
    BY <1>4, <1>5

LEMMA CutOffHeard ==
  ASSUME TypeInv, HeardInv, NEW p \in Passes, CutOff(p),
         NEW d \in Deliveries, Unsettled(d)' => Unsettled(d)
  PROVE  AcceptedOrLost(d)' /\ StillToCome(d)'
  <1>1. /\ heard' = heard /\ mishaps' = mishaps + 1 /\ pass' = [pass EXCEPT ![p] = idle]
        /\ pass \in [Passes -> Pass \cup {idle}]
    BY DEF CutOff, TypeInv, TypeOK
  <1>2. /\ Sending(d)' \subseteq Sending(d)
        /\ OkHeld(d)' = OkHeld(d) \ {p}
        /\ Sending(d) \in SUBSET Passes /\ OkHeld(d) \in SUBSET Passes
    BY <1>1 DEF Sending, OkHeld, idle
  <1>3. /\ Cardinality(Sending(d)') <= Cardinality(Sending(d))
        /\ {Cardinality(Sending(d)'), Cardinality(Sending(d)), Cardinality(Passes)} \subseteq Nat
    BY <1>2, Sizes
  <1>4. /\ Cardinality(OkHeld(d)') >= Cardinality(OkHeld(d)) - 1
        /\ {Cardinality(OkHeld(d)'), Cardinality(OkHeld(d))} \subseteq Nat
    <2>1. CASE p \in OkHeld(d)
      BY <1>2, <2>1, Sizes
    <2>2. CASE p \notin OkHeld(d)
      <3>1. OkHeld(d)' = OkHeld(d)
        BY <1>2, <2>2
      <3>2. QED
        BY <1>2, <3>1, Sizes
    <2>3. QED
      BY <2>1, <2>2
  <1>5. AcceptedOrLost(d)'
    BY <1>1, <1>4, Numbers DEF HeardInv, AcceptedOrLost
  <1>6. StillToCome(d)'
    BY <1>1, <1>3, Numbers DEF HeardInv, StillToCome
  <1>7. QED
    BY <1>5, <1>6

LEMMA HeardStep == TypeInv /\ HeardInv /\ [Next]_vars => HeardInv'
  <1> SUFFICES ASSUME TypeInv, HeardInv, [Next]_vars, NEW d \in Deliveries
               PROVE  AcceptedOrLost(d)' /\ StillToCome(d)'
    BY DEF HeardInv
  <1>1. Unsettled(d)' => Unsettled(d)
    BY SettledStays
  <1>2. ASSUME NEW p \in Passes, PassStep(p) \/ DeliverUnanswered(p) \/ CutOff(p)
        PROVE  AcceptedOrLost(d)' /\ StillToCome(d)'
    BY <1>1, <1>2, SelectHeard, AnswerHeard, RecordHeard, CutOffHeard DEF PassStep
  <1>5. ASSUME NEW h \in Publishers, PublishFails(h)
        PROVE  AcceptedOrLost(d)' /\ StillToCome(d)'
    <2>1. /\ heard' = heard /\ delivery' = delivery /\ mishaps' = mishaps + 1
          /\ OkHeld(d)' = OkHeld(d) /\ Sending(d)' = Sending(d)
      BY <1>5 DEF PublishFails, OkHeld, Sending
    <2>2. OkHeld(d) \in SUBSET Passes /\ Sending(d) \in SUBSET Passes
      BY DEF OkHeld, Sending
    <2>3. {Cardinality(OkHeld(d)), Cardinality(Sending(d)), Cardinality(Passes)} \subseteq Nat
      BY <2>2, Sizes
    <2>4. AcceptedOrLost(d)'
      BY <1>1, <2>1, <2>3, Numbers DEF HeardInv, AcceptedOrLost
    <2>5. StillToCome(d)'
      BY <2>1, <2>3, Numbers DEF HeardInv, StillToCome
    <2>6. QED
      BY <2>4, <2>5
  <1>3. CASE pass' = pass /\ heard' = heard /\ mishaps' = mishaps
    <2>1. OkHeld(d)' = OkHeld(d) /\ Sending(d)' = Sending(d)
      BY <1>3 DEF OkHeld, Sending
    <2>2. QED
      BY <1>1, <1>3, <2>1, QuietStep
  <1>4. QED
    BY <1>2, <1>3, <1>5
       DEF Next, vars, PublishRead, PublishInsert, Queue, SaveSystem, Replay, ReplayAllRead,
           ReplayAllNext, BecomesDue

LEMMA HeardInit == Init => HeardInv
  <1> SUFFICES ASSUME Init, NEW d \in Deliveries PROVE AcceptedOrLost(d) /\ StillToCome(d)
    BY DEF HeardInv
  <1>1. OkHeld(d) = {} /\ Sending(d) = {} /\ heard[d] = 0 /\ mishaps = 0
    BY DEF Init, OkHeld, Sending, idle
  <1>2. Cardinality({}) = 0 /\ Cardinality(Passes) \in Nat
    BY FS_EmptySet, Sizes
  <1>3. QED
    BY <1>1, <1>2 DEF AcceptedOrLost, StillToCome

(* A receiver accepts one delivery at most once for each pass there can be *)
(* side by side and once for each answer lost or pass cut off.             *)
THEOREM DuplicatesStayBounded == Spec => []DuplicatesAreBounded
  <1>1. TypeInv /\ HeardInv => DuplicatesAreBounded
    <2> SUFFICES ASSUME TypeInv, HeardInv, NEW d \in Deliveries
                 PROVE  heard[d] <= Cardinality(Passes) + mishaps
      BY DEF DuplicatesAreBounded
    <2>1. Sending(d) \in SUBSET Passes
      BY DEF Sending
    <2>2. Cardinality(Sending(d)) \in Nat /\ Cardinality(Passes) \in Nat
      BY <2>1, Sizes
    <2>3. QED
      BY <2>2, Numbers DEF HeardInv, StillToCome
  <1>2. Spec => []HeardInv
    BY TypeInvHolds, HeardInit, HeardStep, PTL DEF Spec
  <1>3. QED
    BY <1>1, <1>2, TypeInvHolds, PTL
-----------------------------------------------------------------------------
(* Webhooks implements the safety half of AtLeastOnce: every step is one   *)
(* of its steps or changes neither fates nor who was reached.              *)

OkWasHeard ==
    \A p \in Passes : pass[p].pc = "record" /\ pass[p].outcome = "ok" => heard[pass[p].current] > 0

(* Acceptances are never taken back.                                       *)
KeepsHeard == \A d \in Deliveries : heard'[d] >= heard[d]

LEMMA AcceptedHeard ==
  ASSUME TypeInv, NEW p \in Passes, pass[p].pc = "send", Accepted(pass[p].current)
  PROVE  KeepsHeard /\ heard'[pass[p].current] > 0 /\ Reached' = Reached \cup {pass[p].current}
  <1> DEFINE c == pass[p].current
  <1>1. c \in Deliveries /\ heard \in [Deliveries -> Nat] /\ heard' = [heard EXCEPT ![c] = @ + 1]
    BY ActivePass DEF Accepted, Real, TypeInv, TypeOK
  <1> HIDE DEF c
  <1>2. /\ \A d \in Deliveries : heard[d] \in Nat
        /\ heard'[c] = heard[c] + 1
        /\ \A d \in Deliveries \ {c} : heard'[d] = heard[d]
    BY <1>1
  <1>3. \A d \in Deliveries : heard'[d] > 0 <=> heard[d] > 0 \/ d = c
    BY <1>1, <1>2
  <1>4. Reached' = Reached \cup {c}
    BY <1>1, <1>3 DEF Reached
  <1>5. KeepsHeard /\ heard'[c] > 0
    BY <1>1, <1>2 DEF KeepsHeard
  <1>6. QED
    BY <1>4, <1>5 DEF c

LEMMA SameHeard ==
  ASSUME TypeInv, heard' = heard
  PROVE  KeepsHeard /\ Reached' = Reached
  BY Numbers DEF KeepsHeard, Reached

LEMMA OkWasHeardStep ==
  ASSUME TypeInv, OkWasHeard, [Next]_vars
  PROVE  OkWasHeard'
  <1>0. /\ pass \in [Passes -> Pass \cup {idle}]
        /\ \A d \in Deliveries : heard[d] \in Nat
        /\ \A q \in Passes : pass[q].pc = "record" => pass[q].current \in Deliveries
    BY Numbers, ActivePass DEF TypeInv, TypeOK, Real
  <1>1. ASSUME NEW p \in Passes, Deliver(p) \/ DeliverUnanswered(p)
        PROVE  OkWasHeard'
    <2>1. PICK outcome \in Outcomes :
            /\ Answered(p, outcome) /\ pass[p].pc = "send"
            /\ outcome = "ok" => Accepted(pass[p].current)
            /\ Accepted(pass[p].current) \/ heard' = heard
      BY <1>1 DEF Deliver, DeliverUnanswered, Outcomes
    <2>2. KeepsHeard /\ (outcome = "ok" => heard'[pass[p].current] > 0)
      BY <2>1, AcceptedHeard, SameHeard
    <2>3. pass' = [pass EXCEPT ![p] = At("record", pass[p].batch, pass[p].current, outcome)]
      BY <2>1 DEF Answered
    <2>4. SUFFICES ASSUME NEW q \in Passes, pass'[q].pc = "record", pass'[q].outcome = "ok"
                   PROVE  heard'[pass'[q].current] > 0
      BY DEF OkWasHeard
    <2>5. CASE q = p
      BY <1>0, <2>2, <2>3, <2>4, <2>5 DEF At
    <2>6. CASE q # p
      <3>1. pass'[q] = pass[q]
        BY <1>0, <2>3, <2>6
      <3>2. pass[q].current \in Deliveries /\ heard[pass[q].current] > 0
        BY <1>0, <2>4, <3>1 DEF OkWasHeard
      <3>3. heard'[pass[q].current] = heard[pass[q].current] \/ heard'[pass[q].current] > 0
        <4>1. CASE heard' = heard
          BY <4>1
        <4>2. CASE Accepted(pass[p].current)
          <5>1. pass[q].current \in Reached
            BY <3>2 DEF Reached
          <5>2. pass[q].current \in Reached'
            BY <2>1, <4>2, <5>1, AcceptedHeard
          <5>3. QED
            BY <5>2 DEF Reached
        <4>3. QED
          BY <2>1, <4>1, <4>2
      <3>4. QED
        BY <3>1, <3>2, <3>3
    <2>7. QED
      BY <2>5, <2>6
  <1>2. ASSUME NEW p \in Passes, Select(p) \/ Record(p) \/ CutOff(p)
        PROVE  OkWasHeard'
    <2>1. /\ heard' = heard
          /\ \A q \in Passes : pass'[q] = pass[q] \/ pass'[q].pc # "record"
      BY <1>0, <1>2 DEF Select, Record, CutOff, At, idle
    <2>2. QED
      BY <2>1 DEF OkWasHeard
  <1>3. CASE pass' = pass /\ heard' = heard
    BY <1>3 DEF OkWasHeard
  <1>4. QED
    BY <1>1, <1>2, <1>3
       DEF Next, vars, PassStep, PublishRead, PublishInsert, Queue, PublishFails, SaveSystem,
           Replay, ReplayAllRead, ReplayAllNext, BecomesDue

LEMMA FateTable ==
  ASSUME NEW row
  PROVE  /\ row = absent => FateOf(row) = "unknown"
         /\ row.state = "pending" => FateOf(row) = "owed"
         /\ row.state = "sent" => FateOf(row) = "accepted"
         /\ row.state = "dead" => FateOf(row) = "lost"
         /\ row \in Row => FateOf(row) # "unknown" /\ row.state \in States
  <1>1. row \in Row => row.state \in States
    BY DEF Row
  <1>2. QED
    BY <1>1 DEF FateOf, absent, States

(* Rows filled in where there were none are owed.                          *)
LEMMA OweStep ==
  ASSUME TypeInv, NEW D \in SUBSET Free, heard' = heard,
         \A d \in D : delivery'[d].state = "pending",
         \A d \in Deliveries \ D : delivery'[d] = delivery[d]
  PROVE  Promise!Next
  <1>1. D \in SUBSET Deliveries /\ \A d \in D : Fate[d] = "unknown"
    BY FateTable, LoadType DEF Fate
  <1>2. \A d \in Deliveries : FateOf(delivery[d])' = IF d \in D THEN "owed" ELSE Fate[d]
    BY FateTable DEF Fate
  <1>3. Fate' = [d \in Deliveries |-> IF d \in D THEN "owed" ELSE Fate[d]]
    BY <1>2 DEF Fate
  <1>4. Reached' = Reached
    BY SameHeard
  <1>5. Promise!Owe(D)
    BY <1>1, <1>3, <1>4 DEF Promise!Owe
  <1>6. QED
    BY <1>1, <1>5 DEF Promise!Next

LEMMA RecordPromise ==
  ASSUME TypeInv, OkWasHeard, NEW p \in Passes, Record(p)
  PROVE  Promise!Next \/ UNCHANGED <<Fate, Reached>>
  <1> DEFINE c == pass[p].current
             new == Result(delivery[c], pass[p].batch[c], pass[p].outcome)
  <1>1. /\ Real(c) /\ Left(pass[p].batch[c]) /\ pass[p].outcome \in Outcomes
        /\ delivery' = [delivery EXCEPT ![c] = new]
        /\ pass[p].outcome = "ok" => c \in Reached
    BY ActivePass DEF Record, OkWasHeard, Reached, Real
  <1>2. /\ new \in Row
        /\ new.state = "pending" => delivery[c].state = "pending"
        /\ new.state = "sent" => delivery[c].state = "sent" \/ pass[p].outcome = "ok"
    BY <1>1, ResultType DEF Real
  <1>3. Reached' = Reached
    BY SameHeard DEF Record
  <1>4. c \in Deliveries /\ delivery[c] \in Row /\ Fate[c] = FateOf(delivery[c]) /\ Fate[c] # "unknown"
    BY <1>1, FateTable DEF Real, Fate
  <1> HIDE DEF c, new
  <1>5. Fate' = [Fate EXCEPT ![c] = FateOf(new)]
    <2>1. \A d \in Deliveries : delivery'[d] = IF d = c THEN new ELSE delivery[d]
      BY <1>1 DEF TypeInv, TypeOK
    <2>2. QED
      BY <1>4, <2>1 DEF Fate
  <1>6. CASE FateOf(new) = Fate[c]
    BY <1>3, <1>5, <1>6 DEF Fate
  <1>7. CASE FateOf(new) # Fate[c]
    <2>1. /\ FateOf(new) \in {"accepted", "lost"}
          /\ FateOf(new) = "accepted" => c \in Reached
      BY <1>1, <1>2, <1>4, <1>7, FateTable DEF States
    <2>2. Promise!Settle(c, FateOf(new))
      BY <1>3, <1>4, <1>5, <2>1 DEF Promise!Settle
    <2>3. QED
      BY <1>4, <2>1, <2>2 DEF Promise!Next
  <1>8. QED
    BY <1>6, <1>7

LEMMA PromiseStep ==
  ASSUME TypeInv, OkWasHeard, [Next]_vars
  PROVE  Promise!Next \/ UNCHANGED <<Fate, Reached>>
  <1>1. ASSUME NEW h \in Publishers, PublishInsert(h)
        PROVE  Promise!Next
    <2> DEFINE D == {d \in Free : delivery'[d] # delivery[d]}
    <2>1. /\ \A d \in Deliveries \ D : delivery'[d] = delivery[d]
          /\ \A d \in D : delivery'[d].state = "pending"
      BY <1>1, InsertedRows, LoadType
    <2>2. heard' = heard
      BY <1>1 DEF PublishInsert, Queue
    <2>3. D \in SUBSET Free
      OBVIOUS
    <2> HIDE DEF D
    <2>4. QED
      BY <2>1, <2>2, <2>3, OweStep
  <1>2. ASSUME NEW k, NEW id \in Free, delivery' = Replayed(k, id), heard' = heard
        PROVE  Promise!Next
    <2>1. delivery'[id].state = "pending"
      BY <1>2, LoadType DEF Replayed, Queued, TypeInv, TypeOK
    <2> DEFINE D == {id}
    <2>2. \A d \in Deliveries \ D : delivery'[d] = delivery[d]
      BY <1>2 DEF Replayed, TypeInv, TypeOK
    <2>3. D \in SUBSET Free /\ \A d \in D : delivery'[d].state = "pending"
      BY <2>1
    <2> HIDE DEF D
    <2>4. QED
      BY <1>2, <2>2, <2>3, OweStep
  <1>3. ASSUME NEW p \in Passes, Deliver(p) \/ DeliverUnanswered(p)
        PROVE  Promise!Next \/ UNCHANGED <<Fate, Reached>>
    <2> DEFINE c == pass[p].current
    <2>1. pass[p].pc = "send" /\ delivery' = delivery /\ (Accepted(c) \/ heard' = heard)
      BY <1>3 DEF Deliver, DeliverUnanswered
    <2>2. Fate' = Fate
      BY <2>1 DEF Fate
    <2>3. CASE heard' = heard
      BY <2>2, <2>3, SameHeard
    <2>4. CASE Accepted(c)
      <3>1. Reached' = Reached \cup {c}
        BY <2>1, <2>4, AcceptedHeard
      <3>2. c \in Deliveries /\ Fate[c] # "unknown"
        BY <2>1, ActivePass, FateTable DEF Real, Fate
      <3> HIDE DEF c
      <3>3. Promise!Hear(c)
        BY <2>2, <3>1, <3>2 DEF Promise!Hear
      <3>4. QED
        BY <3>2, <3>3 DEF Promise!Next
    <2>5. QED
      BY <2>1, <2>3, <2>4
  <1>4. ASSUME NEW k \in Deliveries, BecomesDue(k)
        PROVE  UNCHANGED <<Fate, Reached>>
    <2>1. \A d \in Deliveries : delivery'[d].state = delivery[d].state
      BY <1>4 DEF BecomesDue, Pending, TypeInv, TypeOK, Row, absent
    <2>2. \A d \in Deliveries : FateOf(delivery'[d]) = FateOf(delivery[d])
      BY <2>1 DEF FateOf
    <2>3. Fate' = Fate
      BY <2>2 DEF Fate
    <2>4. QED
      BY <1>4, <2>3, SameHeard DEF BecomesDue
  <1>5. CASE delivery' = delivery /\ heard' = heard
    BY <1>5, SameHeard DEF Fate
  <1>6. QED
    BY <1>1, <1>2, <1>3, <1>4, <1>5, RecordPromise
       DEF Next, vars, PublishRead, PublishFails, SaveSystem, Replay, ReplayAllRead,
           ReplayAllNext, PassStep, Select, CutOff

(* A delivery is owed until it is settled, never owed again once it is,    *)
(* and recorded as accepted only if its receiver heard it: every step of   *)
(* Webhooks is a step of AtLeastOnce or hidden from it.                    *)
THEOREM WebhooksKeepThePromise == Spec => Promise!Safe
  <1>1. Init => OkWasHeard
    BY DEF Init, OkWasHeard, idle
  <1>2. TypeInv /\ OkWasHeard /\ [Next]_vars => OkWasHeard'
    BY OkWasHeardStep
  <1>3. Init => Promise!Init
    <2>1. Init => Fate = [d \in Deliveries |-> "unknown"]
      BY FateTable DEF Init, Fate
    <2>2. Init => Reached = {}
      BY DEF Init, Reached
    <2>3. QED
      BY <2>1, <2>2 DEF Promise!Init
  <1>4. TypeInv /\ OkWasHeard /\ [Next]_vars => [Promise!Next]_<<Fate, Reached>>
    BY PromiseStep
  <1>5. QED
    BY <1>1, <1>2, <1>3, <1>4, TypeInvHolds, PTL DEF Spec, Promise!Safe
=============================================================================
