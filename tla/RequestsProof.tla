--------------------------- MODULE RequestsProof ---------------------------
(***************************************************************************)
(* Proofs about Requests for any set of requests, callers and queues, any  *)
(* policy and any bounds.                                                  *)
(***************************************************************************)
EXTENDS Requests, TLAPS

-----------------------------------------------------------------------------
(* What the writes of RequestRow return.                                   *)

LEMMA NewRowType ==
  ASSUME NEW owner \in SUBSET OwnerKinds, NEW queue \in Queues \cup {NoQueue}
  PROVE  NewRow(owner, queue) \in Row
  BY DEF NewRow, Row, Statuses, Flags

LEMMA NextVersion ==
  ASSUME NEW read \in Row
  PROVE  read.version + 1 \in Nat
  BY DEF Row

LEMMA MovedType ==
  ASSUME NEW cur \in Row, NEW read \in Row, NEW to \in Statuses,
         NEW enters \in BOOLEAN, NEW leaves \in BOOLEAN
  PROVE  Moved(cur, read, to, enters, leaves) \in Row
  <1> DEFINE reopening == Reopening(read.status, to)
             new == Moved(cur, read, to, enters, leaves)
             paused == (cur.paused \/ Stopping(enters, leaves)) /\ ~Resuming(read, enters, leaves)
             resolved == (cur.resolved \/ to = "resolved" \/ (to = "closed" /\ ~read.resolved)) /\ ~reopening
             closed == (cur.closed \/ Closing(to)) /\ ~reopening
             responded == cur.responded \/ Responding(read, to)
             late == cur.late /\ ~reopening
             flags == IF reopening THEN cur.flags \ {"warned", "breached"} ELSE cur.flags
             version == read.version + 1
  <1>1. /\ paused \in BOOLEAN /\ resolved \in BOOLEAN /\ closed \in BOOLEAN
        /\ responded \in BOOLEAN /\ late \in BOOLEAN
    OBVIOUS
  <1>2. version \in Nat
    BY NextVersion
  <1>3. flags \in SUBSET Flags
    BY DEF Row
  <1>4. new = [cur EXCEPT !.status = to, !.version = version, !.paused = paused,
                          !.resolved = resolved, !.closed = closed, !.responded = responded,
                          !.late = late, !.flags = flags]
    BY DEF Moved
  <1> HIDE DEF new, paused, resolved, closed, responded, late, flags, version
  <1>5. QED
    BY <1>1, <1>2, <1>3, <1>4 DEF Row, new

LEMMA AssignedType ==
  ASSUME NEW cur \in Row, NEW read \in Row, NEW owner \in SUBSET OwnerKinds
  PROVE  Assigned(cur, read, owner) \in Row
  <1> DEFINE status == IF owner # {} /\ read.status = "new" THEN "assigned"
                       ELSE cur.status
             version == read.version + 1
             responded == cur.responded \/ (~read.responded /\ owner # {})
  <1>1. status \in Statuses
    BY DEF Row, Statuses
  <1>2. version \in Nat
    BY NextVersion
  <1>3. responded \in BOOLEAN
    OBVIOUS
  <1>4. Assigned(cur, read, owner) =
          [cur EXCEPT !.status = status, !.version = version,
                      !.responded = responded, !.owner = owner]
    BY DEF Assigned
  <1> HIDE DEF status, version, responded
  <1>5. QED
    BY <1>1, <1>2, <1>3, <1>4 DEF Row

LEMMA EditedType ==
  ASSUME NEW cur \in Row, NEW read \in Row, NEW late \in BOOLEAN
  PROVE  Edited(cur, read, late) \in Row
  <1> DEFINE v == read.version + 1
  <1>1. v \in Nat
    BY NextVersion
  <1>2. Edited(cur, read, late) = [cur EXCEPT !.version = v, !.late = late]
    BY DEF Edited
  <1> HIDE DEF v
  <1>3. QED
    BY <1>1, <1>2 DEF Row

LEMMA TransferredType ==
  ASSUME NEW cur \in Row, NEW read \in Row, NEW clear \in BOOLEAN,
         NEW queue \in Queues \cup {NoQueue}
  PROVE  Transferred(cur, read, queue, clear) \in Row
  <1> DEFINE status == IF clear /\ read.status = "assigned" THEN "triaged" ELSE cur.status
             version == read.version + 1
             owner == IF clear THEN {} ELSE cur.owner
             newQueue == IF queue = NoQueue THEN cur.queue ELSE queue
  <1>1. status \in Statuses
    BY DEF Row, Statuses
  <1>2. version \in Nat
    BY NextVersion
  <1>3. owner \in SUBSET OwnerKinds /\ newQueue \in Queues \cup {NoQueue}
    BY DEF Row
  <1>4. Transferred(cur, read, queue, clear) =
          [cur EXCEPT !.status = status, !.version = version, !.owner = owner,
                      !.queue = newQueue]
    BY DEF Transferred
  <1> HIDE DEF status, version, owner, newQueue
  <1>5. QED
    BY <1>1, <1>2, <1>3, <1>4 DEF Row

LEMMA PickedType ==
  ASSUME NEW cur \in Row, NEW owner \in SUBSET OwnerKinds
  PROVE  Picked(cur, owner) \in Row
  BY DEF Picked, Row, Statuses

LEMMA AbsentIsNoRow == absent \notin Row
  BY DEF absent, Row, Statuses

-----------------------------------------------------------------------------
(* Type correctness.  A call holds on to a request that exists: rows are   *)
(* never deleted here, so what a call read is still there when it writes.  *)

CallsHaveRows == \A c \in Callers : call[c] # Idle => Exists(call[c].req)

TypeInv == TypeOK /\ CallsHaveRows

LEMMA ActiveCall ==
  ASSUME TypeInv, NEW c \in Callers, call[c] # Idle
  PROVE  /\ call[c] \in Call
         /\ call[c].req \in RequestIds
         /\ row[call[c].req] \in Row
  BY DEF TypeInv, TypeOK, CallsHaveRows, Exists, Call

LEMMA CallWithType ==
  ASSUME NEW pc \in Pcs, NEW r \in RequestIds, NEW read \in Row
  PROVE  CallWith(pc, r, read) \in Call
  BY DEF CallWith, Call, Statuses, Flags

LEMMA CallOnType ==
  ASSUME NEW pc \in Pcs, NEW r \in RequestIds, row[r] \in Row
  PROVE  CallOn(pc, r) \in Call /\ Snapshot(r) \in Row
  <1>1. Snapshot(r) \in Row
    BY DEF Snapshot, Row
  <1>2. QED
    BY <1>1, CallWithType DEF CallOn

LEMMA FreshType ==
  ASSUME NEW pc \in Pcs, NEW r \in RequestIds
  PROVE  Fresh(pc, r) \in Call
  BY CallWithType, NewRowType DEF Fresh

(* Everything but the policy, which no step but an edit of it and the move *)
(* it judged touches.                                                      *)
CoreOK ==
    /\ row \in [RequestIds -> Row \cup {absent}]
    /\ call \in [Callers -> Call \cup {Idle}]
    /\ started \in 0..MaxCalls
    /\ mishaps \in 0..MaxMishaps

CoreInv == CoreOK /\ CallsHaveRows

(* A step that writes one row and moves one call keeps the types.          *)
LEMMA StepType ==
  ASSUME TypeInv,
         NEW c \in Callers, NEW k,
         (k \in Call /\ Exists(k.req)) \/ k = Idle,
         call' = [call EXCEPT ![c] = k],
         NEW r \in RequestIds, NEW new \in Row,
         row' = [row EXCEPT ![r] = new] \/ row' = row,
         started' \in 0..MaxCalls, mishaps' \in 0..MaxMishaps
  PROVE  CoreInv'
  <1>1. CoreOK'
    BY DEF TypeInv, TypeOK, CoreOK
  <1>2. \A s \in RequestIds : Exists(s) => Exists(s)'
    BY AbsentIsNoRow DEF TypeInv, TypeOK, Exists
  <1>3. CallsHaveRows'
    BY <1>2 DEF TypeInv, TypeOK, CallsHaveRows, Call, Exists
  <1>4. QED
    BY <1>1, <1>3 DEF CoreInv

(* The same when no call moves.                                            *)
LEMMA RowStepType ==
  ASSUME TypeInv, NEW r \in RequestIds, NEW new \in Row,
         row' = [row EXCEPT ![r] = new], call' = call,
         started' \in 0..MaxCalls, mishaps' \in 0..MaxMishaps
  PROVE  CoreInv'
  <1>1. \A s \in RequestIds : Exists(s) => Exists(s)'
    BY AbsentIsNoRow DEF TypeInv, TypeOK, Exists
  <1>2. CoreOK'
    BY DEF TypeInv, TypeOK, CoreOK
  <1>3. CallsHaveRows'
    BY <1>1 DEF TypeInv, TypeOK, CallsHaveRows, Call
  <1>4. QED
    BY <1>2, <1>3 DEF CoreInv

(* A call that starts reads the request and writes nothing.                *)
LEMMA StartType ==
  ASSUME TypeInv, NEW c \in Callers, NEW r \in RequestIds, Exists(r),
         NEW k \in Call, k.req = r,
         call' = [call EXCEPT ![c] = k], row' = row,
         started' \in 0..MaxCalls, mishaps' = mishaps
  PROVE  CoreInv'
  <1>1. row[r] \in Row
    BY DEF TypeInv, TypeOK, Exists
  <1>2. mishaps' \in 0..MaxMishaps
    BY DEF TypeInv, TypeOK
  <1>3. QED
    BY <1>1, <1>2, StepType

LEMMA AcceptCounts ==
  ASSUME TypeInv, NEW c, NEW r, Accept(c, r)
  PROVE  started' \in 0..MaxCalls /\ mishaps' = mishaps /\ row' = row
  BY BoundsAssumption DEF Accept, TypeInv, TypeOK

LEMMA VersionedCallType ==
  ASSUME TypeInv, NEW c \in Callers, NEW r \in RequestIds, VersionedCall(c, r)
  PROVE  CoreInv'
  <1>1. Exists(r)
    BY DEF VersionedCall, TransitionRead, Cancel, AutoClose, AssignRead,
           UpdateRead, SlaSelect, Accept, Select
  <1>2. row[r] \in Row
    BY <1>1 DEF TypeInv, TypeOK, Exists
  <1>3. \A pc \in Pcs : /\ CallOn(pc, r) \in Call /\ CallOn(pc, r).req = r
                        /\ Fresh(pc, r) \in Call /\ Fresh(pc, r).req = r
    BY <1>2, CallOnType, FreshType DEF CallOn, Fresh, CallWith
  <1>4. started \in 0..MaxCalls
    BY DEF TypeInv, TypeOK
  <1>5. CASE \E to \in Statuses : TransitionRead(c, r, to)
    <2>1. PICK to \in Statuses : TransitionRead(c, r, to)
      BY <1>5
    <2> DEFINE k == [CallOn("enters", r) EXCEPT !.to = to]
    <2>2. k \in Call /\ k.req = r
      BY <1>3 DEF Pcs, Call
    <2>3. call' = [call EXCEPT ![c] = k] /\ Accept(c, r)
      BY <2>1 DEF TransitionRead, Become
    <2> HIDE DEF k
    <2>4. QED
      BY <1>1, <2>2, <2>3, AcceptCounts, StartType
  <1>6. CASE Cancel(c, r)
    <2> DEFINE k == [Fresh("recheck", r) EXCEPT !.to = "cancelled"]
    <2>1. k \in Call /\ k.req = r
      BY <1>3 DEF Pcs, Call, Statuses
    <2>2. call' = [call EXCEPT ![c] = k] /\ Accept(c, r)
      BY <1>6 DEF Cancel, Become
    <2> HIDE DEF k
    <2>3. QED
      BY <1>1, <2>1, <2>2, AcceptCounts, StartType
  <1>7. CASE AutoClose(c, r)
    <2> DEFINE k == [Fresh("recheck", r) EXCEPT !.to = "closed"]
    <2>1. k \in Call /\ k.req = r
      BY <1>3 DEF Pcs, Call, Statuses
    <2>2. /\ call' = [call EXCEPT ![c] = k] /\ row' = row
          /\ started' = started /\ mishaps' = mishaps
      BY <1>7 DEF AutoClose, Become, Select
    <2> HIDE DEF k
    <2>3. QED
      BY <1>1, <1>4, <2>1, <2>2, StartType
  <1>8. CASE \E owner \in SUBSET OwnerKinds : AssignRead(c, r, owner)
    <2>1. PICK owner \in SUBSET OwnerKinds : AssignRead(c, r, owner)
      BY <1>8
    <2> DEFINE k == [CallOn("assign", r) EXCEPT !.owner = owner]
    <2>2. k \in Call /\ k.req = r
      BY <1>3 DEF Pcs, Call
    <2>3. call' = [call EXCEPT ![c] = k] /\ Accept(c, r)
      BY <2>1 DEF AssignRead, Become
    <2> HIDE DEF k
    <2>4. QED
      BY <1>1, <2>2, <2>3, AcceptCounts, StartType
  <1>9. CASE \E priority \in BOOLEAN : UpdateRead(c, r, priority)
    <2>1. PICK priority \in BOOLEAN : UpdateRead(c, r, priority)
      BY <1>9
    <2> DEFINE k == [CallOn("update", r) EXCEPT !.clear = priority]
    <2>2. k \in Call /\ k.req = r
      BY <1>3 DEF Pcs, Call
    <2>3. call' = [call EXCEPT ![c] = k] /\ Accept(c, r)
      BY <2>1 DEF UpdateRead, Become
    <2> HIDE DEF k
    <2>4. QED
      BY <1>1, <2>2, <2>3, AcceptCounts, StartType
  <1>10. CASE \E flag \in SlaFlags : SlaSelect(c, r, flag)
    <2>1. PICK flag \in SlaFlags : SlaSelect(c, r, flag)
      BY <1>10
    <2> DEFINE base == Fresh("flag", r)
               queue == row[r].queue
               k == [base EXCEPT !.flag = flag, !.queue = queue]
    <2>2. k \in Call /\ k.req = r
      <3>1. queue \in Queues \cup {NoQueue}
        BY <1>2 DEF Row
      <3>2. flag \in Flags
        BY SlaFlagsAssumption
      <3>3. base \in Call /\ base.req = r
        BY <1>3 DEF Pcs
      <3> HIDE DEF base, queue
      <3>4. QED
        BY <3>1, <3>2, <3>3 DEF Call
    <2>3. /\ call' = [call EXCEPT ![c] = k] /\ row' = row
          /\ started' = started /\ mishaps' = mishaps
      BY <2>1 DEF SlaSelect, Become, Select
    <2> HIDE DEF k
    <2>4. QED
      BY <1>1, <1>4, <2>2, <2>3, StartType
  <1>11. QED
    BY <1>5, <1>6, <1>7, <1>8, <1>9, <1>10 DEF VersionedCall

LEMMA UnversionedCallType ==
  ASSUME TypeInv, NEW c \in Callers, NEW r \in RequestIds, UnversionedCall(c, r)
  PROVE  CoreInv'
  <1>1. Exists(r)
    BY DEF UnversionedCall, LinkDuplicate, TransferRead, ReplyRead, Accept
  <1>2. row[r] \in Row
    BY <1>1 DEF TypeInv, TypeOK, Exists
  <1>3. \A pc \in Pcs : /\ CallOn(pc, r) \in Call /\ CallOn(pc, r).req = r
                        /\ Fresh(pc, r) \in Call /\ Fresh(pc, r).req = r
    BY <1>2, CallOnType, FreshType DEF CallOn, Fresh, CallWith
  <1>4. CASE LinkDuplicate(c, r)
    <2> DEFINE k == [Fresh("recheck", r) EXCEPT !.to = "closed"]
               new == [row[r] EXCEPT !.merged = TRUE]
    <2>1. k \in Call /\ k.req = r
      BY <1>3 DEF Pcs, Call, Statuses
    <2>2. new \in Row
      BY <1>2 DEF Row
    <2>3. call' = [call EXCEPT ![c] = k] /\ row' = [row EXCEPT ![r] = new]
      BY <1>4 DEF LinkDuplicate, Become, WriteRow
    <2>4. started' \in 0..MaxCalls /\ mishaps' \in 0..MaxMishaps
      BY <1>4, BoundsAssumption DEF LinkDuplicate, TypeInv, TypeOK
    <2> HIDE DEF k, new
    <2>5. QED
      BY <1>1, <2>1, <2>2, <2>3, <2>4, StepType
  <1>5. CASE \E queue \in Queues \cup {NoQueue}, clear \in BOOLEAN :
               TransferRead(c, r, queue, clear)
    <2>1. PICK queue \in Queues \cup {NoQueue}, clear \in BOOLEAN :
            TransferRead(c, r, queue, clear)
      BY <1>5
    <2> DEFINE base == CallOn("transfer", r)
               k == [base EXCEPT !.queue = queue, !.clear = clear]
    <2>2. k \in Call /\ k.req = r
      <3>1. base \in Call /\ base.req = r
        BY <1>3 DEF Pcs
      <3> HIDE DEF base
      <3>2. QED
        BY <2>1, <3>1 DEF Call
    <2>3. call' = [call EXCEPT ![c] = k] /\ Accept(c, r)
      BY <2>1 DEF TransferRead, Become
    <2> HIDE DEF k
    <2>4. QED
      BY <1>1, <2>2, <2>3, AcceptCounts, StartType
  <1>6. CASE ReplyRead(c, r)
    <2>1. CallOn("reply", r) \in Call /\ CallOn("reply", r).req = r
      BY <1>3 DEF Pcs
    <2>2. call' = [call EXCEPT ![c] = CallOn("reply", r)] /\ Accept(c, r)
      BY <1>6 DEF ReplyRead, Become
    <2>3. QED
      BY <1>1, <2>1, <2>2, AcceptCounts, StartType
  <1>7. QED
    BY <1>4, <1>5, <1>6 DEF UnversionedCall

(* Only a call in progress executes a statement.                           *)
LEMMA StepsAreOfCalls ==
  ASSUME NEW c, VersionedStep(c) \/ UnversionedStep(c)
  PROVE  call[c] # Idle
  <1>1. \A pc \in Pcs \ {"idle"} : At(c, pc) => call[c] # Idle
    BY DEF At, Idle
  <1>2. CASE VersionedStep(c)
    <2>1. \E pc \in Pcs \ {"idle"} : At(c, pc)
      BY <1>2 DEF VersionedStep, Recheck, JudgeEntered, JudgeLeft, TransitionWrite,
         AssignWrite, UpdateWrite, SlaFlag, NotEscalated, Pcs
    <2>2. QED
      BY <1>1, <2>1
  <1>3. CASE UnversionedStep(c)
    <2>1. \E pc \in Pcs \ {"idle"} : At(c, pc)
      BY <1>3 DEF UnversionedStep, TransferWrite, TransferPick, ReplyWrite, Escalate, Pcs
    <2>2. QED
      BY <1>1, <2>1
  <1>4. QED
    BY <1>2, <1>3

(* A call in progress writes its own request and moves on.                 *)
LEMMA ContinueType ==
  ASSUME TypeInv, NEW c \in Callers, call[c] # Idle,
         NEW k, (k \in Call /\ k.req = call[c].req) \/ k = Idle,
         call' = [call EXCEPT ![c] = k],
         NEW new \in Row,
         row' = [row EXCEPT ![call[c].req] = new] \/ row' = row,
         started' = started, mishaps' = mishaps
  PROVE  CoreInv'
  <1>1. /\ call[c].req \in RequestIds /\ Exists(call[c].req)
        /\ started \in 0..MaxCalls /\ mishaps \in 0..MaxMishaps
    BY ActiveCall DEF TypeInv, TypeOK, CallsHaveRows
  <1>2. QED
    BY <1>1, StepType

LEMMA VersionedStepType ==
  ASSUME TypeInv, NEW c \in Callers, VersionedStep(c)
  PROVE  CoreInv'
  <1> DEFINE k == call[c]
             cur == row[k.req]
  <1>1. /\ call[c] # Idle /\ k \in Call /\ cur \in Row /\ k.req \in RequestIds
    BY StepsAreOfCalls, ActiveCall
  <1>2. /\ k.read \in Row /\ k.to \in Statuses /\ k.owner \in SUBSET OwnerKinds
        /\ k.queue \in Queues \cup {NoQueue}
        /\ k.enters \in SUBSET Statuses /\ k.leaves \in SUBSET Statuses
        /\ Enters(k) \in BOOLEAN /\ Leaves(k) \in BOOLEAN
    BY <1>1 DEF Call, Enters, Leaves
  <1>3. ASSUME NEW new \in Row, VersionedWrite(c, new)
        PROVE  CoreInv'
    BY <1>1, <1>3, ContinueType DEF VersionedWrite, WriteRow, Become
  <1>4. CASE TransitionWrite(c)
    BY <1>1, <1>2, <1>3, <1>4, MovedType DEF TransitionWrite
  <1>5. CASE Recheck(c)
    <2> DEFINE next == [k EXCEPT !.pc = "enters", !.read = Snapshot(k.req)]
    <2>1. Snapshot(k.req) \in Row
      BY <1>1, CallOnType DEF Pcs
    <2>2. next \in Call /\ next.req = k.req
      BY <1>1, <2>1 DEF Call, Pcs
    <2>3. /\ call' = [call EXCEPT ![c] = next] \/ call' = [call EXCEPT ![c] = Idle]
          /\ row' = row /\ started' = started /\ mishaps' = mishaps
      BY <1>5 DEF Recheck, Become
    <2> HIDE DEF next
    <2>4. QED
      BY <1>1, <2>2, <2>3, ContinueType
  <1>6. CASE AssignWrite(c)
    BY <1>1, <1>2, <1>3, <1>6, AssignedType DEF AssignWrite
  <1>7. CASE UpdateWrite(c)
    <2>1. PICK late \in BOOLEAN : VersionedWrite(c, Edited(cur, k.read, late))
      BY <1>7 DEF UpdateWrite
    <2>2. QED
      BY <1>1, <1>2, <1>3, <2>1, EditedType
  <1>8. CASE SlaFlag(c)
    <2> DEFINE new == [cur EXCEPT !.flags = @ \cup {k.flag}]
               next == [k EXCEPT !.pc = "escalate"]
    <2>1. new \in Row
      <3> DEFINE flags == cur.flags \cup {k.flag}
      <3>1. flags \in SUBSET Flags
        BY <1>1 DEF Row, Call
      <3> HIDE DEF flags
      <3>2. [cur EXCEPT !.flags = flags] \in Row
        BY <1>1, <3>1 DEF Row
      <3>3. QED
        BY <3>2 DEF flags
    <2>2. next \in Call /\ next.req = k.req
      BY <1>1 DEF Call, Pcs
    <2>3. /\ call' = [call EXCEPT ![c] = next] \/ call' = [call EXCEPT ![c] = Idle]
          /\ row' = [row EXCEPT ![k.req] = new]
          /\ started' = started /\ mishaps' = mishaps
      BY <1>8 DEF SlaFlag, Become, WriteRow
    <2> HIDE DEF next, new
    <2>4. QED
      BY <1>1, <2>1, <2>2, <2>3, ContinueType
  <1>9. CASE NotEscalated(c)
    BY <1>1, <1>9, ContinueType DEF NotEscalated, Become
  <1>10. ASSUME NEW next \in Call, next.req = k.req, Become(c, next),
                UNCHANGED <<row, started>>, NEW s, NEW list, IsPauseStatus(s, list)
         PROVE  CoreInv'
    <2>1. mishaps' \in 0..MaxMishaps /\ started' \in 0..MaxCalls
      BY <1>10, BoundsAssumption DEF IsPauseStatus, TypeInv, TypeOK
    <2>2. Exists(next.req)
      BY <1>1, <1>10 DEF TypeInv, CallsHaveRows
    <2>3. call' = [call EXCEPT ![c] = next] /\ row' = row
      BY <1>10 DEF Become
    <2>4. QED
      BY <1>1, <1>10, <2>1, <2>2, <2>3, StepType
  <1>11. CASE JudgeEntered(c)
    <2>1. PICK list \in {pauses, {}} :
            /\ IsPauseStatus(k.to, list)
            /\ Become(c, [k EXCEPT !.pc = "leaves", !.enters = list \cap Concerns(k)])
      BY <1>11 DEF JudgeEntered
    <2> DEFINE part == list \cap Concerns(k)
               next == [k EXCEPT !.pc = "leaves", !.enters = part]
    <2>2. next \in Call /\ next.req = k.req
      <3>1. part \in SUBSET Statuses
        BY <1>1, <1>2 DEF Concerns, Row
      <3> HIDE DEF part
      <3>2. QED
        BY <1>1, <3>1 DEF Call, Pcs
    <2>3. UNCHANGED <<row, started>>
      BY <1>11 DEF JudgeEntered
    <2>4. Become(c, next)
      BY <2>1
    <2> HIDE DEF next
    <2>5. QED
      BY <1>10, <2>1, <2>2, <2>3, <2>4
  <1>12. CASE JudgeLeft(c)
    <2>1. PICK list \in {pauses, {}} :
            /\ IsPauseStatus(k.read.status, list)
            /\ Become(c, [k EXCEPT !.pc = "transition", !.leaves = list \cap Concerns(k)])
      BY <1>12 DEF JudgeLeft
    <2> DEFINE part == list \cap Concerns(k)
               next == [k EXCEPT !.pc = "transition", !.leaves = part]
    <2>2. next \in Call /\ next.req = k.req
      <3>1. part \in SUBSET Statuses
        BY <1>1, <1>2 DEF Concerns, Row
      <3> HIDE DEF part
      <3>2. QED
        BY <1>1, <3>1 DEF Call, Pcs
    <2>3. UNCHANGED <<row, started>>
      BY <1>12 DEF JudgeLeft
    <2>4. Become(c, next)
      BY <2>1
    <2> HIDE DEF next
    <2>5. QED
      BY <1>10, <2>1, <2>2, <2>3, <2>4
  <1>13. QED
    BY <1>4, <1>5, <1>6, <1>7, <1>8, <1>9, <1>11, <1>12 DEF VersionedStep

LEMMA UnversionedStepType ==
  ASSUME TypeInv, NEW c \in Callers, UnversionedStep(c)
  PROVE  CoreInv'
  <1> DEFINE k == call[c]
             cur == row[k.req]
  <1>1. /\ call[c] # Idle /\ k \in Call /\ cur \in Row /\ k.req \in RequestIds
    BY ActiveCall DEF UnversionedStep, TransferWrite, TransferPick, ReplyWrite,
         Escalate, At, Idle
  <1>2. /\ k.read \in Row /\ k.clear \in BOOLEAN
        /\ k.queue \in Queues \cup {NoQueue}
    BY <1>1 DEF Call
  <1>3. CASE TransferWrite(c)
    <2> DEFINE new == Transferred(cur, k.read, k.queue, k.clear)
               next == Fresh("pick", k.req)
    <2>1. new \in Row
      BY <1>1, <1>2, TransferredType
    <2>2. next \in Call /\ next.req = k.req
      BY <1>1, FreshType DEF Pcs, Fresh, CallWith
    <2>3. /\ call' = [call EXCEPT ![c] = next] \/ call' = [call EXCEPT ![c] = Idle]
          /\ row' = [row EXCEPT ![k.req] = new]
          /\ started' = started /\ mishaps' = mishaps
      BY <1>3 DEF TransferWrite, Become, WriteRow
    <2> HIDE DEF new, next
    <2>4. QED
      BY <1>1, <2>1, <2>2, <2>3, ContinueType
  <1>4. CASE \E owner \in SUBSET OwnerKinds : TransferPick(c, owner)
    <2>1. PICK owner \in SUBSET OwnerKinds : TransferPick(c, owner)
      BY <1>4
    <2>2. Picked(cur, owner) \in Row
      BY <1>1, PickedType
    <2>3. /\ call' = [call EXCEPT ![c] = Idle]
          /\ row' = [row EXCEPT ![k.req] = Picked(cur, owner)] \/ row' = row
          /\ started' = started /\ mishaps' = mishaps
      BY <2>1 DEF TransferPick, Become, WriteRow
    <2>4. QED
      BY <1>1, <2>2, <2>3, ContinueType
  <1>5. CASE ReplyWrite(c)
    <2> DEFINE new == [cur EXCEPT !.status = "in_progress"]
    <2>1. new \in Row
      BY <1>1 DEF Row, Statuses
    <2>2. /\ call' = [call EXCEPT ![c] = Idle]
          /\ row' = [row EXCEPT ![k.req] = new] \/ row' = row
          /\ started' = started /\ mishaps' = mishaps
      BY <1>5 DEF ReplyWrite, Become, WriteRow
    <2> HIDE DEF new
    <2>3. QED
      BY <1>1, <2>1, <2>2, ContinueType
  <1>6. CASE Escalate(c)
    <2> DEFINE base == CallOn("transfer", k.req)
               queue == EscalationOf[k.queue]
               next == [base EXCEPT !.queue = queue]
    <2>1. base \in Call /\ base.req = k.req
      BY <1>1, CallOnType DEF Pcs, CallOn, CallWith
    <2>2. k.queue \in Queues
      BY <1>2, <1>6 DEF Escalate, Escalates
    <2>3. queue \in Queues \cup {NoQueue}
      BY <2>2, EscalationAssumption
    <2>4. next \in Call /\ next.req = k.req
      <3> HIDE DEF base, queue
      <3>1. QED
        BY <2>1, <2>3 DEF Call
    <2>5. /\ call' = [call EXCEPT ![c] = next] /\ row' = row
          /\ started' = started /\ mishaps' = mishaps
      BY <1>6 DEF Escalate, Become
    <2> HIDE DEF next
    <2>6. QED
      BY <1>1, <2>4, <2>5, ContinueType
  <1>7. QED
    BY <1>3, <1>4, <1>5, <1>6 DEF UnversionedStep

LEMMA EnvironmentType ==
  ASSUME TypeInv, NEW r \in RequestIds, Environment(r)
  PROVE  CoreInv'
  <1>1. started \in 0..MaxCalls /\ mishaps \in 0..MaxMishaps
    BY DEF TypeInv, TypeOK
  <1>2. CASE \E owner \in SUBSET OwnerKinds, queue \in Queues \cup {NoQueue} :
               Create(r, owner, queue)
    <2>1. PICK owner \in SUBSET OwnerKinds, queue \in Queues \cup {NoQueue} :
            Create(r, owner, queue)
      BY <1>2
    <2>2. NewRow(owner, queue) \in Row
      BY NewRowType
    <2>3. QED
      BY <1>1, <2>1, <2>2, RowStepType DEF Create, WriteRow
  <1>3. CASE AddComment(r)
    <2> DEFINE new == [row[r] EXCEPT !.responded = TRUE]
    <2>1. new \in Row
      BY <1>3 DEF AddComment, TypeInv, TypeOK, Exists, Row
    <2>2. row' = [row EXCEPT ![r] = new] /\ call' = call /\ mishaps' = mishaps
      BY <1>3 DEF AddComment, WriteRow
    <2>3. started' \in 0..MaxCalls
      BY <1>1, <1>3, BoundsAssumption DEF AddComment
    <2> HIDE DEF new
    <2>4. QED
      BY <1>1, <2>1, <2>2, <2>3, RowStepType
  <1>4. CASE DeadlinePasses(r)
    <2> DEFINE new == [row[r] EXCEPT !.late = TRUE]
    <2>1. new \in Row
      BY <1>4 DEF DeadlinePasses, TypeInv, TypeOK, Exists, Row
    <2>2. /\ row' = [row EXCEPT ![r] = new] /\ call' = call
          /\ started' = started /\ mishaps' = mishaps
      BY <1>4 DEF DeadlinePasses, WriteRow
    <2> HIDE DEF new
    <2>3. QED
      BY <1>1, <2>1, <2>2, RowStepType
  <1>5. QED
    BY <1>2, <1>3, <1>4 DEF Environment

LEMMA CrashType ==
  ASSUME TypeInv, NEW c \in Callers, Crash(c)
  PROVE  CoreInv'
  <1>1. mishaps' \in 0..MaxMishaps
    BY BoundsAssumption DEF Crash, TypeInv, TypeOK
  <1>2. call' = [call EXCEPT ![c] = Idle] /\ row' = row /\ started' = started
    BY DEF Crash, Become
  <1>3. QED
    BY <1>1, <1>2 DEF TypeInv, TypeOK, CoreInv, CoreOK, CallsHaveRows, Exists

LEMMA InitType == Init => TypeInv
  BY BoundsAssumption DEF Init, TypeInv, TypeOK, CallsHaveRows

(* The policy has one of its lists, and only requests are unsettled.       *)
LEMMA PolicyType ==
  ASSUME TypeInv, [Next]_vars
  PROVE  pauses' \in PauseLists /\ unsettled' \subseteq RequestIds
  <1>1. pauses \in PauseLists /\ unsettled \subseteq RequestIds
    BY DEF TypeInv, TypeOK
  <1>2. CASE UNCHANGED policy
    BY <1>1, <1>2 DEF policy
  <1>3. ASSUME NEW c \in Callers, TransitionWrite(c)
        PROVE  pauses' \in PauseLists /\ unsettled' \subseteq RequestIds
    <2>1. pauses' = pauses /\ Settle(c) /\ call[c].req \in RequestIds
      BY <1>3, ActiveCall DEF TransitionWrite, VersionedWrite, At, Idle
    <2>2. QED
      BY <1>1, <2>1 DEF Settle
  <1>4. CASE \E list \in PauseLists : EditPolicy(list)
    BY <1>1, <1>4 DEF EditPolicy
  <1>5. CASE UNCHANGED vars
    BY <1>2, <1>5 DEF vars, policy
  <1>6. CASE \E c \in Callers, r \in RequestIds : VersionedCall(c, r) \/ UnversionedCall(c, r)
    <2>1. PICK c \in Callers, r \in RequestIds : VersionedCall(c, r) \/ UnversionedCall(c, r)
      BY <1>6
    <2>2. Accept(c, r) \/ Select(c, r) => UNCHANGED policy
      BY DEF Accept, Select, policy
    <2>3. CASE VersionedCall(c, r)
      <3>1. Accept(c, r) \/ Select(c, r)
        BY <2>3 DEF VersionedCall, TransitionRead, Cancel, AutoClose, AssignRead, UpdateRead,
           SlaSelect
      <3>2. QED
        BY <1>2, <2>2, <3>1
    <2>4. CASE UnversionedCall(c, r)
      <3>1. Accept(c, r) \/ UNCHANGED policy
        BY <2>4 DEF UnversionedCall, TransferRead, ReplyRead, LinkDuplicate
      <3>2. QED
        BY <1>2, <2>2, <3>1
    <2>5. QED
      BY <2>1, <2>3, <2>4
  <1>7. CASE \E c \in Callers : (VersionedStep(c) /\ ~TransitionWrite(c)) \/ UnversionedStep(c) \/ Crash(c)
    <2>1. PICK c \in Callers :
            (VersionedStep(c) /\ ~TransitionWrite(c)) \/ UnversionedStep(c) \/ Crash(c)
      BY <1>7
    <2>2. UNCHANGED policy
      BY <2>1 DEF VersionedStep, UnversionedStep, Crash, Recheck, JudgeEntered, JudgeLeft,
         AssignWrite, UpdateWrite, VersionedWrite, SlaFlag, NotEscalated, TransferWrite,
         TransferPick, ReplyWrite, Escalate, policy
    <2>3. QED
      BY <1>2, <2>2
  <1>8. CASE \E r \in RequestIds : Environment(r)
    BY <1>2, <1>8 DEF Environment, Create, AddComment, DeadlinePasses
  <1>9. QED
    BY <1>3, <1>4, <1>5, <1>6, <1>7, <1>8 DEF Next, VersionedNext

LEMMA NextType == TypeInv /\ [Next]_vars => TypeInv'
  <1> SUFFICES ASSUME TypeInv, [Next]_vars
               PROVE  TypeInv'
    OBVIOUS
  <1>1. CoreInv'
    <2>1. CASE \E c \in Callers, r \in RequestIds : VersionedCall(c, r)
      BY <2>1, VersionedCallType
    <2>2. CASE \E c \in Callers : VersionedStep(c) \/ Crash(c)
      BY <2>2, VersionedStepType, CrashType
    <2>3. CASE \E r \in RequestIds : Environment(r)
      BY <2>3, EnvironmentType
    <2>4. CASE \E c \in Callers, r \in RequestIds : UnversionedCall(c, r)
      BY <2>4, UnversionedCallType
    <2>5. CASE \E c \in Callers : UnversionedStep(c)
      BY <2>5, UnversionedStepType
    <2>6. CASE UNCHANGED vars \/ \E list \in PauseLists : EditPolicy(list)
      <3>1. row' = row /\ call' = call /\ started' = started /\ mishaps' = mishaps
        BY <2>6 DEF vars, EditPolicy
      <3>2. QED
        BY <3>1 DEF TypeInv, TypeOK, CoreInv, CoreOK, CallsHaveRows, Exists
    <2>7. QED
      BY <2>1, <2>2, <2>3, <2>4, <2>5, <2>6 DEF Next, VersionedNext
  <1>2. pauses' \in PauseLists /\ unsettled' \subseteq RequestIds
    BY PolicyType
  <1>3. QED
    BY <1>1, <1>2 DEF CoreInv, CoreOK, TypeInv, TypeOK

LEMMA TypeInvHolds == Spec => []TypeInv
  <1>1. QED
    BY InitType, NextType, PTL DEF Spec

(* Every row and every call in flight is well formed in every reachable    *)
(* state: no handler writes a status, queue or owner the schema lacks.     *)
THEOREM TypeCorrect == Spec => []TypeOK
  <1>1. TypeInv => TypeOK
    BY DEF TypeInv
  <1>2. QED
    BY <1>1, TypeInvHolds, PTL

-----------------------------------------------------------------------------
(* What one step of the whole system can do to one request and to one      *)
(* call.  The invariants below are proved from these two facts alone.      *)

(* A call of Transition whose UPDATE takes effect on r.                    *)
Moves(c, r) == TransitionWrite(c) /\ call[c].req = r /\ Current(c)

(* A write under the optimistic lock, by a call that holds a snapshot.     *)
LockedWrite(c, r) ==
    LET k == call[c] IN
    /\ k # Idle /\ k.req = r /\ Current(c)
    /\ \/ /\ k.pc = "transition" /\ Moves(c, r)
          /\ row'[r] = Moved(row[r], k.read, k.to, Enters(k), Leaves(k))
       \/ k.pc = "assign" /\ row'[r] = Assigned(row[r], k.read, k.owner)
       \/ /\ k.pc = "update"
          /\ \E late \in BOOLEAN : row'[r] = Edited(row[r], k.read, late)

(* A write that does not look at the version.                              *)
UnlockedWrite(c, r) ==
    LET k == call[c] IN
    /\ k # Idle /\ k.req = r
    /\ \/ row'[r] = Transferred(row[r], k.read, k.queue, k.clear)
       \/ \E owner \in SUBSET OwnerKinds :
            SingleOwner(owner) /\ row'[r] = Picked(row[r], owner)
       \/ /\ k.read.status = "waiting_citizen"
          /\ row'[r] = [row[r] EXCEPT !.status = "in_progress"]

(* A write of one column the status machine does not govern.               *)
Annotation(r) ==
    \/ row'[r] = [row[r] EXCEPT !.responded = TRUE]
    \/ row'[r] = [row[r] EXCEPT !.late = TRUE] /\ ~row[r].paused
    \/ \E flag \in Flags : row'[r] = [row[r] EXCEPT !.flags = @ \cup {flag}]

Opened(r) ==
    /\ ~Exists(r)
    /\ \E owner \in SUBSET OwnerKinds, queue \in Queues \cup {NoQueue} :
         row'[r] = NewRow(owner, queue)

LockedRowStep(r) ==
    \/ row'[r] = row[r]
    \/ Opened(r)
    \/ Exists(r) /\ Annotation(r)
    \/ Exists(r) /\ \E c \in Callers : LockedWrite(c, r)

RowStep(r) ==
    \/ LockedRowStep(r)
    \/ Exists(r) /\ \E c \in Callers : UnlockedWrite(c, r)
    \/ Exists(r) /\ row'[r] = [row[r] EXCEPT !.merged = TRUE]

(* What the remembered row and the pending write of a call can become.     *)
CallStep(c) ==
    \/ call'[c] = call[c]
    \/ call'[c] = Idle
    \/ /\ row' = row
       /\ \E r \in RequestIds :
            /\ Exists(r) /\ call'[c].req = r /\ call'[c].read = Snapshot(r)
            /\ call'[c].pc = "enters" => Admits(row[r], call'[c].to)
            /\ call'[c].pc \notin {"leaves", "transition"}
            /\ call'[c].pc = "assign" => SingleOwner(call'[c].owner)
    \/ /\ call[c].pc \in {"enters", "leaves"} /\ row' = row
       /\ call'[c].pc \in {"leaves", "transition"}
       /\ call'[c].req = call[c].req /\ call'[c].read = call[c].read
       /\ call'[c].to = call[c].to
    \/ /\ call'[c].pc \in {"recheck", "flag", "pick"}
       /\ call'[c].read = NewRow({}, NoQueue)
    \/ /\ call'[c].pc = "escalate" /\ call[c] # Idle
       /\ call'[c].req = call[c].req /\ call'[c].read = call[c].read

LEMMA WriteAt ==
  ASSUME TypeInv, NEW s \in RequestIds, NEW new, WriteRow(s, new), NEW r \in RequestIds
  PROVE  row'[r] = IF r = s THEN new ELSE row[r]
  <1>1. row \in [RequestIds -> Row \cup {absent}]
    BY DEF TypeInv, TypeOK
  <1>2. QED
    BY <1>1 DEF WriteRow

LEMMA VersionedCallRow ==
  ASSUME NEW c, NEW s, VersionedCall(c, s)
  PROVE  row' = row
  BY DEF VersionedCall, TransitionRead, Cancel, AutoClose, AssignRead,
         UpdateRead, SlaSelect, Accept, Select

LEMMA UnversionedCallRow ==
  ASSUME TypeInv, NEW c \in Callers, NEW s \in RequestIds, UnversionedCall(c, s),
         NEW r \in RequestIds
  PROVE  RowStep(r)
  <1>1. CASE LinkDuplicate(c, s)
    BY <1>1, WriteAt DEF LinkDuplicate, RowStep, LockedRowStep
  <1>2. CASE ~LinkDuplicate(c, s)
    <2>1. row' = row
      BY <1>2 DEF UnversionedCall, TransferRead, ReplyRead, Accept
    <2>2. QED
      BY <2>1 DEF RowStep, LockedRowStep
  <1>3. QED
    BY <1>1, <1>2

LEMMA VersionedStepRow ==
  ASSUME TypeInv, NEW c \in Callers, VersionedStep(c) \/ Crash(c),
         NEW r \in RequestIds
  PROVE  LockedRowStep(r)
  <1> DEFINE k == call[c]
  <1>1. CASE Crash(c)
    BY <1>1 DEF Crash, LockedRowStep
  <1>2. CASE VersionedStep(c)
    <2>1. k # Idle /\ k \in Call /\ k.req \in RequestIds /\ Exists(k.req)
      BY <1>2, StepsAreOfCalls, ActiveCall DEF TypeInv, CallsHaveRows
    <2>2. ASSUME NEW new, VersionedWrite(c, new)
          PROVE  row'[r] = row[r] \/ (k.req = r /\ Current(c) /\ row'[r] = new)
      <3>1. CASE Current(c)
        <4>1. WriteRow(k.req, new)
          BY <2>2, <3>1 DEF VersionedWrite
        <4>2. QED
          BY <2>1, <3>1, <4>1, WriteAt
      <3>2. CASE ~Current(c)
        BY <2>2, <3>2 DEF VersionedWrite
      <3>3. QED
        BY <3>1, <3>2
    <2>3. CASE TransitionWrite(c)
      <3> DEFINE new == Moved(row[k.req], k.read, k.to, Enters(k), Leaves(k))
      <3>1. VersionedWrite(c, new) /\ k.pc = "transition"
        BY <2>3 DEF TransitionWrite, At
      <3>2. row'[r] = row[r] \/ (k.req = r /\ Current(c) /\ row'[r] = new)
        BY <2>2, <3>1
      <3>3. CASE k.req = r /\ Current(c) /\ row'[r] = new
        BY <2>1, <2>3, <3>1, <3>3 DEF LockedRowStep, LockedWrite, Moves
      <3>4. QED
        BY <3>2, <3>3 DEF LockedRowStep
    <2>4. CASE AssignWrite(c)
      BY <2>1, <2>2, <2>4 DEF AssignWrite, LockedRowStep, LockedWrite, At
    <2>5. CASE UpdateWrite(c)
      <3>1. PICK late \in BOOLEAN :
              VersionedWrite(c, Edited(row[k.req], k.read, late)) /\ k.pc = "update"
        BY <2>5 DEF UpdateWrite, At
      <3>2. QED
        BY <2>1, <2>2, <3>1 DEF LockedRowStep, LockedWrite
    <2>6. CASE SlaFlag(c)
      <3>1. k.flag \in Flags
        BY <2>1 DEF Call
      <3>2. QED
        BY <2>1, <2>6, <3>1 DEF SlaFlag, WriteRow, LockedRowStep, Annotation, TypeInv, TypeOK
    <2>7. CASE Recheck(c) \/ JudgeEntered(c) \/ JudgeLeft(c) \/ NotEscalated(c)
      BY <2>7 DEF Recheck, JudgeEntered, JudgeLeft, NotEscalated, LockedRowStep
    <2>8. QED
      BY <1>2, <2>3, <2>4, <2>5, <2>6, <2>7 DEF VersionedStep
  <1>3. QED
    BY <1>1, <1>2

LEMMA UnversionedStepRow ==
  ASSUME TypeInv, NEW c \in Callers, UnversionedStep(c), NEW r \in RequestIds
  PROVE  RowStep(r)
  <1> DEFINE k == call[c]
  <1>1. k # Idle /\ k \in Call /\ k.req \in RequestIds /\ Exists(k.req)
    BY ActiveCall DEF UnversionedStep, TransferWrite, TransferPick, ReplyWrite,
         Escalate, At, Idle, TypeInv, CallsHaveRows
  <1>2. ASSUME NEW new, WriteRow(k.req, new) \/ UNCHANGED row
        PROVE  row'[r] = row[r] \/ (k.req = r /\ row'[r] = new)
    BY <1>1, <1>2, WriteAt
  <1>3. CASE TransferWrite(c)
    <2>1. WriteRow(k.req, Transferred(row[k.req], k.read, k.queue, k.clear))
      BY <1>3 DEF TransferWrite
    <2>2. QED
      BY <1>1, <1>2, <2>1 DEF RowStep, LockedRowStep, UnlockedWrite
  <1>4. CASE \E owner \in SUBSET OwnerKinds : TransferPick(c, owner)
    <2>1. PICK owner \in SUBSET OwnerKinds : TransferPick(c, owner)
      BY <1>4
    <2>2. /\ SingleOwner(owner)
          /\ WriteRow(k.req, Picked(row[k.req], owner)) \/ UNCHANGED row
      BY <2>1 DEF TransferPick
    <2>3. QED
      BY <1>1, <1>2, <2>2 DEF RowStep, LockedRowStep, UnlockedWrite
  <1>5. CASE ReplyWrite(c)
    <2>1. \/ /\ k.read.status = "waiting_citizen"
             /\ WriteRow(k.req, [row[k.req] EXCEPT !.status = "in_progress"])
          \/ UNCHANGED row
      BY <1>5 DEF ReplyWrite
    <2> DEFINE new == [row[k.req] EXCEPT !.status = "in_progress"]
    <2>2. row'[r] = row[r] \/ (k.req = r /\ row'[r] = new)
      BY <1>2, <2>1
    <2>3. CASE k.read.status = "waiting_citizen" /\ k.req = r /\ row'[r] = new
      BY <1>1, <2>3 DEF RowStep, LockedRowStep, UnlockedWrite
    <2>4. CASE row'[r] = row[r]
      BY <2>4 DEF RowStep, LockedRowStep
    <2>5. QED
      BY <2>1, <2>2, <2>3, <2>4
  <1>6. CASE Escalate(c)
    BY <1>6 DEF Escalate, RowStep, LockedRowStep
  <1>7. QED
    BY <1>3, <1>4, <1>5, <1>6 DEF UnversionedStep

LEMMA EnvironmentRow ==
  ASSUME TypeInv, NEW s \in RequestIds, Environment(s), NEW r \in RequestIds
  PROVE  LockedRowStep(r)
  <1>1. CASE \E owner \in SUBSET OwnerKinds, queue \in Queues \cup {NoQueue} :
               Create(s, owner, queue)
    BY <1>1 DEF Create, WriteRow, LockedRowStep, Opened, TypeInv, TypeOK
  <1>2. CASE AddComment(s)
    BY <1>2 DEF AddComment, WriteRow, LockedRowStep, Annotation, TypeInv, TypeOK
  <1>3. CASE DeadlinePasses(s)
    BY <1>3 DEF DeadlinePasses, WriteRow, LockedRowStep, Annotation, TypeInv, TypeOK
  <1>4. QED
    BY <1>1, <1>2, <1>3 DEF Environment

LEMMA VersionedRow ==
  ASSUME TypeInv, [VersionedNext]_vars, NEW r \in RequestIds
  PROVE  LockedRowStep(r)
  <1>1. CASE UNCHANGED vars
    BY <1>1 DEF vars, LockedRowStep
  <1>2. CASE \E c \in Callers, s \in RequestIds : VersionedCall(c, s)
    BY <1>2, VersionedCallRow DEF LockedRowStep
  <1>3. CASE \E c \in Callers : VersionedStep(c) \/ Crash(c)
    BY <1>3, VersionedStepRow
  <1>4. CASE \E s \in RequestIds : Environment(s)
    BY <1>4, EnvironmentRow
  <1>5. CASE \E list \in PauseLists : EditPolicy(list)
    BY <1>5 DEF EditPolicy, LockedRowStep
  <1>6. QED
    BY <1>1, <1>2, <1>3, <1>4, <1>5 DEF VersionedNext

LEMMA NextRow ==
  ASSUME TypeInv, [Next]_vars, NEW r \in RequestIds
  PROVE  RowStep(r)
  <1>1. CASE [VersionedNext]_vars
    BY <1>1, VersionedRow DEF RowStep
  <1>2. CASE \E c \in Callers, s \in RequestIds : UnversionedCall(c, s)
    BY <1>2, UnversionedCallRow
  <1>3. CASE \E c \in Callers : UnversionedStep(c)
    BY <1>3, UnversionedStepRow
  <1>4. QED
    BY <1>1, <1>2, <1>3 DEF Next

(* A call that was just given the record k.                                *)
LEMMA Became ==
  ASSUME TypeInv, NEW d \in Callers, NEW k, Become(d, k), NEW c \in Callers
  PROVE  call'[c] = IF c = d THEN k ELSE call[c]
  <1>1. call \in [Callers -> Call \cup {Idle}]
    BY DEF TypeInv, TypeOK
  <1>2. QED
    BY <1>1 DEF Become

LEMMA VersionedCallStep ==
  ASSUME TypeInv, NEW d \in Callers, NEW r \in RequestIds, VersionedCall(d, r),
         NEW c \in Callers
  PROVE  CallStep(c)
  <1>1. row' = row /\ Exists(r)
    BY DEF VersionedCall, TransitionRead, Cancel, AutoClose, AssignRead,
           UpdateRead, SlaSelect, Accept, Select
  <1>2. CASE \E to \in Statuses : TransitionRead(d, r, to)
    <2>1. PICK to \in Statuses : TransitionRead(d, r, to)
      BY <1>2
    <2> DEFINE k == [CallOn("enters", r) EXCEPT !.to = to]
    <2>2. k.pc = "enters" /\ k.req = r /\ k.read = Snapshot(r) /\ k.to = to
      BY DEF CallOn, CallWith
    <2>3. Become(d, k) /\ Admits(row[r], to)
      BY <2>1 DEF TransitionRead
    <2> HIDE DEF k
    <2>4. QED
      BY <1>1, <2>2, <2>3, Became DEF CallStep
  <1>3. CASE Cancel(d, r)
    <2> DEFINE k == [Fresh("recheck", r) EXCEPT !.to = "cancelled"]
    <2>1. k.pc = "recheck" /\ k.read = NewRow({}, NoQueue)
      BY DEF Fresh, CallWith
    <2>2. Become(d, k)
      BY <1>3 DEF Cancel
    <2> HIDE DEF k
    <2>3. QED
      BY <2>1, <2>2, Became DEF CallStep
  <1>4. CASE AutoClose(d, r)
    <2> DEFINE k == [Fresh("recheck", r) EXCEPT !.to = "closed"]
    <2>1. k.pc = "recheck" /\ k.read = NewRow({}, NoQueue)
      BY DEF Fresh, CallWith
    <2>2. Become(d, k)
      BY <1>4 DEF AutoClose
    <2> HIDE DEF k
    <2>3. QED
      BY <2>1, <2>2, Became DEF CallStep
  <1>5. CASE \E owner \in SUBSET OwnerKinds : AssignRead(d, r, owner)
    <2>1. PICK owner \in SUBSET OwnerKinds : AssignRead(d, r, owner)
      BY <1>5
    <2> DEFINE k == [CallOn("assign", r) EXCEPT !.owner = owner]
    <2>2. k.pc = "assign" /\ k.req = r /\ k.read = Snapshot(r) /\ k.owner = owner
      BY DEF CallOn, CallWith
    <2>3. Become(d, k) /\ SingleOwner(owner)
      BY <2>1 DEF AssignRead
    <2> HIDE DEF k
    <2>4. QED
      BY <1>1, <2>2, <2>3, Became DEF CallStep
  <1>6. CASE \E priority \in BOOLEAN : UpdateRead(d, r, priority)
    <2>1. PICK priority \in BOOLEAN : UpdateRead(d, r, priority)
      BY <1>6
    <2> DEFINE k == [CallOn("update", r) EXCEPT !.clear = priority]
    <2>2. k.pc = "update" /\ k.req = r /\ k.read = Snapshot(r)
      BY DEF CallOn, CallWith
    <2>3. Become(d, k)
      BY <2>1 DEF UpdateRead
    <2> HIDE DEF k
    <2>4. QED
      BY <1>1, <2>2, <2>3, Became DEF CallStep
  <1>7. CASE \E flag \in SlaFlags : SlaSelect(d, r, flag)
    <2>1. PICK flag \in SlaFlags : SlaSelect(d, r, flag)
      BY <1>7
    <2> DEFINE k == [Fresh("flag", r) EXCEPT !.flag = flag, !.queue = row[r].queue]
    <2>2. k.pc = "flag" /\ k.read = NewRow({}, NoQueue)
      BY DEF Fresh, CallWith
    <2>3. Become(d, k)
      BY <2>1 DEF SlaSelect
    <2> HIDE DEF k
    <2>4. QED
      BY <2>2, <2>3, Became DEF CallStep
  <1>8. QED
    BY <1>2, <1>3, <1>4, <1>5, <1>6, <1>7 DEF VersionedCall

LEMMA UnversionedCallStep ==
  ASSUME TypeInv, NEW d \in Callers, NEW r \in RequestIds, UnversionedCall(d, r),
         NEW c \in Callers
  PROVE  CallStep(c)
  <1>1. CASE LinkDuplicate(d, r)
    <2> DEFINE k == [Fresh("recheck", r) EXCEPT !.to = "closed"]
    <2>1. k.pc = "recheck" /\ k.read = NewRow({}, NoQueue)
      BY DEF Fresh, CallWith
    <2>2. Become(d, k)
      BY <1>1 DEF LinkDuplicate
    <2> HIDE DEF k
    <2>3. QED
      BY <2>1, <2>2, Became DEF CallStep
  <1>2. CASE \E queue \in Queues \cup {NoQueue}, clear \in BOOLEAN :
               TransferRead(d, r, queue, clear)
    <2>1. PICK queue \in Queues \cup {NoQueue}, clear \in BOOLEAN :
            TransferRead(d, r, queue, clear)
      BY <1>2
    <2> DEFINE k == [CallOn("transfer", r) EXCEPT !.queue = queue, !.clear = clear]
    <2>2. k.pc = "transfer" /\ k.req = r /\ k.read = Snapshot(r)
      BY DEF CallOn, CallWith
    <2>3. Become(d, k) /\ row' = row /\ Exists(r)
      BY <2>1 DEF TransferRead, Accept
    <2> HIDE DEF k
    <2>4. QED
      BY <2>2, <2>3, Became DEF CallStep
  <1>3. CASE ReplyRead(d, r)
    <2> DEFINE k == CallOn("reply", r)
    <2>1. k.pc = "reply" /\ k.req = r /\ k.read = Snapshot(r)
      BY DEF CallOn, CallWith
    <2>2. Become(d, k) /\ row' = row /\ Exists(r)
      BY <1>3 DEF ReplyRead, Accept
    <2> HIDE DEF k
    <2>3. QED
      BY <2>1, <2>2, Became DEF CallStep
  <1>4. QED
    BY <1>1, <1>2, <1>3 DEF UnversionedCall

LEMMA ProgressCallStep ==
  ASSUME TypeInv, NEW d \in Callers, VersionedStep(d) \/ UnversionedStep(d) \/ Crash(d),
         NEW c \in Callers
  PROVE  CallStep(c)
  <1> DEFINE k == call[d]
  <1>1. CASE Become(d, Idle)
    BY <1>1, Became DEF CallStep
  <1>2. CASE Recheck(d)
    <2>1. /\ k # Idle /\ k \in Call /\ k.req \in RequestIds /\ Exists(k.req)
      BY <1>2, ActiveCall DEF Recheck, At, Idle, TypeInv, CallsHaveRows
    <2>2. CASE ~Admits(row[k.req], k.to)
      BY <1>1, <1>2, <2>2 DEF Recheck
    <2>3. CASE Admits(row[k.req], k.to)
      <3> DEFINE next == [k EXCEPT !.pc = "enters", !.read = Snapshot(k.req)]
      <3>1. next.pc = "enters" /\ next.req = k.req
            /\ next.read = Snapshot(k.req) /\ next.to = k.to
        BY <2>1 DEF Call
      <3>2. Become(d, next) /\ row' = row
        BY <1>2, <2>3 DEF Recheck
      <3> HIDE DEF next
      <3>3. QED
        BY <2>1, <2>3, <3>1, <3>2, Became DEF CallStep
    <2>4. QED
      BY <2>2, <2>3
  <1>3. CASE SlaFlag(d)
    <2>1. k # Idle /\ k \in Call
      BY <1>3, ActiveCall DEF SlaFlag, At, Idle
    <2> DEFINE next == [k EXCEPT !.pc = "escalate"]
    <2>2. next.pc = "escalate" /\ next.req = k.req /\ next.read = k.read
      BY <2>1 DEF Call
    <2>3. Become(d, next) \/ Become(d, Idle)
      BY <1>3 DEF SlaFlag
    <2> HIDE DEF next
    <2>4. QED
      BY <1>1, <2>1, <2>2, <2>3, Became DEF CallStep
  <1>4. CASE TransferWrite(d)
    <2> DEFINE next == Fresh("pick", k.req)
    <2>1. next.pc = "pick" /\ next.read = NewRow({}, NoQueue)
      BY DEF Fresh, CallWith
    <2>2. Become(d, next) \/ Become(d, Idle)
      BY <1>4 DEF TransferWrite
    <2> HIDE DEF next
    <2>3. QED
      BY <1>1, <2>1, <2>2, Became DEF CallStep
  <1>5. CASE Escalate(d)
    <2>1. /\ k # Idle /\ k \in Call /\ k.req \in RequestIds /\ Exists(k.req)
      BY <1>5, ActiveCall DEF Escalate, At, Idle, TypeInv, CallsHaveRows
    <2> DEFINE next == [CallOn("transfer", k.req) EXCEPT !.queue = EscalationOf[k.queue]]
    <2>2. next.pc = "transfer" /\ next.req = k.req /\ next.read = Snapshot(k.req)
      BY DEF CallOn, CallWith
    <2>3. Become(d, next) /\ row' = row
      BY <1>5 DEF Escalate
    <2> HIDE DEF next
    <2>4. QED
      BY <2>1, <2>2, <2>3, Became DEF CallStep
  <1>6. CASE TransitionWrite(d) \/ AssignWrite(d) \/ UpdateWrite(d)
    BY <1>1, <1>6 DEF TransitionWrite, AssignWrite, UpdateWrite, VersionedWrite
  <1>7. CASE \/ \E owner \in SUBSET OwnerKinds : TransferPick(d, owner)
             \/ ReplyWrite(d) \/ NotEscalated(d) \/ Crash(d)
    BY <1>1, <1>7 DEF TransferPick, ReplyWrite, NotEscalated, Crash
  <1>8. ASSUME NEW next, Become(d, next), row' = row, k.pc \in {"enters", "leaves"},
               next.pc \in {"leaves", "transition"},
               next.req = k.req, next.read = k.read, next.to = k.to
        PROVE  CallStep(c)
    BY <1>8, Became DEF CallStep
  <1>9. CASE JudgeEntered(d)
    <2>1. PICK list \in {pauses, {}} :
            Become(d, [k EXCEPT !.pc = "leaves", !.enters = list \cap Concerns(k)])
      BY <1>9 DEF JudgeEntered
    <2> DEFINE next == [k EXCEPT !.pc = "leaves", !.enters = list \cap Concerns(k)]
    <2>2. /\ next.pc = "leaves" /\ next.req = k.req /\ next.read = k.read /\ next.to = k.to
      <3>1. k \in Call
        BY <1>9, StepsAreOfCalls, ActiveCall DEF VersionedStep
      <3>2. QED
        BY <3>1 DEF Call
    <2>3. row' = row /\ k.pc = "enters" /\ Become(d, next)
      BY <1>9, <2>1 DEF JudgeEntered, At
    <2> HIDE DEF next
    <2>4. QED
      BY <1>8, <2>2, <2>3
  <1>10. CASE JudgeLeft(d)
    <2>1. PICK list \in {pauses, {}} :
            Become(d, [k EXCEPT !.pc = "transition", !.leaves = list \cap Concerns(k)])
      BY <1>10 DEF JudgeLeft
    <2> DEFINE next == [k EXCEPT !.pc = "transition", !.leaves = list \cap Concerns(k)]
    <2>2. /\ next.pc = "transition" /\ next.req = k.req /\ next.read = k.read
          /\ next.to = k.to
      <3>1. k \in Call
        BY <1>10, StepsAreOfCalls, ActiveCall DEF VersionedStep
      <3>2. QED
        BY <3>1 DEF Call
    <2>3. row' = row /\ k.pc = "leaves" /\ Become(d, next)
      BY <1>10, <2>1 DEF JudgeLeft, At
    <2> HIDE DEF next
    <2>4. QED
      BY <1>8, <2>2, <2>3
  <1>11. QED
    BY <1>2, <1>3, <1>4, <1>5, <1>6, <1>7, <1>9, <1>10 DEF VersionedStep, UnversionedStep

LEMMA NextCall ==
  ASSUME TypeInv, [Next]_vars, NEW c \in Callers
  PROVE  CallStep(c)
  <1>1. CASE UNCHANGED vars
    BY <1>1 DEF vars, CallStep
  <1>2. CASE \E d \in Callers, r \in RequestIds : VersionedCall(d, r)
    BY <1>2, VersionedCallStep
  <1>3. CASE \E d \in Callers, r \in RequestIds : UnversionedCall(d, r)
    BY <1>3, UnversionedCallStep
  <1>4. CASE \E d \in Callers : VersionedStep(d) \/ UnversionedStep(d) \/ Crash(d)
    BY <1>4, ProgressCallStep
  <1>5. CASE \E r \in RequestIds : Environment(r)
    <2>1. call' = call
      BY <1>5 DEF Environment, Create, AddComment, DeadlinePasses
    <2>2. QED
      BY <2>1 DEF CallStep
  <1>6. CASE \E list \in PauseLists : EditPolicy(list)
    BY <1>6 DEF EditPolicy, CallStep
  <1>7. QED
    BY <1>1, <1>2, <1>3, <1>4, <1>5, <1>6 DEF Next, VersionedNext

-----------------------------------------------------------------------------
(* What survives every interleaving.                                       *)

(* What one call remembers of the first response is still true: the stamp  *)
(* is never taken back.                                                    *)
Begun(status) == status \notin {"new", "triaged", "assigned"}

RemembersResponse(c) ==
    call[c] # Idle =>
      /\ call[c].read.responded => row[call[c].req].responded
      /\ Begun(call[c].read.status) => call[c].read.responded

AssignsOneOwner(c) == call[c].pc = "assign" => SingleOwner(call[c].owner)

ResponseInv ==
    /\ TypeInv
    /\ StartedIsResponded
    /\ \A c \in Callers : RemembersResponse(c)

LEMMA ResponseIsKept ==
  ASSUME TypeInv, [Next]_vars, NEW r \in RequestIds, Exists(r), row[r].responded
  PROVE  row'[r].responded
  <1>1. RowStep(r) /\ row[r] \in Row
    BY NextRow DEF TypeInv, TypeOK, Exists
  <1>2. CASE Annotation(r)
    BY <1>1, <1>2 DEF Annotation, Row
  <1>3. ASSUME NEW c \in Callers, LockedWrite(c, r)
        PROVE  row'[r].responded
    BY <1>1, <1>3 DEF LockedWrite, Moved, Assigned, Edited, Row
  <1>4. ASSUME NEW c \in Callers, UnlockedWrite(c, r)
        PROVE  row'[r].responded
    BY <1>1, <1>4 DEF UnlockedWrite, Transferred, Picked, Row
  <1>5. CASE row'[r] = row[r] \/ row'[r] = [row[r] EXCEPT !.merged = TRUE]
    BY <1>1, <1>5 DEF Row
  <1>6. QED
    BY <1>1, <1>2, <1>3, <1>4, <1>5 DEF RowStep, LockedRowStep, Opened

LEMMA RemembersResponseStep ==
  ASSUME ResponseInv, [Next]_vars, NEW c \in Callers
  PROVE  RemembersResponse(c)'
  <1>1. TypeInv /\ CallStep(c)
    BY NextCall DEF ResponseInv
  <1>2. CASE call'[c] = Idle
    BY <1>2 DEF RemembersResponse
  <1>3. ASSUME call[c] # Idle, call'[c].req = call[c].req, call'[c].read = call[c].read
        PROVE  RemembersResponse(c)'
    <2>1. call[c].req \in RequestIds /\ Exists(call[c].req)
      BY <1>1, <1>3, ActiveCall DEF TypeInv, CallsHaveRows
    <2>2. row[call[c].req].responded => row'[call[c].req].responded
      BY <1>1, <2>1, ResponseIsKept
    <2>3. QED
      BY <1>3, <2>2 DEF ResponseInv, RemembersResponse
  <1>4. CASE call'[c] = call[c]
    BY <1>2, <1>3, <1>4
  <1>5. CASE call'[c].read = NewRow({}, NoQueue)
    BY <1>5 DEF RemembersResponse, NewRow, Begun
  <1>6. ASSUME row' = row, NEW r \in RequestIds, Exists(r),
               call'[c].req = r, call'[c].read = Snapshot(r)
        PROVE  RemembersResponse(c)'
    <2>1. row[r] \in Row /\ (Begun(row[r].status) => row[r].responded)
      BY <1>1, <1>6 DEF ResponseInv, StartedIsResponded, Begun, TypeInv, TypeOK, Exists
    <2>2. /\ Snapshot(r).responded = row[r].responded
          /\ Snapshot(r).status = row[r].status
      BY <2>1 DEF Snapshot, Row
    <2>3. QED
      BY <1>6, <2>1, <2>2 DEF RemembersResponse
  <1>7. CASE /\ call[c].pc \in {"enters", "leaves"}
             /\ call'[c].req = call[c].req /\ call'[c].read = call[c].read
    BY <1>3, <1>7 DEF Idle
  <1>8. QED
    BY <1>1, <1>2, <1>3, <1>4, <1>5, <1>6, <1>7 DEF CallStep

LEMMA StartedIsRespondedStep ==
  ASSUME ResponseInv, [Next]_vars
  PROVE  StartedIsResponded'
  <1> SUFFICES ASSUME NEW r \in RequestIds, Exists(r)', Begun(row'[r].status)
               PROVE  row'[r].responded
    BY DEF StartedIsResponded, Begun
  <1>1. TypeInv /\ RowStep(r)
    BY NextRow DEF ResponseInv
  <1>2. Exists(r) => row[r] \in Row /\ (Begun(row[r].status) => row[r].responded)
    BY <1>1 DEF ResponseInv, StartedIsResponded, Begun, TypeInv, TypeOK, Exists
  <1>3. CASE Opened(r)
    BY <1>3 DEF Opened, NewRow, Begun
  <1>4. ASSUME NEW c \in Callers, Exists(r), LockedWrite(c, r)
        PROVE  row'[r].responded
    <2> DEFINE k == call[c]
    <2>1. /\ k.read \in Row /\ k.req = r
          /\ k.read.responded => row[r].responded
      BY <1>1, <1>4, ActiveCall DEF LockedWrite, ResponseInv, RemembersResponse, Call
    <2>2. CASE row'[r] = Moved(row[r], k.read, k.to, Enters(k), Leaves(k))
      BY <1>2, <1>4, <2>1, <2>2 DEF Moved, Responding, Row, Begun
    <2>3. CASE row'[r] = Assigned(row[r], k.read, k.owner)
      BY <1>2, <1>4, <2>1, <2>3 DEF Assigned, Row, Begun
    <2>4. CASE \E late \in BOOLEAN : row'[r] = Edited(row[r], k.read, late)
      BY <1>2, <1>4, <2>4 DEF Edited, Row
    <2>5. QED
      BY <1>4, <2>2, <2>3, <2>4 DEF LockedWrite
  <1>5. ASSUME NEW c \in Callers, Exists(r), UnlockedWrite(c, r)
        PROVE  row'[r].responded
    <2> DEFINE k == call[c]
    <2>1. CASE row'[r] = Transferred(row[r], k.read, k.queue, k.clear)
      BY <1>2, <1>5, <2>1 DEF Transferred, Row, Begun
    <2>2. CASE \E owner \in SUBSET OwnerKinds : row'[r] = Picked(row[r], owner)
      BY <1>2, <1>5, <2>2 DEF Picked, Row, Begun
    <2>3. CASE k.read.status = "waiting_citizen"
               /\ row'[r] = [row[r] EXCEPT !.status = "in_progress"]
      BY <1>2, <1>5, <2>3 DEF UnlockedWrite, ResponseInv, RemembersResponse, Row, Begun
    <2>4. QED
      BY <1>5, <2>1, <2>2, <2>3 DEF UnlockedWrite
  <1>6. CASE Exists(r) /\ Annotation(r)
    BY <1>2, <1>6 DEF Annotation, Row
  <1>7. CASE Exists(r) /\ row'[r] = [row[r] EXCEPT !.merged = TRUE]
    BY <1>2, <1>7 DEF Row
  <1>8. CASE row'[r] = row[r]
    BY <1>2, <1>8 DEF Exists
  <1>9. QED
    BY <1>1, <1>3, <1>4, <1>5, <1>6, <1>7, <1>8 DEF RowStep, LockedRowStep

(* Whatever the unversioned writes do, a request whose status says work    *)
(* has begun carries first_response_at: the response target is never       *)
(* reported missed on it for want of the stamp.                            *)
THEOREM ResponsesAreStamped == Spec => []StartedIsResponded
  <1>1. Init => ResponseInv
    BY InitType DEF Init, ResponseInv, StartedIsResponded, RemembersResponse, Exists
  <1>2. ResponseInv /\ [Next]_vars => ResponseInv'
    BY NextType, RemembersResponseStep, StartedIsRespondedStep DEF ResponseInv
  <1>3. ResponseInv => StartedIsResponded
    BY DEF ResponseInv
  <1>4. QED
    BY <1>1, <1>2, <1>3, PTL DEF Spec

Stamped(req) ==
    /\ Terminal(req.status) => req.closed
    /\ req.status = "resolved" => req.resolved

LEMMA FinishedIsStampedStep ==
  ASSUME TypeInv, FinishedIsStamped, [Next]_vars
  PROVE  FinishedIsStamped'
  <1> SUFFICES ASSUME NEW r \in RequestIds, Exists(r)'
               PROVE  Stamped(row'[r])
    BY DEF FinishedIsStamped, Stamped
  <1>1. RowStep(r)
    BY NextRow
  <1>2. Exists(r) => row[r] \in Row /\ Stamped(row[r])
    BY DEF FinishedIsStamped, Stamped, TypeInv, TypeOK, Exists
  <1>3. CASE Opened(r)
    BY <1>3 DEF Opened, NewRow, Stamped, Terminal
  <1>4. ASSUME NEW c \in Callers, Exists(r), LockedWrite(c, r)
        PROVE  Stamped(row'[r])
    <2> DEFINE k == call[c]
    <2>1. CASE row'[r] = Moved(row[r], k.read, k.to, Enters(k), Leaves(k))
      BY <1>2, <1>4, <2>1 DEF Moved, Closing, Row, Stamped, Terminal, Reopening
    <2>2. CASE row'[r] = Assigned(row[r], k.read, k.owner)
      BY <1>2, <1>4, <2>2 DEF Assigned, Row, Stamped, Terminal
    <2>3. CASE \E late \in BOOLEAN : row'[r] = Edited(row[r], k.read, late)
      BY <1>2, <1>4, <2>3 DEF Edited, Row, Stamped
    <2>4. QED
      BY <1>4, <2>1, <2>2, <2>3 DEF LockedWrite
  <1>5. ASSUME NEW c \in Callers, Exists(r), UnlockedWrite(c, r)
        PROVE  Stamped(row'[r])
    BY <1>2, <1>5 DEF UnlockedWrite, Transferred, Picked, Row, Stamped, Terminal
  <1>6. CASE Exists(r) /\ Annotation(r)
    BY <1>2, <1>6 DEF Annotation, Row, Stamped
  <1>7. CASE Exists(r) /\ row'[r] = [row[r] EXCEPT !.merged = TRUE]
    BY <1>2, <1>7 DEF Row, Stamped
  <1>8. CASE row'[r] = row[r]
    BY <1>2, <1>8 DEF Exists
  <1>9. QED
    BY <1>1, <1>3, <1>4, <1>5, <1>6, <1>7, <1>8 DEF RowStep, LockedRowStep

(* No unversioned write can leave a request closed, cancelled or resolved  *)
(* without the timestamp that retention and auto-close select it by.       *)
THEOREM FinishedRequestsAreStamped == Spec => []FinishedIsStamped
  <1>1. Init => FinishedIsStamped
    BY DEF Init, FinishedIsStamped, Exists
  <1>2. TypeInv /\ FinishedIsStamped /\ [Next]_vars => FinishedIsStamped'
    BY FinishedIsStampedStep
  <1>3. QED
    BY <1>1, <1>2, TypeInvHolds, PTL DEF Spec

(* The stamps of a finished request and of the first response together, of *)
(* every interleaving of the operations in requests and jobs.              *)
THEOREM StampsAlwaysKeepUp == Spec => []StampsKeepUp
  <1>1. FinishedIsStamped /\ StartedIsResponded => StampsKeepUp
    BY DEF StampsKeepUp
  <1>2. QED
    BY <1>1, FinishedRequestsAreStamped, ResponsesAreStamped, PTL

OwnerInv == TypeInv /\ \A c \in Callers : AssignsOneOwner(c)

LEMMA OwnerInvStep == OwnerInv /\ [Next]_vars => OwnerInv'
  <1> SUFFICES ASSUME OwnerInv, [Next]_vars
               PROVE  OwnerInv'
    OBVIOUS
  <1>1. TypeInv'
    BY NextType DEF OwnerInv
  <1>2. ASSUME NEW c \in Callers
        PROVE  AssignsOneOwner(c)'
    <2>1. CallStep(c)
      BY NextCall DEF OwnerInv
    <2>2. QED
      BY <2>1 DEF CallStep, AssignsOneOwner, OwnerInv, Idle
  <1>3. QED
    BY <1>1, <1>2 DEF OwnerInv

(* However assignments, transfers, picks and escalations interleave, none  *)
(* of them gives a request with one kind of owner a second kind.           *)
THEOREM OwnersStaySingle == Spec => OwnerStaysSingle
  <1>1. Init => OwnerInv
    BY InitType DEF Init, OwnerInv, AssignsOneOwner, Idle
  <1>2. OwnerInv /\ [Next]_vars
          => [\A r \in RequestIds : Exists(r) /\ SingleOwner(row[r].owner)
                => SingleOwner(row'[r].owner)]_row
    <2> SUFFICES ASSUME OwnerInv, [Next]_vars, NEW r \in RequestIds,
                        Exists(r), SingleOwner(row[r].owner)
                 PROVE  SingleOwner(row'[r].owner)
      OBVIOUS
    <2>1. RowStep(r) /\ row[r] \in Row
      BY NextRow DEF OwnerInv, TypeInv, TypeOK, Exists
    <2>2. CASE Annotation(r)
      BY <2>1, <2>2 DEF Annotation, Row
    <2>3. ASSUME NEW c \in Callers, LockedWrite(c, r)
          PROVE  SingleOwner(row'[r].owner)
      BY <2>1, <2>3 DEF LockedWrite, Moved, Assigned, Edited, Row, OwnerInv,
           AssignsOneOwner
    <2>4. ASSUME NEW c \in Callers, UnlockedWrite(c, r)
          PROVE  SingleOwner(row'[r].owner)
      BY <2>1, <2>4 DEF UnlockedWrite, Transferred, Picked, Row, SingleOwner
    <2>5. CASE row'[r] = row[r] \/ row'[r] = [row[r] EXCEPT !.merged = TRUE]
      BY <2>1, <2>5 DEF Row
    <2>6. QED
      BY <2>1, <2>2, <2>3, <2>4, <2>5 DEF RowStep, LockedRowStep, Opened
  <1>3. QED
    BY <1>1, <1>2, OwnerInvStep, PTL DEF Spec, OwnerStaysSingle
-----------------------------------------------------------------------------
(* The operations that go through the optimistic lock: together they       *)
(* behave as if each ran alone, so the status machine and the timestamps   *)
(* can be read off one call at a time.                                     *)

(* The inductive invariant.                                                *)

Unmerged == \A r \in RequestIds : Exists(r) => ~row[r].merged

(***************************************************************************)
(* A call about to write under the lock either holds the row as it is, in  *)
(* everything the lock protects, or holds an older version and will fail.  *)
(* "Older" has to be said: without it a version could come back to what    *)
(* the call read with other columns under it, and ReadIsCurrent alone      *)
(* would not survive another call's write.                                 *)
(***************************************************************************)
Judging(pc) == pc \in {"enters", "leaves", "transition"}

Locking(c) == Judging(call[c].pc) \/ call[c].pc \in {"assign", "update"}

SnapshotHolds(c) ==
    LET k   == call[c]
        cur == row[k.req]
    IN Locking(c) =>
         /\ k.read.version <= cur.version
         /\ k.read.version = cur.version => SameProtected(cur, k.read)
         /\ k.read.responded => cur.responded
         /\ Judging(k.pc) => Admits(k.read, k.to)
         /\ k.pc = "assign" => SingleOwner(k.owner)

LockInv ==
    /\ TypeInv
    /\ Unmerged
    /\ \A c \in Callers : SnapshotHolds(c)

-----------------------------------------------------------------------------
(* A write that passes the version check is the write the operation would  *)
(* make on the row as it is now.                                           *)

TransitionNow(r) ==
    /\ \E c \in Callers : Moves(c, r)
    /\ \E to \in Statuses, enters \in BOOLEAN, leaves \in BOOLEAN :
         Admits(row[r], to) /\ row'[r] = Moved(row[r], row[r], to, enters, leaves)

AssignNow(r) ==
    \E owner \in SUBSET OwnerKinds :
      SingleOwner(owner) /\ row'[r] = Assigned(row[r], row[r], owner)

EditNow(r) == \E late \in BOOLEAN : row'[r] = Edited(row[r], row[r], late)

LEMMA SameMove ==
  ASSUME NEW cur \in Row, NEW read \in Row, NEW to, NEW enters, NEW leaves,
         SameProtected(cur, read), read.version = cur.version,
         read.responded => cur.responded
  PROVE  Moved(cur, read, to, enters, leaves) = Moved(cur, cur, to, enters, leaves)
  <1>1. /\ read.status = cur.status /\ read.paused = cur.paused
        /\ read.resolved = cur.resolved
    BY DEF SameProtected
  <1>2. (cur.responded \/ Responding(read, to)) = (cur.responded \/ Responding(cur, to))
    BY DEF Row, Responding
  <1>3. Resuming(read, enters, leaves) = Resuming(cur, enters, leaves)
    BY <1>1 DEF Resuming
  <1>4. QED
    BY <1>1, <1>2, <1>3 DEF Moved

LEMMA SameAssign ==
  ASSUME NEW cur \in Row, NEW read \in Row, NEW owner,
         SameProtected(cur, read), read.version = cur.version,
         read.responded => cur.responded
  PROVE  Assigned(cur, read, owner) = Assigned(cur, cur, owner)
  <1>1. read.status = cur.status
    BY DEF SameProtected
  <1>2. (cur.responded \/ (~read.responded /\ owner # {}))
          = (cur.responded \/ (~cur.responded /\ owner # {}))
    BY DEF Row
  <1>3. QED
    BY <1>1, <1>2 DEF Assigned

LEMMA LockedWriteNow ==
  ASSUME LockInv, NEW c \in Callers, NEW r \in RequestIds, Exists(r),
         LockedWrite(c, r)
  PROVE  TransitionNow(r) \/ AssignNow(r) \/ EditNow(r)
  <1> DEFINE k == call[c]
             cur == row[r]
  <1>1. /\ k.req = r /\ k.read \in Row /\ k.to \in Statuses
        /\ k.owner \in SUBSET OwnerKinds /\ cur \in Row
        /\ Enters(k) \in BOOLEAN /\ Leaves(k) \in BOOLEAN
    BY ActiveCall DEF LockInv, LockedWrite, Call, Enters, Leaves
  <1>2. /\ SameProtected(cur, k.read) /\ k.read.version = cur.version
        /\ k.read.responded => cur.responded
        /\ k.pc = "transition" => Admits(k.read, k.to)
        /\ k.pc = "assign" => SingleOwner(k.owner)
    BY <1>1 DEF LockInv, SnapshotHolds, Locking, Judging, LockedWrite, Current
  <1>3. CASE /\ k.pc = "transition" /\ Moves(c, r)
             /\ row'[r] = Moved(cur, k.read, k.to, Enters(k), Leaves(k))
    <2>1. ~cur.merged /\ k.read.status = cur.status
      BY <1>2 DEF LockInv, Unmerged, SameProtected
    <2>2. Admits(cur, k.to)
      BY <1>2, <1>3, <2>1 DEF Admits
    <2>3. row'[r] = Moved(cur, cur, k.to, Enters(k), Leaves(k))
      BY <1>1, <1>2, <1>3, SameMove
    <2>4. QED
      BY <1>1, <1>3, <2>2, <2>3 DEF TransitionNow
  <1>4. CASE k.pc = "assign" /\ row'[r] = Assigned(cur, k.read, k.owner)
    <2>1. row'[r] = Assigned(cur, cur, k.owner)
      BY <1>1, <1>2, <1>4, SameAssign
    <2>2. QED
      BY <1>1, <1>2, <1>4, <2>1 DEF AssignNow
  <1>5. CASE \E late \in BOOLEAN : row'[r] = Edited(cur, k.read, late)
    BY <1>2, <1>5 DEF Edited, EditNow
  <1>6. QED
    BY <1>3, <1>4, <1>5 DEF LockedWrite

(* All that a step of the lock's operations can do to a request.           *)
LEMMA StepNow ==
  ASSUME LockInv, [VersionedNext]_vars, NEW r \in RequestIds
  PROVE  \/ row'[r] = row[r]
         \/ Opened(r)
         \/ /\ Exists(r) /\ row[r] \in Row
            /\ Annotation(r) \/ TransitionNow(r) \/ AssignNow(r) \/ EditNow(r)
  <1>1. LockedRowStep(r)
    BY VersionedRow DEF LockInv
  <1>2. Exists(r) => row[r] \in Row
    BY DEF LockInv, TypeInv, TypeOK, Exists
  <1>3. QED
    BY <1>1, <1>2, LockedWriteNow DEF LockedRowStep

-----------------------------------------------------------------------------
(* The invariant is inductive.                                             *)

LEMMA UnmergedStep ==
  ASSUME LockInv, [VersionedNext]_vars
  PROVE  Unmerged'
  <1> SUFFICES ASSUME NEW r \in RequestIds, Exists(r)'
               PROVE  ~row'[r].merged
    BY DEF Unmerged
  <1>1. Exists(r) => ~row[r].merged
    BY DEF LockInv, Unmerged
  <1>2. CASE row'[r] = row[r]
    BY <1>1, <1>2 DEF Exists
  <1>3. CASE Opened(r)
    BY <1>3 DEF Opened, NewRow
  <1>4. CASE /\ Exists(r) /\ row[r] \in Row
             /\ Annotation(r) \/ TransitionNow(r) \/ AssignNow(r) \/ EditNow(r)
    BY <1>1, <1>4 DEF Annotation, TransitionNow, AssignNow, EditNow, Moved,
         Assigned, Edited, Row
  <1>5. QED
    BY <1>2, <1>3, <1>4, StepNow

(* A step leaves what the lock protects alone or raises the version.       *)
LEMMA VersionsGrow ==
  ASSUME LockInv, [VersionedNext]_vars, NEW r \in RequestIds, Exists(r)
  PROVE  \/ SameProtected(row'[r], row[r]) /\ row'[r].version = row[r].version
         \/ row'[r].version = row[r].version + 1
  <1>1. CASE row'[r] = row[r]
    BY <1>1 DEF SameProtected
  <1>2. CASE row[r] \in Row /\ Annotation(r)
    BY <1>2 DEF Annotation, SameProtected, Row
  <1>3. CASE row[r] \in Row /\ (TransitionNow(r) \/ AssignNow(r) \/ EditNow(r))
    BY <1>3 DEF TransitionNow, AssignNow, EditNow, Moved, Assigned, Edited, Row
  <1>4. QED
    BY <1>1, <1>2, <1>3, StepNow DEF Opened

LEMMA SnapshotHoldsStep ==
  ASSUME LockInv, [VersionedNext]_vars, NEW c \in Callers
  PROVE  SnapshotHolds(c)'
  <1>1. TypeInv /\ [Next]_vars
    BY DEF LockInv, Next
  <1>2. ASSUME Locking(c), call'[c].req = call[c].req, call'[c].read = call[c].read,
               call'[c].to = call[c].to, call'[c].owner = call[c].owner \/ call'[c].pc # "assign",
               call'[c].pc = "assign" => call[c].pc = "assign",
               Judging(call'[c].pc) => Judging(call[c].pc)
        PROVE  SnapshotHolds(c)'
    <2> DEFINE k == call[c]
               r == k.req
    <2>1. /\ r \in RequestIds /\ Exists(r) /\ k.read \in Row /\ row[r] \in Row
      <3>1. call[c] # Idle
        BY <1>2 DEF Locking, Judging, Idle
      <3>2. QED
        BY <1>1, <3>1, ActiveCall DEF TypeInv, CallsHaveRows, Call
    <2>2. SnapshotHolds(c)
      BY DEF LockInv
    <2>3. k.read.version \in Nat /\ row[r].version \in Nat
      BY <2>1 DEF Row
    <2>4. row[r].responded => row'[r].responded
      BY <1>1, <2>1, ResponseIsKept
    <2>5. CASE SameProtected(row'[r], row[r]) /\ row'[r].version = row[r].version
      BY <1>2, <2>2, <2>4, <2>5 DEF SnapshotHolds, Locking, SameProtected
    <2>6. CASE row'[r].version = row[r].version + 1
      <3>1. k.read.version <= row'[r].version /\ k.read.version # row'[r].version
        BY <1>2, <2>2, <2>3, <2>6 DEF SnapshotHolds
      <3>2. QED
        BY <1>2, <2>2, <2>4, <3>1 DEF SnapshotHolds, Locking
    <2>7. QED
      BY <2>1, <2>5, <2>6, VersionsGrow
  <1>3. CASE row' = row /\ \E r \in RequestIds :
               /\ Exists(r) /\ call'[c].req = r /\ call'[c].read = Snapshot(r)
               /\ call'[c].pc = "enters" => Admits(row[r], call'[c].to)
               /\ call'[c].pc \notin {"leaves", "transition"}
               /\ call'[c].pc = "assign" => SingleOwner(call'[c].owner)
    <2>1. PICK r \in RequestIds :
               /\ Exists(r) /\ call'[c].req = r /\ call'[c].read = Snapshot(r)
               /\ call'[c].pc = "enters" => Admits(row[r], call'[c].to)
               /\ call'[c].pc \notin {"leaves", "transition"}
               /\ call'[c].pc = "assign" => SingleOwner(call'[c].owner)
      BY <1>3
    <2>2. row[r] \in Row
      BY <1>1, <2>1 DEF TypeInv, TypeOK, Exists
    <2>3. /\ SameProtected(row[r], Snapshot(r)) /\ Snapshot(r).version = row[r].version
          /\ Snapshot(r).responded = row[r].responded
          /\ Admits(row[r], call'[c].to) => Admits(Snapshot(r), call'[c].to)
      BY <2>2 DEF Snapshot, SameProtected, Admits, Row
    <2>4. Snapshot(r).version <= row[r].version
      BY <2>2, <2>3 DEF Row
    <2>5. QED
      BY <1>3, <2>1, <2>3, <2>4 DEF SnapshotHolds, Locking, Judging
  <1>4. CASE call'[c] = Idle \/ call'[c].pc \in {"recheck", "flag", "pick", "escalate"}
    BY <1>4 DEF SnapshotHolds, Locking, Judging, Idle
  <1>5. CASE call'[c] = call[c] /\ ~Locking(c)
    BY <1>5 DEF SnapshotHolds, Locking
  <1>6. CASE call'[c] = call[c] /\ Locking(c)
    BY <1>2, <1>6
  <1>7. CASE /\ call[c].pc \in {"enters", "leaves"} /\ call'[c].pc \in {"leaves", "transition"}
             /\ call'[c].req = call[c].req /\ call'[c].read = call[c].read
             /\ call'[c].to = call[c].to
    BY <1>2, <1>7 DEF Locking, Judging
  <1>8. QED
    BY <1>1, <1>3, <1>4, <1>5, <1>6, <1>7, NextCall DEF CallStep

LEMMA LockInvStep == LockInv /\ [VersionedNext]_vars => LockInv'
  <1> SUFFICES ASSUME LockInv, [VersionedNext]_vars
               PROVE  LockInv'
    OBVIOUS
  <1>1. TypeInv'
    BY NextType DEF LockInv, Next
  <1>2. QED
    BY <1>1, UnmergedStep, SnapshotHoldsStep DEF LockInv

LEMMA LockInvHolds == VersionedSpec => []LockInv
  <1>1. Init => LockInv
    BY InitType DEF Init, LockInv, Unmerged, SnapshotHolds, Locking, Judging, Exists, Idle
  <1>2. QED
    BY <1>1, LockInvStep, PTL DEF VersionedSpec

(* While the version a call read is still the row's, so is everything the  *)
(* lock protects: the checks made before the UPDATE still hold at it.      *)
THEOREM ReadsAreCurrent == VersionedSpec => []ReadIsCurrent
  <1>1. LockInv => ReadIsCurrent
    BY DEF LockInv, ReadIsCurrent, SnapshotHolds, Locking, Judging, Current
  <1>2. QED
    BY <1>1, LockInvHolds, PTL

(* Under the lock no interleaving moves a request along an edge that       *)
(* allowedTransitions does not have.                                       *)
THEOREM StatusMovesAreLegal == VersionedSpec => MovesAreLegal
  <1>1. LockInv /\ [VersionedNext]_vars
          => [\A r \in RequestIds : Exists(r) /\ row'[r].status # row[r].status
                => CanTransitionTo(row[r].status, row'[r].status)]_row
    <2> SUFFICES ASSUME LockInv, [VersionedNext]_vars, NEW r \in RequestIds,
                        Exists(r), row'[r].status # row[r].status
                 PROVE  CanTransitionTo(row[r].status, row'[r].status)
      OBVIOUS
    <2>1. /\ row[r] \in Row
          /\ Annotation(r) \/ TransitionNow(r) \/ AssignNow(r) \/ EditNow(r)
      BY StepNow DEF Opened
    <2>2. CASE TransitionNow(r)
      BY <2>1, <2>2 DEF TransitionNow, Admits, Moved, Row
    <2>3. CASE AssignNow(r)
      BY <2>1, <2>3 DEF AssignNow, Assigned, Row, CanTransitionTo,
           allowedTransitions, Statuses
    <2>4. CASE Annotation(r) \/ EditNow(r)
      BY <2>1, <2>4 DEF Annotation, EditNow, Edited, Row
    <2>5. QED
      BY <2>1, <2>2, <2>3, <2>4
  <1>2. QED
    BY <1>1, LockInvHolds, PTL DEF VersionedSpec, MovesAreLegal

StampsFollow(req) ==
    /\ req.closed <=> Terminal(req.status)
    /\ req.resolved <=> req.status \in {"resolved", "closed"}

LEMMA MovedStamps ==
  ASSUME NEW cur \in Row, NEW to \in Statuses, NEW enters, NEW leaves,
         Admits(cur, to), StampsFollow(cur)
  PROVE  StampsFollow(Moved(cur, cur, to, enters, leaves))
  <1> DEFINE new == Moved(cur, cur, to, enters, leaves)
             reopening == Reopening(cur.status, to)
             closed == (cur.closed \/ Closing(to)) /\ ~reopening
             resolved == (cur.resolved \/ to = "resolved" \/ (to = "closed" /\ ~cur.resolved))
                           /\ ~reopening
  <1>1. /\ cur.status \in Statuses /\ to \in allowedTransitions[cur.status]
    BY DEF Admits, CanTransitionTo, Row
  <1>2. new.status = to /\ (new.closed <=> closed) /\ (new.resolved <=> resolved)
    <2>1. new.status = to
      BY DEF Moved, Row
    <2>2. new.closed = closed
      BY DEF Moved, Row
    <2>3. new.resolved = resolved
      BY DEF Moved, Row
    <2>4. QED
      BY <2>1, <2>2, <2>3
  <1>3. cur.status \in {"closed", "cancelled", "resolved"} => to \in {"in_progress", "closed"}
    BY <1>1 DEF allowedTransitions
  <1>4. reopening <=> cur.status \in {"resolved", "closed", "cancelled"} /\ to = "in_progress"
    BY DEF Reopening
  <1>5. cur.status = "cancelled" => to = "in_progress"
    BY <1>1 DEF allowedTransitions
  <1>6. cur.status = "closed" => to = "in_progress"
    BY <1>1 DEF allowedTransitions
  <1> SUFFICES StampsFollow(new)
    OBVIOUS
  <1> HIDE DEF new
  <1>7. CASE reopening
    BY <1>2, <1>4, <1>7 DEF StampsFollow, Terminal
  <1>8. CASE ~reopening
    <2>1. /\ cur.status \notin {"closed", "cancelled"}
          /\ cur.status = "resolved" => to = "closed"
      BY <1>3, <1>4, <1>5, <1>6, <1>8
    <2>2. /\ ~cur.closed
          /\ cur.resolved <=> cur.status = "resolved"
      BY <2>1 DEF StampsFollow, Terminal
    <2>3. new.closed <=> Terminal(to)
      BY <1>2, <1>8, <2>2 DEF Closing, Terminal
    <2>4. new.resolved <=> to \in {"resolved", "closed"}
      BY <1>2, <1>8, <2>1, <2>2
    <2>5. QED
      BY <1>2, <2>3, <2>4 DEF StampsFollow
  <1>9. QED
    BY <1>7, <1>8

(* Under the lock resolved_at and closed_at say exactly what the status    *)
(* says, so the sweeps and reports that select by them miss nothing.       *)
THEOREM StampsAreExact == VersionedSpec => []StampsFollowStatus
  <1>1. Init => StampsFollowStatus
    BY DEF Init, StampsFollowStatus, Exists
  <1>2. LockInv /\ StampsFollowStatus /\ [VersionedNext]_vars => StampsFollowStatus'
    <2> SUFFICES ASSUME LockInv, StampsFollowStatus, [VersionedNext]_vars,
                        NEW r \in RequestIds, Exists(r)'
                 PROVE  StampsFollow(row'[r])
      BY DEF StampsFollowStatus, StampsFollow
    <2>1. Exists(r) => StampsFollow(row[r])
      BY DEF StampsFollowStatus, StampsFollow
    <2>2. CASE row'[r] = row[r]
      BY <2>1, <2>2 DEF Exists
    <2>3. CASE Opened(r)
      BY <2>3 DEF Opened, NewRow, StampsFollow, Terminal
    <2>4. CASE Exists(r) /\ row[r] \in Row /\ TransitionNow(r)
      BY <2>1, <2>4, MovedStamps DEF TransitionNow
    <2>5. CASE Exists(r) /\ row[r] \in Row /\ AssignNow(r)
      BY <2>1, <2>5 DEF AssignNow, Assigned, StampsFollow, Terminal, Row
    <2>6. CASE Exists(r) /\ row[r] \in Row /\ (Annotation(r) \/ EditNow(r))
      BY <2>1, <2>6 DEF Annotation, EditNow, Edited, StampsFollow, Row
    <2>7. QED
      BY <2>2, <2>3, <2>4, <2>5, <2>6, StepNow
  <1>3. QED
    BY <1>1, <1>2, LockInvHolds, PTL DEF VersionedSpec

ClockAgrees(r) == row[r].paused <=> row[r].status \in pauses

(* A step that does not move r neither forgives what an edit did to its    *)
(* clock nor edits the list without saying which requests it touches.      *)
LEMMA PolicyStep ==
  ASSUME LockInv, [VersionedNext]_vars, NEW r \in RequestIds, r \notin unsettled',
         ~\E c \in Callers : Moves(c, r)
  PROVE  /\ r \notin unsettled
         /\ \/ pauses' = pauses
            \/ /\ row' = row
               /\ Exists(r) => (row[r].status \in pauses <=> row[r].status \in pauses')
  <1>1. CASE UNCHANGED policy
    BY <1>1 DEF policy
  <1>2. ASSUME NEW c \in Callers, TransitionWrite(c)
        PROVE  r \notin unsettled /\ pauses' = pauses
    <2>1. pauses' = pauses /\ Settle(c)
      BY <1>2 DEF TransitionWrite, VersionedWrite
    <2>2. call[c].req # r \/ ~Current(c)
      BY <1>2 DEF Moves
    <2>3. QED
      BY <2>1, <2>2 DEF Settle
  <1>3. CASE \E list \in PauseLists : EditPolicy(list)
    BY <1>3 DEF EditPolicy
  <1>4. CASE UNCHANGED vars
    BY <1>1, <1>4 DEF vars, policy
  <1>5. CASE \E c \in Callers, s \in RequestIds : VersionedCall(c, s)
    BY <1>1, <1>5 DEF VersionedCall, TransitionRead, Cancel, AutoClose, AssignRead,
       UpdateRead, SlaSelect, Accept, Select
  <1>6. CASE \E c \in Callers : (VersionedStep(c) /\ ~TransitionWrite(c)) \/ Crash(c)
    <2>1. PICK c \in Callers : (VersionedStep(c) /\ ~TransitionWrite(c)) \/ Crash(c)
      BY <1>6
    <2>2. UNCHANGED policy
      BY <2>1 DEF VersionedStep, Crash, Recheck, JudgeEntered, JudgeLeft, AssignWrite,
         UpdateWrite, VersionedWrite, SlaFlag, NotEscalated, policy
    <2>3. QED
      BY <1>1, <2>2
  <1>7. CASE \E s \in RequestIds : Environment(s)
    BY <1>1, <1>7 DEF Environment, Create, AddComment, DeadlinePasses
  <1>8. QED
    BY <1>2, <1>3, <1>4, <1>5, <1>6, <1>7 DEF VersionedNext

(* A move that takes effect and leaves r settled was judged on the list as *)
(* it is, from a clock that agreed or across the border of waiting.        *)
LEMMA MoveSettles ==
  ASSUME LockInv, NEW c \in Callers, NEW r \in RequestIds, Exists(r), Moves(c, r),
         r \notin unsettled', r \notin unsettled => ClockAgrees(r)
  PROVE  ClockAgrees(r)'
  <1> DEFINE k == call[c]
             cur == row[r]
             new == Moved(cur, k.read, k.to, Enters(k), Leaves(k))
  <1>1. /\ k # Idle /\ k.pc = "transition" /\ k.req = r /\ Current(c)
        /\ VersionedWrite(c, new) /\ Settle(c)
    BY DEF Moves, TransitionWrite, At, Idle
  <1>2. k \in Call /\ cur \in Row /\ k.read \in Row /\ TypeInv
    BY <1>1, ActiveCall DEF LockInv, Call
  <1>3. cur.status = k.read.status /\ cur.paused = k.read.paused
    BY <1>1, <1>2 DEF LockInv, SnapshotHolds, Locking, Judging, Current, SameProtected
  <1>4. row'[r] = new /\ pauses' = pauses
    <2>1. WriteRow(r, new) /\ pauses' = pauses
      BY <1>1 DEF VersionedWrite
    <2>2. QED
      BY <1>2, <2>1, WriteAt
  <1>5. /\ Enters(k) <=> k.to \in pauses
        /\ Leaves(k) <=> cur.status \in pauses
        /\ r \in unsettled => ~(Enters(k) <=> Leaves(k))
    BY <1>1, <1>3 DEF Settle, Misjudged, Enters, Leaves
  <1>6. /\ new.status = k.to
        /\ new.paused = ((cur.paused \/ Stopping(Enters(k), Leaves(k)))
                           /\ ~Resuming(k.read, Enters(k), Leaves(k)))
    BY <1>2 DEF Moved, Row
  <1> HIDE DEF new
  <1>7. new.paused <=> Enters(k)
    <2>1. /\ Enters(k) \in BOOLEAN /\ Leaves(k) \in BOOLEAN /\ cur.paused \in BOOLEAN
      BY <1>2 DEF Enters, Leaves, Row
    <2>2. CASE r \notin unsettled
      <3>1. cur.paused <=> Leaves(k)
        BY <1>5, <2>2 DEF ClockAgrees
      <3>2. QED
        BY <1>3, <1>6, <2>1, <3>1 DEF Stopping, Resuming
    <2>3. CASE Enters(k) /\ ~Leaves(k)
      BY <1>6, <2>3 DEF Stopping, Resuming
    <2>4. CASE ~Enters(k) /\ Leaves(k)
      BY <1>3, <1>6, <2>4 DEF Stopping, Resuming
    <2>5. QED
      BY <1>5, <2>1, <2>2, <2>3, <2>4
  <1>8. QED
    BY <1>4, <1>5, <1>6, <1>7 DEF ClockAgrees

(* Under the lock the SLA clock is stopped exactly in the pause statuses,  *)
(* however the list is edited and whichever reads of it fail, but for the  *)
(* requests an edit or a misjudged move has left unsettled; and those are  *)
(* settled by their next move across the border.  No list may pause a      *)
(* request before work can begin: Create and Assign set new and assigned   *)
(* without touching paused_at.                                             *)
THEOREM ClockIsExact ==
  ASSUME \A list \in PauseLists : list \cap {"new", "assigned"} = {}
  PROVE  VersionedSpec => []ClockFollowsStatus
  <1>1. Init => ClockFollowsStatus
    BY DEF Init, ClockFollowsStatus, Exists
  <1>2. LockInv /\ ClockFollowsStatus /\ [VersionedNext]_vars => ClockFollowsStatus'
    <2> SUFFICES ASSUME LockInv, ClockFollowsStatus, [VersionedNext]_vars,
                        NEW r \in RequestIds, r \notin unsettled', Exists(r)'
                 PROVE  ClockAgrees(r)'
      BY DEF ClockFollowsStatus, ClockAgrees
    <2>1. Exists(r) /\ r \notin unsettled => ClockAgrees(r)
      BY DEF ClockFollowsStatus, ClockAgrees
    <2>2. "new" \notin pauses /\ "assigned" \notin pauses
      BY DEF LockInv, TypeInv, TypeOK
    <2>3. CASE Exists(r) /\ \E c \in Callers : Moves(c, r)
      BY <2>1, <2>3, MoveSettles
    <2>4. CASE ~\E c \in Callers : Moves(c, r)
      <3>1. /\ r \notin unsettled
            /\ \/ pauses' = pauses
               \/ /\ row' = row
                  /\ Exists(r) => (row[r].status \in pauses <=> row[r].status \in pauses')
        BY <2>4, PolicyStep
      <3>2. CASE row' = row
        BY <2>1, <3>1, <3>2 DEF ClockAgrees, Exists
      <3>3. CASE pauses' = pauses /\ Opened(r)
        BY <2>2, <3>3 DEF Opened, NewRow, ClockAgrees
      <3>4. CASE pauses' = pauses /\ row'[r] = row[r]
        BY <2>1, <3>1, <3>4 DEF ClockAgrees, Exists
      <3>5. CASE pauses' = pauses /\ Exists(r) /\ row[r] \in Row /\ AssignNow(r)
        BY <2>1, <2>2, <3>1, <3>5 DEF AssignNow, Assigned, ClockAgrees, Row
      <3>6. CASE /\ pauses' = pauses /\ Exists(r) /\ row[r] \in Row
                 /\ Annotation(r) \/ EditNow(r)
        <4>1. row'[r].status = row[r].status /\ row'[r].paused = row[r].paused
          <5>1. CASE Annotation(r)
            BY <3>6, <5>1 DEF Annotation, Row
          <5>2. CASE EditNow(r)
            BY <3>6, <5>2 DEF EditNow, Edited, Row
          <5>3. QED
            BY <3>6, <5>1, <5>2
        <4>2. QED
          BY <2>1, <3>1, <3>6, <4>1 DEF ClockAgrees
      <3>7. QED
        BY <2>4, <3>1, <3>2, <3>3, <3>4, <3>5, <3>6, StepNow DEF TransitionNow
    <2>5. CASE ~Exists(r) /\ \E c \in Callers : Moves(c, r)
      BY <2>5, ActiveCall DEF Moves, TransitionWrite, At, Idle, LockInv, TypeInv, CallsHaveRows
    <2>6. QED
      BY <2>3, <2>4, <2>5
  <1>3. QED
    BY <1>1, <1>2, LockInvHolds, PTL DEF VersionedSpec

-----------------------------------------------------------------------------
(* Refinement: a step writes at most one request, and what it writes is a  *)
(* step of AtomicRequests on that request.                                 *)

WritesOne ==
    \/ row' = row
    \/ \E s \in RequestIds : \E new : row' = [row EXCEPT ![s] = new]

LEMMA VersionedWritesOne ==
  ASSUME TypeInv, [VersionedNext]_vars
  PROVE  WritesOne
  <1>1. CASE UNCHANGED vars
    BY <1>1 DEF vars, WritesOne
  <1>2. CASE \E c \in Callers, s \in RequestIds : VersionedCall(c, s)
    BY <1>2, VersionedCallRow DEF WritesOne
  <1>3. CASE \E c \in Callers : VersionedStep(c) \/ Crash(c)
    <2>1. PICK c \in Callers : VersionedStep(c) \/ Crash(c)
      BY <1>3
    <2>2. CASE Crash(c) \/ Recheck(c) \/ JudgeEntered(c) \/ JudgeLeft(c) \/ NotEscalated(c)
      BY <2>2 DEF Crash, Recheck, JudgeEntered, JudgeLeft, NotEscalated, WritesOne
    <2>3. CASE TransitionWrite(c) \/ AssignWrite(c) \/ UpdateWrite(c) \/ SlaFlag(c)
      <3>1. call[c].req \in RequestIds
        BY <2>3, ActiveCall DEF TransitionWrite, AssignWrite, UpdateWrite, SlaFlag,
             At, Idle
      <3>2. ASSUME NEW new, VersionedWrite(c, new)
            PROVE  WritesOne
        BY <3>1, <3>2 DEF VersionedWrite, WriteRow, WritesOne
      <3>3. CASE TransitionWrite(c)
        BY <3>2, <3>3 DEF TransitionWrite
      <3>4. CASE AssignWrite(c)
        BY <3>2, <3>4 DEF AssignWrite
      <3>5. CASE UpdateWrite(c)
        BY <3>2, <3>5 DEF UpdateWrite
      <3>6. CASE SlaFlag(c)
        BY <3>1, <3>6 DEF SlaFlag, WriteRow, WritesOne
      <3>7. QED
        BY <2>3, <3>3, <3>4, <3>5, <3>6
    <2>4. QED
      BY <2>1, <2>2, <2>3 DEF VersionedStep
  <1>4. CASE \E s \in RequestIds : Environment(s)
    BY <1>4 DEF Environment, Create, AddComment, DeadlinePasses, WriteRow, WritesOne
  <1>5. CASE \E list \in PauseLists : EditPolicy(list)
    BY <1>5 DEF EditPolicy, WritesOne
  <1>6. QED
    BY <1>1, <1>2, <1>3, <1>4, <1>5 DEF VersionedNext

(* The two specifications share RequestRow, once directly and once through *)
(* the instance; these say that the shared operators are the same.         *)
LEMMA SameRow ==
  /\ Atomic!noRow = absent
  /\ Atomic!Statuses = Statuses
  /\ Atomic!allowedTransitions = allowedTransitions
  BY DEF Atomic!noRow, absent, Atomic!Statuses, Statuses,
         Atomic!allowedTransitions, allowedTransitions

LEMMA SameOperators ==
  ASSUME NEW owner, NEW queue, NEW cur, NEW read, NEW to, NEW late, NEW enters, NEW leaves
  PROVE  /\ Atomic!NewRow(owner, queue) = NewRow(owner, queue)
         /\ Atomic!SingleOwner(owner) <=> SingleOwner(owner)
         /\ Atomic!Admits(cur, to) <=> Admits(cur, to)
         /\ Atomic!Moved(cur, read, to, enters, leaves) = Moved(cur, read, to, enters, leaves)
         /\ Atomic!Assigned(cur, read, owner) = Assigned(cur, read, owner)
         /\ Atomic!Edited(cur, read, late) = Edited(cur, read, late)
  <1>1. /\ Atomic!NewRow(owner, queue) = NewRow(owner, queue)
        /\ Atomic!SingleOwner(owner) <=> SingleOwner(owner)
    BY DEF Atomic!NewRow, NewRow, Atomic!SingleOwner, SingleOwner
  <1>2. Atomic!Admits(cur, to) <=> Admits(cur, to)
    BY SameRow DEF Atomic!Admits, Admits, Atomic!CanTransitionTo, CanTransitionTo
  <1>3. Atomic!Moved(cur, read, to, enters, leaves) = Moved(cur, read, to, enters, leaves)
    BY DEF Atomic!Moved, Moved, Atomic!Reopening, Reopening,
           Atomic!Stopping, Stopping, Atomic!Resuming, Resuming,
           Atomic!Closing, Closing, Atomic!Responding, Responding
  <1>4. /\ Atomic!Assigned(cur, read, owner) = Assigned(cur, read, owner)
        /\ Atomic!Edited(cur, read, late) = Edited(cur, read, late)
    BY DEF Atomic!Assigned, Assigned, Atomic!Edited, Edited
  <1>5. QED
    BY <1>1, <1>2, <1>3, <1>4

LEMMA AtomicStep ==
  ASSUME LockInv, [VersionedNext]_vars
  PROVE  [Atomic!Next]_row
  <1> SUFFICES ASSUME row' # row
               PROVE  Atomic!Next
    OBVIOUS
  <1>1. PICK s \in RequestIds : \E new : row' = [row EXCEPT ![s] = new]
    BY VersionedWritesOne DEF LockInv, WritesOne
  <1>2. row \in [RequestIds -> Row \cup {absent}]
    BY DEF LockInv, TypeInv, TypeOK
  <1>3. row' = [row EXCEPT ![s] = row'[s]] /\ row'[s] # row[s]
    BY <1>1, <1>2
  <1>4. CASE Opened(s)
    <2>1. PICK owner \in SUBSET OwnerKinds, queue \in Queues \cup {NoQueue} :
            row'[s] = NewRow(owner, queue)
      BY <1>4 DEF Opened
    <2>2. Atomic!Create(s, owner, queue)
      BY <1>3, <1>4, <2>1, SameRow, SameOperators
         DEF Opened, Exists, Atomic!Create, Atomic!Write
    <2>3. QED
      BY <2>2 DEF Atomic!Next
  <1>5. CASE Exists(s) /\ TransitionNow(s)
    <2>1. PICK to \in Statuses, enters \in BOOLEAN, leaves \in BOOLEAN :
            Admits(row[s], to) /\ row'[s] = Moved(row[s], row[s], to, enters, leaves)
      BY <1>5 DEF TransitionNow
    <2>2. Atomic!Transition(s, to, enters, leaves)
      BY <1>3, <2>1, SameOperators DEF Atomic!Transition, Atomic!Write
    <2>3. QED
      BY <1>5, <2>2, SameRow DEF Atomic!Next, Exists
  <1>6. CASE Exists(s) /\ AssignNow(s)
    <2>1. PICK owner \in SUBSET OwnerKinds :
            SingleOwner(owner) /\ row'[s] = Assigned(row[s], row[s], owner)
      BY <1>6 DEF AssignNow
    <2>2. Atomic!Assign(s, owner)
      BY <1>3, <2>1, SameOperators DEF Atomic!Assign, Atomic!Write
    <2>3. QED
      BY <1>6, <2>2, SameRow DEF Atomic!Next, Exists
  <1>7. CASE Exists(s) /\ EditNow(s)
    <2>1. PICK late \in BOOLEAN : row'[s] = Edited(row[s], row[s], late)
      BY <1>7 DEF EditNow
    <2>2. Atomic!Edit(s, late)
      BY <1>3, <2>1, SameOperators DEF Atomic!Edit, Atomic!Write
    <2>3. QED
      BY <1>7, <2>2, SameRow DEF Atomic!Next, Exists
  <1>8. CASE Exists(s) /\ Annotation(s)
    <2>1. CASE row'[s] = [row[s] EXCEPT !.responded = TRUE]
      <3>1. Atomic!Respond(s)
        BY <1>3, <2>1 DEF Atomic!Respond, Atomic!Write
      <3>2. QED
        BY <1>8, <3>1, SameRow DEF Atomic!Next, Exists
    <2>2. CASE row'[s] = [row[s] EXCEPT !.late = TRUE] /\ ~row[s].paused
      <3>1. Atomic!PassDeadline(s)
        BY <1>3, <2>2 DEF Atomic!PassDeadline, Atomic!Write
      <3>2. QED
        BY <1>8, <3>1, SameRow DEF Atomic!Next, Exists
    <2>3. CASE \E flag \in Flags : row'[s] = [row[s] EXCEPT !.flags = @ \cup {flag}]
      <3>1. PICK flag \in Flags : row'[s] = [row[s] EXCEPT !.flags = @ \cup {flag}]
        BY <2>3
      <3>2. Atomic!Flag(s, flag)
        BY <1>3, <3>1 DEF Atomic!Flag, Atomic!Write
      <3>3. QED
        BY <1>8, <3>2, SameRow DEF Atomic!Next, Exists, Atomic!Flags, Flags
    <2>4. QED
      BY <1>8, <2>1, <2>2, <2>3 DEF Annotation
  <1>9. QED
    BY <1>3, <1>4, <1>5, <1>6, <1>7, <1>8, StepNow

(* Operations under the lock are indistinguishable from operations that    *)
(* run one at a time: the concurrent specification implements the atomic.  *)
THEOREM LockIsAtomic == VersionedSpec => ActsAtomically
  <1>1. Init => Atomic!Init
    BY SameRow DEF Init, Atomic!Init
  <1>2. LockInv /\ [VersionedNext]_vars => [Atomic!Next]_row
    BY AtomicStep
  <1>3. QED
    BY <1>1, <1>2, LockInvHolds, PTL DEF VersionedSpec, ActsAtomically, Atomic!Spec
=============================================================================
