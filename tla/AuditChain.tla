----------------------------- MODULE AuditChain -----------------------------
(***************************************************************************)
(* The audit log (internal/audit): an append-only table whose rows are     *)
(* numbered from 1 and each carry the hash of the row before.              *)
(*                                                                         *)
(* An append reads the head and then inserts; a mutex orders the appends   *)
(* of one process, but ccadm is a process of its own, and a row appended   *)
(* in a transaction is seen by others only when that transaction commits,  *)
(* after the mutex is free again.  The unique index on seq decides every   *)
(* race.  The hash of a row is the entry it is about, an entry being       *)
(* appended at most once.                                                  *)
(***************************************************************************)
EXTENDS Naturals, FiniteSets

CONSTANTS
    Writers,        \* the callers of Record and RecordTx
    Processes,      \* server and ccadm
    ProcessOf,      \* the process each writer runs in
    Entries,        \* what can be recorded
    Genesis,        \* the empty hash before the first row
    Nobody          \* no writer

ASSUME AuditConstants == /\ ProcessOf \in [Writers -> Processes]
                         /\ Genesis \notin Entries
                         /\ Nobody \notin Writers

VARIABLES
    log,        \* the committed rows of audit_logs
    pending,    \* the row each writer's open transaction has inserted
    mutex,      \* who holds Service.mu in each process
    head        \* the seq and hash that holder has read

chainVars == <<log, pending, mutex, head>>

AuditRow == [seq : Nat \ {0}, about : Entries, prev : Entries \cup {Genesis}]

Head == [seq : Nat, hash : Entries \cup {Genesis}]

noHead == [seq |-> 0, hash |-> Genesis]

noRow == [seq |-> 0]

ChainInit == /\ log = {}
             /\ pending = [w \in Writers |-> noRow]
             /\ mutex = [p \in Processes |-> Nobody]
             /\ head = [w \in Writers |-> noHead]

ChainTypeOK == /\ log \subseteq AuditRow
               /\ pending \in [Writers -> AuditRow \cup {noRow}]
               /\ mutex \in [Processes -> Writers \cup {Nobody}]
               /\ head \in [Writers -> Head]
-----------------------------------------------------------------------------
HeadAt(row) == [seq |-> row.seq, hash |-> row.about]

(* What ORDER BY seq DESC LIMIT 1 finds, or has ever found.                *)
Heads == {noHead} \cup {HeadAt(row) : row \in log}

Latest(h) == \A row \in log : row.seq <= h.seq

Recorded(e) == \E row \in log \cup {pending[w] : w \in Writers} : row # noRow /\ row.about = e

Take(w, h) == /\ mutex[ProcessOf[w]] = Nobody
              /\ mutex' = [mutex EXCEPT ![ProcessOf[w]] = w]
              /\ head' = [head EXCEPT ![w] = h]
              /\ UNCHANGED <<log, pending>>

(* record: take the mutex and read the head of the chain.                  *)
ReadHead(w) == \E h \in Heads : Latest(h) /\ Take(w, h)

(* A transaction that has read before sees the chain of its first read.    *)
ReadSnapshot(w) == \E h \in Heads : Take(w, h)

Holds(w) == mutex[ProcessOf[w]] = w

NextRow(w, e) == [seq |-> head[w].seq + 1, about |-> e, prev |-> head[w].hash]

(* An insert waits for the transaction that has inserted the same seq.     *)
Waits(w) == \E v \in Writers : pending[v].seq = head[w].seq + 1

(* Mutant: no unique index on seq.                                         *)
SeqUnchecked(w) == TRUE

SeqIsFree(w) == \A row \in log : row.seq # head[w].seq + 1

(* The holder lets go; what it has read is forgotten.                      *)
Release(w) == /\ mutex' = [mutex EXCEPT ![ProcessOf[w]] = Nobody]
              /\ head' = [head EXCEPT ![w] = noHead]

(* record with the plain connection: the row is committed at once.         *)
Append(w, e) ==
    /\ Holds(w) /\ ~Waits(w) /\ SeqIsFree(w) /\ ~Recorded(e)
    /\ log' = log \cup {NextRow(w, e)}
    /\ Release(w)
    /\ UNCHANGED pending

(* record inside a transaction (RecordTx).                                 *)
AppendTx(w, e) ==
    /\ Holds(w) /\ ~Waits(w) /\ SeqIsFree(w) /\ ~Recorded(e)
    /\ pending[w] = noRow
    /\ pending' = [pending EXCEPT ![w] = NextRow(w, e)]
    /\ Release(w)
    /\ UNCHANGED log

(* The head cannot be read or the row not inserted, a taken seq being one  *)
(* reason.  Record drops the entry, RecordTx fails its transaction.        *)
AppendFails(w) ==
    /\ Holds(w) /\ ~Waits(w)
    /\ Release(w)
    /\ UNCHANGED <<log, pending>>

Commit(w) ==
    /\ pending[w] # noRow
    /\ log' = log \cup {pending[w]}
    /\ pending' = [pending EXCEPT ![w] = noRow]
    /\ UNCHANGED <<mutex, head>>

Rollback(w) ==
    /\ pending[w] # noRow
    /\ pending' = [pending EXCEPT ![w] = noRow]
    /\ UNCHANGED <<log, mutex, head>>

(* A process ends: its mutex and its transactions end with it.             *)
ProcessEnds(p) ==
    /\ mutex' = [mutex EXCEPT ![p] = Nobody]
    /\ pending' = [w \in Writers |-> IF ProcessOf[w] = p THEN noRow ELSE pending[w]]
    /\ head' = [w \in Writers |-> IF ProcessOf[w] = p THEN noHead ELSE head[w]]
    /\ UNCHANGED log

ChainNext ==
    \/ \E w \in Writers : \/ ReadHead(w) \/ ReadSnapshot(w) \/ AppendFails(w) \/ Commit(w) \/ Rollback(w)
                          \/ \E e \in Entries : Append(w, e) \/ AppendTx(w, e)
    \/ \E p \in Processes : ProcessEnds(p)

ChainSpec == ChainInit /\ [][ChainNext]_chainVars
-----------------------------------------------------------------------------
(* Verify: the rows in order of seq count from 1 without a gap, and each   *)
(* carries the hash of the row before.                                     *)
Verify ==
    /\ {row.seq : row \in log} = 1..Cardinality(log)
    /\ \A row \in log :
         IF row.seq = 1 THEN row.prev = Genesis
         ELSE \E before \in log : before.seq = row.seq - 1 /\ row.prev = before.about

(* The chain verifies at every moment, whatever two processes and open     *)
(* transactions do to its end at the same time (audit.go: "a fork in the   *)
(* chain would make it unverifiable").                                     *)
ChainVerifies == Verify
=============================================================================
