----------------------------- MODULE AuditProofs -----------------------------
(***************************************************************************)
(* Proofs about the audit and about the commands that run behind it, for   *)
(* any number of sessions, rows and databases: an audit that says valid    *)
(* and one that refuses are right, beside sessions that write what they    *)
(* like; the commands of Reporting write only as AuditSpec says; what      *)
(* harvest-universities commits is ledgered, and whole; and the head hash  *)
(* of the universities' report covers what it read.                        *)
(***************************************************************************)
EXTENDS Reporting, TLAPS

Extends(later, earlier) ==
  /\ Len(earlier) <= Len(later)
  /\ \A i \in 1 .. Len(earlier) : later[i] = earlier[i]

(* What the holder of the lock sees: the committed database and its own    *)
(* rows after it, whose events come after all committed ones.              *)
Grown(db) ==
  /\ WellKept(db)
  /\ Extends(db.rows, disk.rows) /\ Extends(db.events, disk.events)
  /\ \A n \in Len(disk.events) + 1 .. Len(db.events) : db.events[n].body.entity > Len(disk.rows)

SessionOK(s) ==
  /\ session[s].pc \in {"ready", "inserted"} => session[s].row.type \in Types
  /\ session[s].pc = "inserted" =>
       /\ lock = s
       /\ Len(work[s].rows) > Len(disk.rows)
       /\ work[s].rows[Len(work[s].rows)] = session[s].row

StoreOK ==
  /\ WellKept(disk)
  /\ lock \in Sessions \cup {None}
  /\ work = [s \in Sessions |-> work[s]]
  /\ session = [s \in Sessions |-> [pc |-> session[s].pc, row |-> session[s].row]]
  /\ \A s \in Sessions : SessionOK(s) /\ (lock = s => Grown(work[s]))

----------------------------------------------------------------------------
LEMMA TableAppends ==
  ASSUME NEW table, IsTable(table), NEW e
  PROVE  LET later == Append(table, e)
         IN  /\ IsTable(later)
             /\ Len(later) = Len(table) + 1
             /\ \A i \in 1 .. Len(table) : later[i] = table[i]
             /\ later[Len(table) + 1] = e
<1> DEFINE S == {table[i] : i \in 1 .. Len(table)} \cup {e}
<1>1. table \in Seq(S)
  <2>1. \A i \in 1 .. Len(table) : table[i] \in S
    OBVIOUS
  <2> HIDE DEF S
  <2>2. table \in [1 .. Len(table) -> S]
    BY <2>1 DEF IsTable
  <2> QED
    BY <2>2 DEF IsTable
<1>2. e \in S
  OBVIOUS
<1> HIDE DEF S
<1>3. Append(table, e) \in Seq(S)
  BY <1>1, <1>2
<1>4. \A t \in Seq(S) : IsTable(t)
  BY DEF IsTable
<1>5. IsTable(Append(table, e))
  BY <1>3, <1>4
<1>6. /\ Len(Append(table, e)) = Len(table) + 1
      /\ \A i \in 1 .. Len(table) : Append(table, e)[i] = table[i]
      /\ Append(table, e)[Len(table) + 1] = e
  BY <1>1, <1>2
<1> QED
  BY <1>5, <1>6

LEMMA ChainedEarlier ==
  ASSUME NEW later, NEW earlier, Len(later) \in Nat, Len(earlier) \in Nat,
         Extends(later, earlier), Chained(later)
  PROVE  Chained(earlier)
<1> SUFFICES ASSUME NEW n \in 1 .. Len(earlier)
             PROVE  /\ earlier[n].sequence = n
                    /\ earlier[n].previous = (IF n = 1 THEN <<>> ELSE earlier[n - 1].digest)
                    /\ earlier[n].digest = Append(earlier[n].previous, earlier[n].body)
  BY DEF Chained
<1>1. n \in 1 .. Len(later) /\ later[n] = earlier[n] /\ (n # 1 => later[n - 1] = earlier[n - 1])
  BY DEF Extends
<1> QED
  BY <1>1 DEF Chained

LEMMA ExtendsReflexive ==
  ASSUME NEW table, Len(table) \in Nat
  PROVE  Extends(table, table)
BY DEF Extends

LEMMA ExtendsTransitive ==
  ASSUME NEW t, NEW u, NEW v, Len(t) \in Nat, Len(u) \in Nat, Len(v) \in Nat,
         Extends(v, u), Extends(u, t)
  PROVE  Extends(v, t)
BY DEF Extends

LEMMA KeptTables ==
  ASSUME NEW db, WellKept(db)
  PROVE  /\ Len(db.rows) \in Nat /\ Len(db.events) \in Nat
         /\ IsTable(db.rows) /\ IsTable(db.events)
         /\ db = [rows |-> db.rows, events |-> db.events]
BY DEF WellKept, IsTable

LEMMA SeenKept ==
  ASSUME StoreOK, NEW s
  PROVE  \/ s = None
         \/ /\ WellKept(Seen(s))
            /\ Extends(Seen(s).rows, disk.rows) /\ Extends(Seen(s).events, disk.events)
<1>1. CASE lock # s
  BY <1>1, KeptTables, ExtendsReflexive DEF StoreOK, Seen
<1>2. CASE lock = s /\ s # None
  BY <1>2 DEF StoreOK, Seen, Grown
<1> QED
  BY <1>1, <1>2

(* The database grows, and the events that come are of rows that come.     *)
DiskOnlyGrows ==
  /\ Extends(disk'.rows, disk.rows) /\ Extends(disk'.events, disk.events)
  /\ \A n \in Len(disk.events) + 1 .. Len(disk'.events) :
       disk'.events[n].body.entity > Len(disk.rows)

(* What the step of one session leaves alone, and how it leaves the file.  *)
Frame(s) ==
  /\ lock' \in Sessions \cup {None}
  /\ work' = [t \in Sessions |-> work'[t]]
  /\ session' = [t \in Sessions |-> [pc |-> session'[t].pc, row |-> session'[t].row]]
  /\ \A t \in Sessions \ {s} :
       /\ session'[t] = session[t] /\ work'[t] = work[t]
       /\ lock = t <=> lock' = t
       /\ lock = t => disk' = disk
  /\ WellKept(disk')
  /\ DiskOnlyGrows

LEMMA GotoFrame ==
  ASSUME StoreOK, NEW s \in Sessions, NEW pc, Goto(s, pc)
  PROVE  /\ session' = [t \in Sessions |-> [pc |-> session'[t].pc, row |-> session'[t].row]]
         /\ session'[s] = [pc |-> pc, row |-> session[s].row]
         /\ \A t \in Sessions \ {s} : session'[t] = session[t]
BY DEF StoreOK, Goto

LEMMA SetFrame ==
  ASSUME StoreOK, NEW s \in Sessions, NEW pc, NEW row,
         session' = [session EXCEPT ![s] = [pc |-> pc, row |-> row]]
  PROVE  /\ session' = [t \in Sessions |-> [pc |-> session'[t].pc, row |-> session'[t].row]]
         /\ session'[s] = [pc |-> pc, row |-> row]
         /\ \A t \in Sessions \ {s} : session'[t] = session[t]
BY DEF StoreOK

LEMMA WorkFrame ==
  ASSUME StoreOK, NEW s \in Sessions, NEW db, work' = [work EXCEPT ![s] = db]
  PROVE  /\ work' = [t \in Sessions |-> work'[t]]
         /\ work'[s] = db
         /\ \A t \in Sessions \ {s} : work'[t] = work[t]
BY DEF StoreOK

LEMMA DiskGrows ==
  ASSUME StoreOK
  PROVE  /\ Extends(disk.rows, disk.rows) /\ Extends(disk.events, disk.events) /\ WellKept(disk)
         /\ disk' = disk => DiskOnlyGrows
BY KeptTables, ExtendsReflexive DEF StoreOK, DiskOnlyGrows

LEMMA DiscardFrame ==
  ASSUME StoreOK, NEW s \in Sessions, Discard(s)
  PROVE  /\ lock' \in Sessions \cup {None} /\ lock' # s /\ disk' = disk
         /\ work' = [t \in Sessions |-> work'[t]]
         /\ \A t \in Sessions \ {s} : work'[t] = work[t] /\ (lock = t <=> lock' = t)
<1>1. work' = [work EXCEPT ![s] = Empty]
  BY DEF Discard
<1> QED
  BY <1>1, WorkFrame, ConstantsAssumption DEF Discard, StoreOK

(* A step of the frame that leaves its own session in order is one of a    *)
(* store in order.                                                         *)
LEMMA FrameSuffices ==
  ASSUME StoreOK, NEW s \in Sessions, Frame(s), SessionOK(s)', lock' = s => Grown(work[s])'
  PROVE  StoreOK'
<1>1. ASSUME NEW t \in Sessions \ {s}
      PROVE  SessionOK(t)' /\ (lock' = t => Grown(work[t])')
  <2>1. SessionOK(t) /\ (lock = t => Grown(work[t]))
    BY DEF StoreOK
  <2>2. /\ session'[t] = session[t] /\ work'[t] = work[t] /\ (lock = t <=> lock' = t)
        /\ lock = t => disk' = disk
    BY DEF Frame
  <2>3. SessionOK(t)'
    BY <2>1, <2>2 DEF SessionOK
  <2>4. lock' = t => Grown(work[t])'
    BY <2>1, <2>2 DEF Grown
  <2> QED
    BY <2>3, <2>4
<1>2. \A t \in Sessions : SessionOK(t)' /\ (lock' = t => Grown(work[t])')
  BY <1>1
<1> QED
  BY <1>2 DEF StoreOK, Frame

LEMMA AddsRowStep ==
  ASSUME StoreOK, NEW s \in Sessions, AddsRow(s)
  PROVE  Frame(s) /\ StoreOK'
<1> DEFINE row == session'[s].row
<1>1. /\ session' = [session EXCEPT ![s] = [pc |-> "ready", row |-> row]]
      /\ row \in {r \in {row} : r.type \in Types} /\ UNCHANGED <<disk, lock, work>>
  BY DEF AddsRow, Prepare
<1> HIDE DEF row
<1>2. /\ session' = [t \in Sessions |-> [pc |-> session'[t].pc, row |-> session'[t].row]]
      /\ session'[s] = [pc |-> "ready", row |-> row]
      /\ \A t \in Sessions \ {s} : session'[t] = session[t]
  BY <1>1, SetFrame
<1>3. Frame(s)
  BY <1>1, <1>2, DiskGrows DEF Frame, StoreOK
<1>4. SessionOK(s)'
  BY <1>1, <1>2 DEF SessionOK
<1>5. lock' = s => Grown(work[s])'
  BY <1>1 DEF StoreOK, Grown
<1> QED
  BY <1>3, <1>4, <1>5, FrameSuffices

LEMMA InsertStep ==
  ASSUME StoreOK, NEW s \in Sessions, Insert(s)
  PROVE  Frame(s) /\ StoreOK'
<1> DEFINE row == session[s].row
           old == Seen(s)
           new == [old EXCEPT !.rows = Append(@, row)]
<1>1. /\ session[s].pc = "ready" /\ lock \in {None, s} /\ lock' = s /\ disk' = disk
      /\ work' = [work EXCEPT ![s] = new] /\ Goto(s, "inserted") /\ row.type \in Types
  BY DEF Insert, StoreOK, SessionOK
<1>2. /\ WellKept(old) /\ Extends(old.rows, disk.rows) /\ Extends(old.events, disk.events)
      /\ \A n \in Len(disk.events) + 1 .. Len(old.events) : old.events[n].body.entity > Len(disk.rows)
  <2>1. CASE lock = s
    BY <2>1 DEF StoreOK, Seen, Grown
  <2>2. CASE lock # s
    BY <2>2, DiskGrows, KeptTables DEF Seen
  <2> QED
    BY <2>1, <2>2
<1> HIDE DEF old
<1>3. new = [rows |-> Append(old.rows, row), events |-> old.events]
  <2>1. old = [rows |-> old.rows, events |-> old.events]
    BY <1>2, KeptTables
  <2> QED
    BY <2>1
<1> HIDE DEF row
<1>4. /\ IsTable(new.rows) /\ Len(new.rows) = Len(old.rows) + 1
      /\ \A i \in 1 .. Len(old.rows) : new.rows[i] = old.rows[i]
      /\ new.rows[Len(old.rows) + 1] = row
  BY <1>2, <1>3, TableAppends DEF WellKept
<1>5. new = [rows |-> new.rows, events |-> new.events] /\ new.events = old.events
  BY <1>3
<1> HIDE DEF new
<1>6. Len(old.rows) \in Nat /\ Len(disk.rows) \in Nat /\ Len(old.events) \in Nat /\ Len(disk.events) \in Nat
  BY <1>2, DiskGrows, KeptTables
<1>7. WellKept(new)
  <2>1. ASSUME NEW i \in 1 .. Len(new.rows) PROVE new.rows[i].type \in Types
    BY <1>1, <1>2, <1>4, <1>6 DEF WellKept, row
  <2>2. ASSUME NEW n \in 1 .. Len(new.events)
        PROVE  LET id == new.events[n].body.entity
               IN  id \in 1 .. Len(new.rows) /\ new.events[n].body = Body(new.rows[id], id)
    BY <1>2, <1>4, <1>5, <1>6 DEF WellKept
  <2>3. IsTable(new.events)
    BY <1>2, <1>5 DEF WellKept
  <2> QED
    BY <2>1, <2>2, <2>3, <1>4, <1>5 DEF WellKept
<1>8. Extends(new.rows, disk.rows) /\ Extends(new.events, disk.events)
  BY <1>2, <1>4, <1>5, <1>6 DEF Extends
<1>9. work'[s] = new /\ session'[s] = [pc |-> "inserted", row |-> row]
  <2>1. work'[s] = new
    BY <1>1, WorkFrame
  <2>2. session'[s] = [pc |-> "inserted", row |-> row]
    BY <1>1, GotoFrame DEF row
  <2> QED
    BY <2>1, <2>2
<1>10. SessionOK(s)'
  BY <1>1, <1>2, <1>4, <1>6, <1>9 DEF SessionOK, row, Extends
<1>11. Grown(work[s])'
  BY <1>1, <1>2, <1>5, <1>7, <1>8, <1>9 DEF Grown
<1>12. Frame(s)
  BY <1>1, WorkFrame, GotoFrame, DiskGrows, ConstantsAssumption DEF Frame
<1> QED
  BY <1>10, <1>11, <1>12, FrameSuffices

LEMMA AppendEventStep ==
  ASSUME StoreOK, NEW s \in Sessions, AppendEvent(s)
  PROVE  Frame(s) /\ StoreOK'
<1> DEFINE old == work[s]
           body == Body(session[s].row, Len(old.rows))
           event == EventAfter(old.events, body)
           new == [old EXCEPT !.events = Append(@, event)]
<1>1. /\ session[s].pc = "inserted" /\ Goto(s, "idle") /\ UNCHANGED <<disk, lock>>
      /\ work' = [work EXCEPT ![s] = new]
  <2>1. work[s].rows = old.rows /\ work[s] = [rows |-> old.rows, events |-> old.events]
    BY KeptTables DEF StoreOK, Grown, AppendEvent, SessionOK
  <2> QED
    BY <2>1 DEF AppendEvent, StoreOK
<1>2. /\ lock = s /\ Grown(old) /\ Len(old.rows) > Len(disk.rows)
      /\ old.rows[Len(old.rows)] = session[s].row
  BY <1>1 DEF StoreOK, SessionOK
<1>3. WellKept(old)
  BY <1>2 DEF Grown
<1> HIDE DEF old
<1>4. new = [rows |-> old.rows, events |-> Append(old.events, event)]
  <2>1. old = [rows |-> old.rows, events |-> old.events]
    BY <1>3, KeptTables
  <2> QED
    BY <2>1
<1>5. event.body = body /\ body.entity = Len(old.rows) /\ body = Body(old.rows[Len(old.rows)], Len(old.rows))
  BY <1>2 DEF EventAfter, Body
<1> HIDE DEF event, body
<1>6. /\ IsTable(new.events) /\ Len(new.events) = Len(old.events) + 1
      /\ \A i \in 1 .. Len(old.events) : new.events[i] = old.events[i]
      /\ new.events[Len(old.events) + 1] = event
  BY <1>3, <1>4, TableAppends DEF WellKept
<1>7. new = [rows |-> new.rows, events |-> new.events] /\ new.rows = old.rows
  BY <1>4
<1> HIDE DEF new
<1>8. Len(old.rows) \in Nat /\ Len(disk.rows) \in Nat /\ Len(old.events) \in Nat /\ Len(disk.events) \in Nat
  BY <1>3, DiskGrows, KeptTables
<1>9. WellKept(new)
  <2>1. ASSUME NEW n \in 1 .. Len(new.events)
        PROVE  LET id == new.events[n].body.entity
               IN  id \in 1 .. Len(new.rows) /\ new.events[n].body = Body(new.rows[id], id)
    <3>1. CASE n \in 1 .. Len(old.events)
      BY <3>1, <1>3, <1>6, <1>7 DEF WellKept
    <3>2. CASE n = Len(old.events) + 1
      BY <3>2, <1>2, <1>5, <1>6, <1>7, <1>8
    <3> QED
      BY <3>1, <3>2, <1>6, <1>8
  <2> QED
    BY <2>1, <1>3, <1>6, <1>7 DEF WellKept
<1>10. /\ Extends(new.rows, disk.rows) /\ Extends(new.events, disk.events)
       /\ \A n \in Len(disk.events) + 1 .. Len(new.events) : new.events[n].body.entity > Len(disk.rows)
  <2>1. Extends(new.rows, disk.rows) /\ Extends(new.events, disk.events)
    BY <1>2, <1>6, <1>7, <1>8 DEF Extends, Grown
  <2>2. new.events[Len(old.events) + 1].body.entity > Len(disk.rows)
    BY <1>2, <1>5, <1>6
  <2>3. ASSUME NEW n \in Len(disk.events) + 1 .. Len(old.events)
        PROVE  new.events[n].body.entity > Len(disk.rows)
    <3>1. old.events[n].body.entity > Len(disk.rows)
      BY <1>2 DEF Grown
    <3>2. new.events[n] = old.events[n]
      BY <1>6, <1>8
    <3> QED
      BY <3>1, <3>2
  <2> QED
    BY <2>1, <2>2, <2>3, <1>6, <1>8
<1>11. work'[s] = new /\ session'[s] = [pc |-> "idle", row |-> session[s].row]
  <2>1. work'[s] = new
    BY <1>1, WorkFrame
  <2>2. session'[s] = [pc |-> "idle", row |-> session[s].row]
    BY <1>1, GotoFrame
  <2> QED
    BY <2>1, <2>2
<1>12. SessionOK(s)'
  BY <1>11 DEF SessionOK
<1>13. Grown(work[s])'
  BY <1>1, <1>9, <1>10, <1>11 DEF Grown
<1>14. Frame(s)
  BY <1>1, WorkFrame, GotoFrame, DiskGrows DEF Frame, StoreOK
<1> QED
  BY <1>12, <1>13, <1>14, FrameSuffices

LEMMA RaiseStep ==
  ASSUME StoreOK, NEW s \in Sessions, AppendRaises(s)
  PROVE  Frame(s) /\ StoreOK'
<1>1. Goto(s, AfterException(s)) /\ UNCHANGED <<disk, lock, work>>
  BY DEF AppendRaises
<1>2. session'[s].pc \notin {"ready", "inserted"}
  <2>1. session'[s] = [pc |-> AfterException(s), row |-> session[s].row]
    BY <1>1, GotoFrame
  <2> QED
    BY <2>1 DEF AfterException
<1>3. Frame(s)
  BY <1>1, GotoFrame, DiskGrows DEF Frame, StoreOK
<1>4. SessionOK(s)'
  BY <1>2 DEF SessionOK
<1>5. lock' = s => Grown(work[s])'
  BY <1>1 DEF StoreOK, Grown
<1> QED
  BY <1>3, <1>4, <1>5, FrameSuffices

LEMMA DiscardStep ==
  ASSUME StoreOK, NEW s \in Sessions, FlushFails(s) \/ Close(s)
  PROVE  Frame(s) /\ StoreOK'
<1>1. Discard(s)
  BY DEF FlushFails, Close
<1>2. /\ session' = [t \in Sessions |-> [pc |-> session'[t].pc, row |-> session'[t].row]]
      /\ session'[s].pc \notin {"ready", "inserted"}
      /\ \A t \in Sessions \ {s} : session'[t] = session[t]
  <2>1. CASE FlushFails(s)
    <3>1. Goto(s, "broken")
      BY <2>1 DEF FlushFails
    <3>2. session'[s] = [pc |-> "broken", row |-> session[s].row]
      BY <3>1, GotoFrame
    <3> QED
      BY <3>1, <3>2, GotoFrame
  <2>2. CASE Close(s)
    BY <2>2, SetFrame DEF Close
  <2> QED
    BY <2>1, <2>2
<1>3. Frame(s)
  BY <1>1, <1>2, DiscardFrame, DiskGrows DEF Frame
<1>4. SessionOK(s)' /\ lock' # s
  BY <1>1, <1>2, DiscardFrame DEF SessionOK
<1> QED
  BY <1>3, <1>4, FrameSuffices

LEMMA CommitStep ==
  ASSUME StoreOK, NEW s \in Sessions, Commit(s)
  PROVE  Frame(s) /\ StoreOK'
<1>1. /\ session[s].pc = "idle" /\ lock = s /\ disk' = work[s] /\ lock' = None /\ session' = session
      /\ work' = [work EXCEPT ![s] = Empty]
  BY DEF Commit
<1>2. WellKept(disk') /\ DiskOnlyGrows
  BY <1>1 DEF StoreOK, Grown, DiskOnlyGrows
<1>3. Frame(s)
  BY <1>1, <1>2, WorkFrame, ConstantsAssumption DEF Frame, StoreOK
<1>4. SessionOK(s)' /\ lock' # s
  BY <1>1, ConstantsAssumption DEF SessionOK
<1> QED
  BY <1>3, <1>4, FrameSuffices

LEMMA SessionStepFrame ==
  ASSUME StoreOK, NEW s \in Sessions, AddsRow(s) \/ SessionStep(s)
  PROVE  Frame(s) /\ StoreOK'
BY AddsRowStep, InsertStep, AppendEventStep, RaiseStep, DiscardStep, CommitStep DEF SessionStep

----------------------------------------------------------------------------
(* An auditor that reads: of the tables behind it, it has sorted every row *)
(* of what it began with, and whatever it holds against the database is a  *)
(* row of it that its list of events has not.                              *)
WhileReading(a) ==
  LET now == audit[a]
  IN  /\ now.table \in Nat \ {0}
      /\ WellKept(now.since)
      /\ now.covered = CoveredBy(now.since.events)
      /\ Extends(Seen(a).rows, now.since.rows)
      /\ \A k \in 1 .. now.table - 1 : \A i \in RowsOf(now.since, {AuditedTables[k]}) :
           Entry(AuditedTables[k], i) \in now.covered \cup now.uncovered
      /\ \A e \in now.uncovered :
           /\ e \notin now.covered
           /\ \E i \in 1 .. Len(Seen(a).rows) : e = Entry(Seen(a).rows[i].type, i)

(* RefusalHasCause speaks of rows that differ; there are more of them.     *)
Cause(a) ==
  \/ ~Chained(Seen(a).events)
  \/ ~RowsLedgered(audit[a].since)
  \/ Len(Seen(a).rows) > Len(audit[a].since.rows)

AuditorOK(a) ==
  /\ audit[a] = [pc |-> audit[a].pc, head |-> audit[a].head, covered |-> audit[a].covered,
                 table |-> audit[a].table, uncovered |-> audit[a].uncovered,
                 since |-> audit[a].since]
  /\ audit[a].pc = "reading" => WhileReading(a)
  /\ audit[a].pc = "valid" => RowsLedgered(audit[a].since)
  /\ audit[a].pc = "refused" => Cause(a)

AuditOK ==
  /\ StoreOK
  /\ audit = [a \in Auditors |-> audit[a]]
  /\ \A a \in Auditors : AuditorOK(a)

(* Every row of a database is in a table that the audit reads.             *)
LEMMA EveryTypeAudited ==
  /\ Len(AuditedTables) = 7
  /\ \A type \in Types : \E k \in 1 .. Len(AuditedTables) : AuditedTables[k] = type
<1>1. Len(AuditedTables) = 7
  BY DEF AuditedTables, Tables
<1>2. /\ AuditedTables[1] = "source_artifact" /\ AuditedTables[2] = "observation"
      /\ AuditedTables[3] = "claim" /\ AuditedTables[4] = "evidence_edge"
      /\ AuditedTables[5] = "challenge" /\ AuditedTables[6] = "taxonomy_mapping"
      /\ AuditedTables[7] = "derived_metric"
  BY DEF AuditedTables, Tables
<1> QED
  BY <1>1, <1>2 DEF Types, Unversioned, Revisable

LEMMA CoveredIsLedgered ==
  ASSUME NEW db, WellKept(db), NEW i \in 1 .. Len(db.rows)
  PROVE  Ledgered(db, i) <=> Entry(db.rows[i].type, i) \in CoveredBy(db.events)
<1>1. ASSUME NEW n \in 1 .. Len(db.events), db.events[n].body = Body(db.rows[i], i)
      PROVE  Entry(db.events[n].body.type, db.events[n].body.entity) = Entry(db.rows[i].type, i)
  BY <1>1 DEF Body
<1>2. ASSUME NEW n \in 1 .. Len(db.events),
             Entry(db.events[n].body.type, db.events[n].body.entity) = Entry(db.rows[i].type, i)
      PROVE  db.events[n].body = Body(db.rows[i], i)
  <2>1. db.events[n].body.entity = i
    BY <1>2 DEF Entry
  <2> QED
    BY <2>1 DEF WellKept
<1> QED
  BY <1>1, <1>2 DEF Ledgered, CoveredBy

LEMMA SnapshotKept ==
  ASSUME NEW db, WellKept(db)
  PROVE  /\ WellKept(Snapshot(db)) /\ Snapshot(db).rows = db.rows
         /\ Len(Snapshot(db).events) = Len(db.events)
         /\ \A n \in 1 .. Len(db.events) : Snapshot(db).events[n].body = db.events[n].body
<1> DEFINE N == Len(db.events)
           events == [n \in 1 .. N |-> [body |-> db.events[n].body]]
           S == {[body |-> db.events[n].body] : n \in 1 .. N}
<1>1. N \in Nat
  BY KeptTables
<1>2. events \in [1 .. N -> S]
  OBVIOUS
<1>3. \A n \in 1 .. N : events[n].body = db.events[n].body
  OBVIOUS
<1>4. Snapshot(db) = [rows |-> db.rows, events |-> events]
  BY DEF Snapshot
<1> HIDE DEF N, events, S
<1>5. events \in Seq(S) /\ Len(events) = N
  BY <1>1, <1>2
<1>6. IsTable(events)
  BY <1>5 DEF IsTable
<1> QED
  BY <1>3, <1>4, <1>5, <1>6 DEF WellKept, N

(* While others step, what an auditor sees grows, and a broken chain stays *)
(* broken.                                                                 *)
LEMMA SeenGrows ==
  ASSUME StoreOK, StoreOK', NEW s \in Sessions, Frame(s), NEW a \in Auditors \ {s}
  PROVE  /\ Extends(Seen(a)'.rows, Seen(a).rows)
         /\ Chained(Seen(a)'.events) => Chained(Seen(a).events)
         /\ Len(Seen(a).rows) \in Nat /\ Len(Seen(a)'.rows) \in Nat
<1>1. a # None
  BY AuditAssumption
<1>2. WellKept(Seen(a)) /\ WellKept(Seen(a)')
  BY <1>1, SeenKept DEF StoreOK, Seen, Grown
<1>3. Extends(Seen(a)'.rows, Seen(a).rows) /\ Extends(Seen(a)'.events, Seen(a).events)
  <2>1. CASE lock = a
    <3>1. a \in Sessions \ {s}
      BY <1>1, <2>1 DEF StoreOK
    <3>2. Seen(a)' = Seen(a)
      BY <2>1, <3>1 DEF Frame, Seen
    <3> QED
      BY <1>2, <3>2, KeptTables, ExtendsReflexive
  <2>2. CASE lock # a
    <3>1. lock' # a
      BY <1>1, <2>2 DEF Frame
    <3> QED
      BY <2>2, <3>1 DEF Frame, Seen, DiskOnlyGrows
  <2> QED
    BY <2>1, <2>2
<1> QED
  BY <1>2, <1>3, KeptTables, ChainedEarlier

LEMMA AuditorKept ==
  ASSUME StoreOK, StoreOK', NEW a \in Auditors, AuditorOK(a), audit'[a] = audit[a],
         \/ audit[a].pc \notin {"reading", "refused"}
         \/ UNCHANGED vars
         \/ \E s \in Sessions \ {a} : Frame(s)
  PROVE  AuditorOK(a)'
<1>1. CASE audit[a].pc \notin {"reading", "refused"}
  BY <1>1 DEF AuditorOK
<1>2. CASE UNCHANGED vars
  BY <1>2 DEF AuditorOK, WhileReading, Cause, vars, Seen
<1>3. CASE \E s \in Sessions \ {a} : Frame(s)
  <2>1. /\ Extends(Seen(a)'.rows, Seen(a).rows)
        /\ Chained(Seen(a)'.events) => Chained(Seen(a).events)
        /\ Len(Seen(a).rows) \in Nat /\ Len(Seen(a)'.rows) \in Nat
    BY <1>3, SeenGrows
  <2>2. ASSUME WhileReading(a) PROVE WhileReading(a)'
    <3>1. Len(audit[a].since.rows) \in Nat
      BY <2>2, KeptTables DEF WhileReading
    <3>2. Extends(Seen(a)'.rows, audit[a].since.rows)
      BY <2>1, <2>2, <3>1, ExtendsTransitive DEF WhileReading
    <3>3. ASSUME NEW e \in audit[a].uncovered
          PROVE  \E i \in 1 .. Len(Seen(a)'.rows) : e = Entry(Seen(a)'.rows[i].type, i)
      <4>1. PICK i \in 1 .. Len(Seen(a).rows) : e = Entry(Seen(a).rows[i].type, i)
        BY <2>2 DEF WhileReading
      <4>2. i \in 1 .. Len(Seen(a)'.rows) /\ Seen(a)'.rows[i] = Seen(a).rows[i]
        BY <2>1 DEF Extends
      <4> QED
        BY <4>1, <4>2
    <3> QED
      BY <2>2, <3>2, <3>3 DEF WhileReading
  <2>3. ASSUME Cause(a), Len(audit[a].since.rows) \in Nat PROVE Cause(a)'
    BY <2>1, <2>3 DEF Cause, Extends
  <2> QED
    BY <2>2, <2>3 DEF AuditorOK
<1> QED
  BY <1>1, <1>2, <1>3

LEMMA VerifiesStep ==
  ASSUME AuditOK, NEW a \in Auditors, AuditVerifies(a)
  PROVE  AuditorOK(a)'
<1> DEFINE pc == IF Chained(Seen(a).events) THEN "verified" ELSE "refused"
<1>1. /\ UNCHANGED vars
      /\ audit' = [audit EXCEPT ![a].pc = pc, ![a].head = Len(Seen(a).events)]
  BY DEF AuditVerifies
<1>2. audit'[a] = [pc |-> pc, head |-> Len(Seen(a).events), covered |-> audit[a].covered,
                   table |-> audit[a].table, uncovered |-> audit[a].uncovered,
                   since |-> audit[a].since]
  <2>1. audit'[a] = [audit[a] EXCEPT !.pc = pc, !.head = Len(Seen(a).events)]
    BY <1>1 DEF AuditOK
  <2> QED
    BY <2>1 DEF AuditOK, AuditorOK
<1>3. Seen(a)' = Seen(a)
  BY <1>1 DEF vars, Seen
<1> QED
  BY <1>2, <1>3 DEF AuditorOK, Cause

LEMMA BeginsStep ==
  ASSUME AuditOK, NEW a \in Auditors, AuditBegins(a)
  PROVE  AuditorOK(a)'
<1> DEFINE db == Seen(a)
<1>1. /\ UNCHANGED vars
      /\ audit' = [audit EXCEPT ![a] =
           [pc |-> "reading", head |-> @.head, covered |-> CoveredBy(db.events), table |-> 1,
            uncovered |-> {}, since |-> Snapshot(db)]]
  BY DEF AuditBegins
<1>2. audit'[a] = [pc |-> "reading", head |-> audit[a].head, covered |-> CoveredBy(db.events),
                   table |-> 1, uncovered |-> {}, since |-> Snapshot(db)]
  BY <1>1 DEF AuditOK
<1>3. Seen(a)' = db
  BY <1>1 DEF vars, Seen
<1>4. WellKept(db)
  BY SeenKept, AuditAssumption DEF AuditOK
<1> HIDE DEF db
<1>5. /\ WellKept(Snapshot(db)) /\ Snapshot(db).rows = db.rows
      /\ Len(Snapshot(db).events) = Len(db.events)
      /\ \A n \in 1 .. Len(db.events) : Snapshot(db).events[n].body = db.events[n].body
  BY <1>4, SnapshotKept
<1>6. CoveredBy(Snapshot(db).events) = CoveredBy(db.events)
  BY <1>5 DEF CoveredBy
<1>7. Extends(db.rows, Snapshot(db).rows)
  BY <1>4, <1>5, KeptTables, ExtendsReflexive
<1>8. WhileReading(a)'
  BY <1>2, <1>3, <1>5, <1>6, <1>7 DEF WhileReading
<1> QED
  BY <1>2, <1>8 DEF AuditorOK

LEMMA TableStep ==
  ASSUME AuditOK, NEW a \in Auditors, AuditTable(a)
  PROVE  AuditorOK(a)'
<1> DEFINE now == audit[a]
           type == AuditedTables[now.table]
           found == {Entry(type, i) : i \in RowsOf(Seen(a), {type})}
           held == now.uncovered \cup (found \ now.covered)
<1>1. /\ UNCHANGED vars /\ now.pc = "reading"
      /\ audit' = [audit EXCEPT ![a].table = @ + 1, ![a].uncovered = held]
  <2>1. [audit EXCEPT ![a].table = @ + 1, ![a].uncovered = @ \cup (found \ now.covered)]
          = [audit EXCEPT ![a].table = @ + 1, ![a].uncovered = held]
    BY DEF AuditOK, AuditorOK
  <2> QED
    BY <2>1 DEF AuditTable
<1> HIDE DEF held
<1>2. audit'[a] = [pc |-> now.pc, head |-> now.head, covered |-> now.covered,
                   table |-> now.table + 1, uncovered |-> held, since |-> now.since]
  <2>1. audit'[a] = [now EXCEPT !.table = @ + 1, !.uncovered = held]
    BY <1>1 DEF AuditOK
  <2> QED
    BY <2>1 DEF AuditOK, AuditorOK
<1>3. Seen(a)' = Seen(a)
  BY <1>1 DEF vars, Seen
<1>4. WhileReading(a)
  BY <1>1 DEF AuditOK, AuditorOK
<1> HIDE DEF found
<1>5. ASSUME NEW k \in 1 .. now.table, NEW i \in RowsOf(now.since, {AuditedTables[k]})
      PROVE  Entry(AuditedTables[k], i) \in now.covered \cup held
  <2>1. CASE k \in 1 .. now.table - 1
    BY <2>1, <1>4 DEF WhileReading, held
  <2>2. CASE k = now.table
    <3>1. i \in RowsOf(Seen(a), {type})
      <4>1. i \in 1 .. Len(now.since.rows) /\ now.since.rows[i].type = type
        BY <2>2 DEF RowsOf
      <4>2. Len(now.since.rows) \in Nat /\ Len(Seen(a).rows) \in Nat
        BY <1>4, SeenKept, AuditAssumption, KeptTables DEF WhileReading, AuditOK
      <4>3. i \in 1 .. Len(Seen(a).rows) /\ Seen(a).rows[i] = now.since.rows[i]
        BY <1>4, <4>1, <4>2 DEF WhileReading, Extends
      <4> QED
        BY <4>1, <4>3 DEF RowsOf
    <3>2. Entry(type, i) \in found
      BY <3>1 DEF found
    <3> QED
      BY <2>2, <3>2 DEF held
  <2> QED
    BY <2>1, <2>2, <1>4 DEF WhileReading
<1>6. ASSUME NEW e \in held
      PROVE  /\ e \notin now.covered
             /\ \E i \in 1 .. Len(Seen(a).rows) : e = Entry(Seen(a).rows[i].type, i)
  <2>1. CASE e \in now.uncovered
    BY <2>1, <1>4 DEF WhileReading
  <2>2. CASE e \in found \ now.covered
    <3>1. PICK i \in RowsOf(Seen(a), {type}) : e = Entry(type, i)
      BY <2>2 DEF found
    <3>2. i \in 1 .. Len(Seen(a).rows) /\ Seen(a).rows[i].type = type
      BY DEF RowsOf
    <3> QED
      BY <2>2, <3>1, <3>2
  <2> QED
    BY <2>1, <2>2 DEF held
<1>7. WhileReading(a)'
  BY <1>2, <1>3, <1>4, <1>5, <1>6 DEF WhileReading
<1>8. audit'[a].pc = "reading"
  BY <1>1, <1>2
<1>9. audit'[a] = [pc |-> audit'[a].pc, head |-> audit'[a].head, covered |-> audit'[a].covered,
                   table |-> audit'[a].table, uncovered |-> audit'[a].uncovered,
                   since |-> audit'[a].since]
  BY <1>2
<1> QED
  BY <1>7, <1>8, <1>9 DEF AuditorOK

LEMMA EndsStep ==
  ASSUME AuditOK, NEW a \in Auditors, AuditEnds(a)
  PROVE  AuditorOK(a)'
<1> DEFINE now == audit[a]
           pc == IF now.uncovered = {} THEN "valid" ELSE "refused"
<1>1. /\ UNCHANGED vars /\ now.pc = "reading" /\ now.table > Len(AuditedTables)
      /\ audit' = [audit EXCEPT ![a].pc = pc, ![a].covered = {}]
  BY DEF AuditEnds
<1>2. audit'[a] = [pc |-> pc, head |-> now.head, covered |-> {}, table |-> now.table,
                   uncovered |-> now.uncovered, since |-> now.since]
  <2>1. audit'[a] = [now EXCEPT !.pc = pc, !.covered = {}]
    BY <1>1 DEF AuditOK
  <2> QED
    BY <2>1 DEF AuditOK, AuditorOK
<1>3. Seen(a)' = Seen(a)
  BY <1>1 DEF vars, Seen
<1>4. WhileReading(a)
  BY <1>1 DEF AuditOK, AuditorOK
<1>5. WellKept(now.since) /\ Extends(Seen(a).rows, now.since.rows)
  BY <1>4 DEF WhileReading
<1>6. CASE now.uncovered = {}
  <2>1. ASSUME NEW i \in 1 .. Len(now.since.rows) PROVE Ledgered(now.since, i)
    <3>1. PICK k \in 1 .. Len(AuditedTables) : AuditedTables[k] = now.since.rows[i].type
      BY <1>5, EveryTypeAudited DEF WellKept
    <3>2. i \in RowsOf(now.since, {AuditedTables[k]})
      BY <3>1 DEF RowsOf
    <3>3. k \in 1 .. now.table - 1
      BY <1>1, <1>4, EveryTypeAudited DEF WhileReading
    <3>4. Entry(now.since.rows[i].type, i) \in CoveredBy(now.since.events)
      BY <3>1, <3>2, <3>3, <1>4, <1>6 DEF WhileReading
    <3> QED
      BY <3>4, <1>5, CoveredIsLedgered
  <2>2. RowsLedgered(now.since)
    BY <2>1 DEF RowsLedgered
  <2> QED
    BY <2>2, <1>2, <1>6 DEF AuditorOK
<1>7. CASE now.uncovered # {}
  <2>1. PICK i \in 1 .. Len(Seen(a).rows) :
          Entry(Seen(a).rows[i].type, i) \notin CoveredBy(now.since.events)
    BY <1>4, <1>7 DEF WhileReading
  <2>2. CASE i \in 1 .. Len(now.since.rows)
    <3>1. Seen(a).rows[i] = now.since.rows[i]
      BY <1>5, <2>2 DEF Extends
    <3>2. ~Ledgered(now.since, i)
      BY <3>1, <2>1, <2>2, <1>5, CoveredIsLedgered
    <3> QED
      BY <3>2, <2>2, <1>2, <1>7 DEF AuditorOK, Cause, RowsLedgered
  <2>3. CASE i \notin 1 .. Len(now.since.rows)
    <3>1. Len(Seen(a).rows) > Len(now.since.rows)
      BY <2>3, <1>5, KeptTables DEF Extends
    <3> QED
      BY <3>1, <1>2, <1>3, <1>7 DEF AuditorOK, Cause
  <2> QED
    BY <2>2, <2>3
<1> QED
  BY <1>6, <1>7

LEMMA NotAuditing ==
  ASSUME AuditOK, NEW a \in Auditors, AuditAgain(a) \/ AuditLeaves(a)
  PROVE  AuditorOK(a)'
<1>1. audit'[a] = NewAudit \/ audit'[a] = AuditLeft
  BY DEF AuditAgain, AuditLeaves, AuditOK
<1> QED
  BY <1>1 DEF AuditorOK, NewAudit, AuditLeft

LEMMA AuditStart == AuditInit => AuditOK
<1> SUFFICES ASSUME AuditInit PROVE AuditOK
  OBVIOUS
<1>1. WellKept(disk)
  BY AuditAssumption DEF AuditInit
<1>2. StoreOK
  BY <1>1, ConstantsAssumption DEF AuditInit, StoreOK, SessionOK, NoRow
<1>3. ASSUME NEW a \in Auditors PROVE AuditorOK(a)
  BY DEF AuditInit, AuditorOK, NewAudit
<1> QED
  BY <1>2, <1>3 DEF AuditOK, AuditInit

LEMMA AuditOKStep == AuditOK /\ [AuditNext]_auditVars => AuditOK'
<1> SUFFICES ASSUME AuditOK, [AuditNext]_auditVars PROVE AuditOK'
  OBVIOUS
<1> USE DEF AuditOK
<1>1. ASSUME NEW a \in Auditors, AuditStep(a) PROVE AuditOK'
  <2>1. /\ UNCHANGED vars /\ audit' = [b \in Auditors |-> audit'[b]]
        /\ \A b \in Auditors \ {a} : audit'[b] = audit[b]
    BY <1>1 DEF AuditStep, AuditVerifies, AuditBegins, AuditTable, AuditEnds
  <2>2. StoreOK'
    BY <2>1 DEF StoreOK, vars, SessionOK, Grown
  <2>3. AuditorOK(a)'
    BY <1>1, VerifiesStep, BeginsStep, TableStep, EndsStep DEF AuditStep
  <2>4. \A b \in Auditors \ {a} : AuditorOK(b)'
    BY <2>1, <2>2, AuditorKept
  <2> QED
    BY <2>1, <2>2, <2>3, <2>4
<1>2. ASSUME NEW a \in Auditors \cap Sessions, AuditAgain(a) \/ AuditLeaves(a) PROVE AuditOK'
  <2>1. /\ audit' = [b \in Auditors |-> audit'[b]]
        /\ \A b \in Auditors \ {a} : audit'[b] = audit[b]
    BY <1>2 DEF AuditAgain, AuditLeaves
  <2>2. (UNCHANGED vars /\ StoreOK') \/ (Frame(a) /\ StoreOK')
    <3>1. CASE UNCHANGED vars
      BY <3>1 DEF StoreOK, vars, SessionOK, Grown
    <3>2. CASE Close(a)
      BY <3>2, DiscardStep
    <3> QED
      BY <1>2, <3>1, <3>2 DEF AuditAgain, AuditLeaves
  <2>3. AuditorOK(a)'
    BY <1>2, NotAuditing
  <2>4. \A b \in Auditors \ {a} : AuditorOK(b)'
    BY <2>1, <2>2, AuditorKept
  <2> QED
    BY <2>1, <2>2, <2>3, <2>4
<1>3. ASSUME NEW s \in Sessions, MayWrite(s), AddsRow(s) \/ SessionStep(s), UNCHANGED audit
      PROVE  AuditOK'
  <2>1. Frame(s) /\ StoreOK'
    BY <1>3, SessionStepFrame
  <2>2. ASSUME NEW a \in Auditors PROVE AuditorOK(a)'
    <3>1. CASE a = s
      BY <3>1, <2>1, <1>3, AuditorKept DEF MayWrite
    <3>2. CASE a # s
      BY <3>2, <2>1, <1>3, AuditorKept
    <3> QED
      BY <3>1, <3>2
  <2> QED
    BY <2>1, <2>2, <1>3
<1>4. CASE UNCHANGED auditVars
  <2>1. UNCHANGED vars /\ UNCHANGED audit
    BY <1>4 DEF auditVars, vars
  <2>2. StoreOK'
    BY <2>1 DEF StoreOK, vars, SessionOK, Grown
  <2> QED
    BY <2>1, <2>2, AuditorKept
<1> QED
  BY <1>1, <1>2, <1>3, <1>4 DEF AuditNext

LEMMA AuditInvariance == AuditSpec => []AuditOK
BY AuditStart, AuditOKStep, PTL DEF AuditSpec

LEMMA AuditOKSuffices == AuditOK => ValidMeansLedgered /\ RefusalHasCause
<1> SUFFICES ASSUME AuditOK, NEW a \in Auditors
             PROVE  /\ audit[a].pc = "valid" => RowsLedgered(audit[a].since)
                    /\ audit[a].pc = "refused" =>
                         \/ ~Chained(Seen(a).events)
                         \/ ~RowsLedgered(audit[a].since)
                         \/ Seen(a).rows # audit[a].since.rows
  BY DEF ValidMeansLedgered, RefusalHasCause
<1>1. AuditorOK(a)
  BY DEF AuditOK
<1>2. WellKept(Seen(a))
  BY SeenKept, AuditAssumption DEF AuditOK
<1> QED
  BY <1>1, <1>2, KeptTables DEF AuditorOK, Cause

(* "Audit ledger coverage so unledgered evidence rows fail report          *)
(* generation" (specs/001, tasks.md, T025): whatever other sessions commit *)
(* while it reads, and whatever it is given to read, an audit that says    *)
(* valid began on a database whose rows all had their events.              *)
THEOREM ValidAlwaysMeansLedgered == AuditSpec => []ValidMeansLedgered
BY AuditInvariance, AuditOKSuffices, PTL

(* And one that refuses found a broken chain or a row without its event,   *)
(* or was overtaken by a commit.                                           *)
THEOREM RefusalAlwaysHasCause == AuditSpec => []RefusalHasCause
BY AuditInvariance, AuditOKSuffices, PTL

----------------------------------------------------------------------------
(* The commands of Reporting keep to AuditSpec: one that audits writes     *)
(* when its audit is valid, and a session in the middle of a flush is not  *)
(* one that audits.                                                        *)
SessionsBehind ==
  /\ session = [s \in Sessions |-> session[s]]
  /\ audit = [a \in Auditors |-> audit[a]]
  /\ \A s \in Sessions : session[s].pc # "idle" => MayWrite(s)

Behind ==
  /\ SessionsBehind
  /\ report = [pc |-> report.pc, monthly |-> report.monthly, quarterly |-> report.quarterly,
               section |-> report.section, part |-> report.part]
  /\ load = [pc |-> load.pc, feed |-> load.feed, response |-> load.response, todo |-> load.todo]
  /\ report.pc \in {"querying", "sections"} => audit[Generator].pc = "valid"
  /\ load.pc \in {"fetching", "recording", "normalizing", "adding"} => audit[Loader].pc = "valid"

LEMMA Distinct ==
  /\ Generator \in Sessions \cap Auditors /\ Loader \in Sessions \cap Auditors
  /\ Generator # Loader /\ Viewer \notin Sessions /\ Reader \notin Sessions
  /\ Viewer \in Auditors
  /\ Harvester \in Sessions \ Auditors /\ Analyst \in Sessions \ Auditors
BY InsightsAssumption, UniversityAssumption, ReaderAssumption, ReportingAssumption

LEMMA BehindStart == ReportingInit => Behind
<1> SUFFICES ASSUME ReportingInit PROVE Behind
  OBVIOUS
<1>1. SessionsBehind
  BY DEF ReportingInit, AuditInit, SessionsBehind
<1>2. report = ReportOff \/ report = ReportNew
  BY DEF ReportingInit
<1>3. load = LoadOff \/ load = LoadNew
  BY DEF ReportingInit
<1> QED
  BY <1>1, <1>2, <1>3 DEF Behind, ReportOff, ReportNew, LoadOff, LoadNew

(* What a row is built of, it is of the type that was asked for.           *)
LEMMA NewRowType ==
  ASSUME NEW type \in Types, NEW key, NEW refs, NEW says, NEW db
  PROVE  /\ FirstVersion(type, key, refs, says).type \in Types
         /\ NextVersionOf(db, type, key, refs, says).type \in Types
<1>1. FirstVersion(type, key, refs, says).type = type
  BY DEF FirstVersion
<1>2. ASSUME NEW v, NEW w
      PROVE  [FirstVersion(type, key, refs, says) EXCEPT !.version = v, !.supersedes = w].type = type
  BY DEF FirstVersion
<1>3. NextVersionOf(db, type, key, refs, says).type = type
  BY <1>1, <1>2 DEF NextVersionOf
<1> QED
  BY <1>1, <1>3

LEMMA PreparedRow ==
  ASSUME SessionsBehind, NEW s \in Sessions, NEW row, row.type \in Types, Prepare(s, row)
  PROVE  AddsRow(s)
<1>1. session'[s].row = row
  BY DEF Prepare, SessionsBehind
<1> QED
  BY <1>1 DEF AddsRow

LEMMA RepositoryAdds ==
  ASSUME SessionsBehind, NEW s \in Sessions, NEW key, NEW refs, NEW says,
         \/ AddSourceArtifact(s, says) \/ AddEvidence(s, refs, says)
         \/ AddObservation(s, key, refs, says) \/ AddDerivedMetric(s, key, refs, says)
         \/ AddTaxonomyMapping(s, key, refs, says) \/ AddClaim(s, key, says)
         \/ AddChallenge(s, key, refs, says) \/ ReviseChallenge(s, key, says)
  PROVE  AddsRow(s)
<1>1. CASE \E type \in Types : \E r, k : Prepare(s, FirstVersion(type, k, r, says))
  BY <1>1, NewRowType, PreparedRow
<1>2. CASE \E type \in Types : \E r : Prepare(s, NextVersionOf(Seen(s), type, key, r, says))
  BY <1>2, NewRowType, PreparedRow
<1> QED
  BY <1>1, <1>2
  DEF AddSourceArtifact, AddEvidence, AddUnversioned, AddObservation, AddDerivedMetric,
      AddTaxonomyMapping, AddClaim, AddVersioned, AddChallenge, ReviseChallenge, Types,
      Unversioned, Revisable

(* A step of a session that may write.                                     *)
LEMMA WriterStep ==
  ASSUME SessionsBehind, NEW s \in Sessions, MayWrite(s), AddsRow(s) \/ SessionStep(s),
         UNCHANGED audit
  PROVE  AuditNext /\ SessionsBehind'
<1>1. AuditNext
  BY DEF AuditNext
<1>2. /\ session' = [t \in Sessions |-> session'[t]]
      /\ \A t \in Sessions \ {s} : session'[t] = session[t]
  BY DEF SessionsBehind, AddsRow, SessionStep, Prepare, Insert, AppendEvent, AppendRaises,
         FlushFails, Commit, Close, Goto
<1>3. SessionsBehind'
  BY <1>2 DEF SessionsBehind, MayWrite
<1> QED
  BY <1>1, <1>3

(* A step of nobody's, as far as the database is concerned.                *)
LEMMA StutterStep ==
  ASSUME SessionsBehind, UNCHANGED auditVars
  PROVE  [AuditNext]_auditVars /\ SessionsBehind' /\ UNCHANGED audit
BY DEF SessionsBehind, auditVars, MayWrite

LEMMA LeavesStep ==
  ASSUME SessionsBehind, NEW a \in Auditors \cap Sessions, AuditLeaves(a)
  PROVE  /\ AuditNext /\ SessionsBehind'
         /\ \A b \in Auditors \ {a} : audit'[b] = audit[b]
<1>1. AuditNext
  BY DEF AuditNext
<1>2. /\ audit' = [b \in Auditors |-> audit'[b]]
      /\ \A b \in Auditors \ {a} : audit'[b] = audit[b]
  BY DEF AuditLeaves, SessionsBehind
<1>3. /\ session' = [t \in Sessions |-> session'[t]]
      /\ session'[a].pc = "idle"
      /\ \A t \in Sessions \ {a} : session'[t] = session[t]
  BY DEF AuditLeaves, Close, vars, SessionsBehind
<1>4. SessionsBehind'
  BY <1>2, <1>3 DEF SessionsBehind, MayWrite
<1> QED
  BY <1>1, <1>2, <1>4

LEMMA AuditStepBehind ==
  ASSUME Behind, NEW a \in Auditors, AuditStep(a), UNCHANGED <<report, load>>
  PROVE  AuditNext /\ Behind'
<1>1. AuditNext
  BY DEF AuditNext
<1>2. /\ audit[a].pc # "valid" /\ UNCHANGED vars
      /\ audit' = [b \in Auditors |-> audit'[b]]
      /\ \A b \in Auditors \ {a} : audit'[b] = audit[b]
  BY DEF AuditStep, AuditVerifies, AuditBegins, AuditTable, AuditEnds, Behind, SessionsBehind
<1>3. \A s \in Sessions : session'[s].pc # "idle" => s # a
  BY <1>2 DEF vars, Behind, SessionsBehind, MayWrite
<1>4. SessionsBehind'
  BY <1>2, <1>3 DEF SessionsBehind, MayWrite, vars, Behind
<1> QED
  BY <1>1, <1>2, <1>4, Distinct DEF Behind

(* The report: it adds rows in its sections only.                          *)
LEMMA ReportBehind ==
  ASSUME Behind, ReportStep, UNCHANGED load
  PROVE  [AuditNext]_auditVars /\ Behind'
<1> DEFINE Shape == report = [pc |-> report.pc, monthly |-> report.monthly,
                              quarterly |-> report.quarterly, section |-> report.section,
                              part |-> report.part]
<1> USE Distinct
<1>1. SessionsBehind /\ Shape
  BY DEF Behind
<1>2. ASSUME [AuditNext]_auditVars, SessionsBehind', UNCHANGED audit, Shape',
             report'.pc \in {"querying", "sections"} => audit[Generator].pc = "valid"
      PROVE  [AuditNext]_auditVars /\ Behind'
  BY <1>2 DEF Behind
<1>3. CASE ReportQueriesMonthly
  <2>1. /\ Shape' /\ audit[Generator].pc = "valid" /\ UNCHANGED auditVars
    BY <1>1, <1>3 DEF ReportQueriesMonthly
  <2> QED
    BY <1>1, <1>2, <2>1, StutterStep
<1>4. CASE ReportQueriesQuarterly
  <2>1. /\ Shape' /\ audit[Generator].pc = "valid" /\ UNCHANGED auditVars
    BY <1>1, <1>4 DEF ReportQueriesQuarterly, Behind
  <2> QED
    BY <1>1, <1>2, <2>1, StutterStep
<1>5. CASE ReportSkipsSection
  <2>1. /\ Shape' /\ audit[Generator].pc = "valid" /\ UNCHANGED auditVars
    BY <1>1, <1>5 DEF ReportSkipsSection, ReportAt, NextSection, Behind, auditVars, vars
  <2> QED
    BY <1>1, <1>2, <2>1, StutterStep
<1>6. CASE ReportAddsMetric \/ ReportAddsClaim \/ ReportAddsEvidence
  <2>1. /\ Shape' /\ report.pc = "sections" /\ UNCHANGED audit
    BY <1>1, <1>6 DEF ReportAddsMetric, ReportAddsClaim, ReportAddsEvidence, ReportAt, NextPart,
                      NextSection
  <2>2. audit[Generator].pc = "valid"
    BY <2>1 DEF Behind
  <2>3. AddsRow(Generator)
    BY <1>1, <1>6, RepositoryAdds DEF ReportAddsMetric, ReportAddsClaim, ReportAddsEvidence
  <2> QED
    BY <1>1, <1>2, <2>1, <2>2, <2>3, WriterStep DEF MayWrite
<1>7. CASE ReportCommits
  <2>1. /\ report' = [ReportOff EXCEPT !.pc = "reported"] /\ UNCHANGED audit
        /\ report.pc = "sections"
    BY <1>7 DEF ReportCommits, ReportAt
  <2>2. Shape' /\ report'.pc = "reported" /\ audit[Generator].pc = "valid"
    BY <2>1 DEF ReportOff, Behind
  <2>3. CASE Commit(Generator)
    BY <1>1, <1>2, <2>1, <2>2, <2>3, WriterStep DEF MayWrite, SessionStep
  <2>4. CASE UNCHANGED vars
    BY <1>1, <1>2, <2>1, <2>2, <2>4, StutterStep DEF auditVars, vars
  <2> QED
    BY <1>7, <2>3, <2>4 DEF ReportCommits
<1>8. CASE ReportFails
  <2>1. AuditLeaves(Generator) /\ report' = [ReportOff EXCEPT !.pc = "failed"]
    BY <1>8 DEF ReportFails
  <2>2. Shape' /\ report'.pc = "failed"
    BY <2>1 DEF ReportOff
  <2>3. AuditNext /\ SessionsBehind' /\ audit'[Loader] = audit[Loader]
    BY <1>1, <2>1, LeavesStep
  <2> QED
    BY <2>2, <2>3 DEF Behind
<1> QED
  BY <1>3, <1>4, <1>5, <1>6, <1>7, <1>8 DEF ReportStep

(* The load: it writes between its two audits, and commits after both.     *)
LEMMA LoadBehind ==
  ASSUME Behind, LoadStep, UNCHANGED report
  PROVE  [AuditNext]_auditVars /\ Behind'
<1> DEFINE Shape == load = [pc |-> load.pc, feed |-> load.feed, response |-> load.response,
                            todo |-> load.todo]
           Writing == load.pc \in {"fetching", "recording", "normalizing", "adding"}
<1> USE Distinct
<1>1. SessionsBehind /\ Shape /\ (Writing => audit[Loader].pc = "valid")
  BY DEF Behind
<1>2. ASSUME [AuditNext]_auditVars, SessionsBehind', UNCHANGED audit, Shape',
             Writing' => audit[Loader].pc = "valid"
      PROVE  [AuditNext]_auditVars /\ Behind'
  BY <1>2 DEF Behind
<1>3. CASE LoadStarts \/ LoadFetches \/ LoadNormalizes \/ LoadEndsFeed
  <2>1. UNCHANGED auditVars /\ audit[Loader].pc = "valid"
    BY <1>1, <1>3 DEF LoadStarts, LoadFetches, LoadNormalizes, LoadEndsFeed
  <2>2. Shape'
    BY <1>1, <1>3 DEF LoadStarts, LoadFetches, LoadNormalizes, LoadEndsFeed
  <2> QED
    BY <1>1, <1>2, <2>1, <2>2, StutterStep
<1>4. CASE LoadRecords \/ LoadAdds
  <2>1. UNCHANGED audit /\ audit[Loader].pc = "valid" /\ AddsRow(Loader)
    BY <1>1, <1>4, RepositoryAdds DEF LoadRecords, LoadAdds
  <2>2. Shape'
    BY <1>1, <1>4 DEF LoadRecords, LoadAdds
  <2> QED
    BY <1>1, <1>2, <2>1, <2>2, WriterStep DEF MayWrite
<1>5. CASE LoadAuditsAgain
  <2>1. /\ UNCHANGED vars /\ session[Loader].pc = "idle"
        /\ audit' = [audit EXCEPT ![Loader] = NewAudit]
        /\ load' = [load EXCEPT !.pc = "audited", !.response = None]
    BY <1>5 DEF LoadAuditsAgain, AuditAgain
  <2>2. AuditNext
    BY <1>5 DEF LoadAuditsAgain, AuditNext
  <2>3. Shape' /\ load'.pc = "audited"
    BY <1>1, <2>1
  <2>4. SessionsBehind' /\ audit'[Generator] = audit[Generator]
    BY <1>1, <2>1 DEF SessionsBehind, MayWrite, vars
  <2> QED
    BY <2>2, <2>3, <2>4 DEF Behind
<1>6. CASE LoadCommits
  <2>1. /\ audit[Loader].pc = "valid" /\ Commit(Loader) /\ UNCHANGED audit
        /\ load' = [LoadOff EXCEPT !.pc = "loaded"]
    BY <1>6 DEF LoadCommits
  <2>2. Shape'
    BY <2>1 DEF LoadOff
  <2> QED
    BY <1>1, <1>2, <2>1, <2>2, WriterStep DEF MayWrite, SessionStep
<1>7. CASE LoadFails
  <2>1. AuditLeaves(Loader) /\ load' = [LoadOff EXCEPT !.pc = "failed"]
    BY <1>7 DEF LoadFails
  <2>2. Shape' /\ load'.pc = "failed"
    BY <2>1 DEF LoadOff
  <2>3. AuditNext /\ SessionsBehind' /\ audit'[Generator] = audit[Generator]
    BY <1>1, <2>1, LeavesStep
  <2> QED
    BY <2>2, <2>3 DEF Behind
<1> QED
  BY <1>3, <1>4, <1>5, <1>6, <1>7 DEF LoadStep

(* Everyone else.                                                          *)
LEMMA OthersBehind ==
  ASSUME Behind, UNCHANGED <<report, load>>,
         \/ ViewStep \/ ContextStep \/ Flushes
         \/ HarvesterObserves \/ AnalystChallenges \/ AnalystRevises \/ OthersEnd
  PROVE  [AuditNext]_auditVars /\ Behind'
<1> USE Distinct
<1>1. SessionsBehind
  BY DEF Behind
<1>2. ASSUME [AuditNext]_auditVars, SessionsBehind', UNCHANGED audit
      PROVE  [AuditNext]_auditVars /\ Behind'
  BY <1>2 DEF Behind
<1>3. CASE ViewStep \/ ContextStep
  <2>1. UNCHANGED auditVars
    BY <1>3 DEF ViewStep, ViewReadsAwards, ViewReadsOutcomes, ViewReadsMappings,
                ViewReadsCoverage, ViewReadsHead, ContextStep, ContextMissesClaim,
                ContextReadsEdges, ContextReadsSupport, ContextGetsArtifacts,
                ContextListsChallenges, ContextReadsStatus, TraceTo
  <2> QED
    BY <1>1, <1>2, <2>1, StutterStep
<1>4. CASE Flushes
  <2>1. PICK s \in Sessions : Insert(s) \/ Events(s) \/ FlushFails(s)
    BY <1>4 DEF Flushes
  <2>2. SessionStep(s) /\ session[s].pc # "idle" /\ UNCHANGED audit
    BY <1>4, <2>1 DEF Flushes, Events, SessionStep, Insert, AppendEvent, AppendRaises, FlushFails
  <2> QED
    BY <1>1, <1>2, <2>2, WriterStep DEF SessionsBehind
<1>5. CASE HarvesterObserves \/ AnalystChallenges \/ AnalystRevises \/ OthersEnd
  <2>1. UNCHANGED audit
    BY <1>5 DEF HarvesterObserves, AnalystChallenges, AnalystRevises, OthersEnd, Writes
  <2>2. AddsRow(Harvester) \/ AddsRow(Analyst) \/ SessionStep(Harvester) \/ SessionStep(Analyst)
    BY <1>1, <1>5, RepositoryAdds
    DEF HarvesterObserves, AnalystChallenges, AnalystRevises, OthersEnd, Others, Writes, SessionStep
  <2>3. MayWrite(Harvester) /\ MayWrite(Analyst)
    BY DEF MayWrite
  <2> QED
    BY <1>1, <1>2, <2>1, <2>2, <2>3, WriterStep
<1> QED
  BY <1>3, <1>4, <1>5

LEMMA ReportingKeepsToAudit ==
  Behind /\ [ReportingNext]_reportingVars => [AuditNext]_auditVars /\ Behind'
<1> SUFFICES ASSUME Behind, [ReportingNext]_reportingVars
             PROVE  [AuditNext]_auditVars /\ Behind'
  OBVIOUS
<1>1. CASE CommandAudits
  BY <1>1, AuditStepBehind DEF CommandAudits, commandVars
<1>2. CASE ReportStep /\ UNCHANGED load
  BY <1>2, ReportBehind
<1>3. CASE LoadStep /\ UNCHANGED report
  BY <1>3, LoadBehind
<1>4. CASE /\ UNCHANGED <<report, load>>
           /\ \/ ViewStep \/ ContextStep \/ Flushes
              \/ HarvesterObserves \/ AnalystChallenges \/ AnalystRevises \/ OthersEnd
  BY <1>4, OthersBehind
<1>5. CASE UNCHANGED reportingVars
  <2>1. UNCHANGED auditVars /\ UNCHANGED <<report, load>>
    BY <1>5 DEF reportingVars, auditVars
  <2> QED
    BY <2>1, StutterStep DEF Behind
<1>6. Flushes \/ HarvesterObserves \/ AnalystChallenges \/ AnalystRevises \/ OthersEnd
        => UNCHANGED <<report, load>>
  BY DEF Flushes, HarvesterObserves, AnalystChallenges, AnalystRevises, OthersEnd, Writes,
         commandVars
<1> QED
  BY <1>1, <1>2, <1>3, <1>4, <1>5, <1>6 DEF ReportingNext

(* require_audit and InsightsReportGenerator.generate: whatever a command  *)
(* does, and wherever it fails, it never writes behind an audit that has   *)
(* not said valid.                                                         *)
THEOREM CommandsAuditFirst == ReportingSpec => AuditSpec
<1>1. ReportingInit => AuditInit /\ Behind
  BY BehindStart DEF ReportingInit
<1> QED
  BY <1>1, ReportingKeepsToAudit, PTL DEF ReportingSpec, AuditSpec

----------------------------------------------------------------------------
LEMMA StepFrames ==
  ASSUME AuditOK, [AuditNext]_auditVars
  PROVE  UNCHANGED vars \/ \E s \in Sessions : Frame(s)
<1>1. ASSUME NEW s \in Sessions, AddsRow(s) \/ SessionStep(s) PROVE Frame(s)
  BY <1>1, SessionStepFrame DEF AuditOK
<1>2. ASSUME NEW a \in Auditors, AuditStep(a) PROVE UNCHANGED vars
  BY <1>2 DEF AuditStep, AuditVerifies, AuditBegins, AuditTable, AuditEnds
<1>3. ASSUME NEW a \in Auditors \cap Sessions, AuditAgain(a) \/ AuditLeaves(a)
      PROVE  UNCHANGED vars \/ Frame(a)
  BY <1>1, <1>3 DEF AuditAgain, AuditLeaves, SessionStep
<1>4. UNCHANGED auditVars => UNCHANGED vars
  BY DEF auditVars, vars
<1> QED
  BY <1>1, <1>2, <1>3, <1>4 DEF AuditNext

LEMMA DiskGrowsInStep ==
  ASSUME AuditOK, [AuditNext]_auditVars
  PROVE  DiskOnlyGrows
BY StepFrames, DiskGrows DEF AuditOK, Frame, vars

(* The universities' report has read rows of the database only, and when   *)
(* it has the head, their events are under it.                             *)
ViewedRows == view.awards \cup view.outcomes \cup view.mappings \cup view.coverage

ViewOK ==
  /\ view = [pc |-> view.pc, awards |-> view.awards, outcomes |-> view.outcomes,
             mappings |-> view.mappings, coverage |-> view.coverage, head |-> view.head]
  /\ ViewedRows \subseteq 1 .. Len(disk.rows)
  /\ HeadCoversReport

LEMMA ViewStart == ReportingInit => ViewOK
BY DEF ReportingInit, ViewOK, ViewedRows, HeadCoversReport, ViewOff, ViewNew

LEMMA ViewReads ==
  ASSUME ViewOK, Len(disk.events) \in Nat, ViewStep
  PROVE  ViewOK'
<1>1. disk' = disk
  BY DEF ViewStep, ViewReadsAwards, ViewReadsOutcomes, ViewReadsMappings, ViewReadsCoverage,
         ViewReadsHead, auditVars
<1>2. /\ \A type : RowsOf(disk, {type}) \subseteq 1 .. Len(disk.rows)
      /\ NewestOf(disk, "completions") \subseteq 1 .. Len(disk.rows)
      /\ NewestOf(disk, "scorecard") \subseteq 1 .. Len(disk.rows)
  BY DEF RowsOf, NewestOf
<1>3. /\ view' = [pc |-> view'.pc, awards |-> view'.awards, outcomes |-> view'.outcomes,
                  mappings |-> view'.mappings, coverage |-> view'.coverage, head |-> view'.head]
      /\ ViewedRows' \subseteq 1 .. Len(disk.rows)
  <2>1. CASE ViewReadsAwards
    BY <2>1, <1>2 DEF ViewReadsAwards, ViewOK, ViewedRows
  <2>2. CASE ViewReadsOutcomes
    BY <2>2, <1>2 DEF ViewReadsOutcomes, ViewOK, ViewedRows
  <2>3. CASE ViewReadsMappings
    <3>1. view' = [view EXCEPT !.pc = "mappings", !.mappings = RowsOf(disk, {"taxonomy_mapping"})]
      BY <2>3 DEF ViewReadsMappings
    <3>2. RowsOf(disk, {"taxonomy_mapping"}) \subseteq 1 .. Len(disk.rows)
      BY <1>2
    <3> QED
      BY <3>1, <3>2 DEF ViewOK, ViewedRows
  <2>4. CASE ViewReadsCoverage
    BY <2>4, <1>2 DEF ViewReadsCoverage, ViewOK, ViewedRows
  <2>5. CASE ViewReadsHead
    BY <2>5, <1>2 DEF ViewReadsHead, ViewOK, ViewedRows
  <2> QED
    BY <2>1, <2>2, <2>3, <2>4, <2>5 DEF ViewStep
<1>4. view'.pc = "reported" => view'.head = Len(disk.events)
  BY DEF ViewStep, ViewReadsAwards, ViewReadsOutcomes, ViewReadsMappings, ViewReadsCoverage,
         ViewReadsHead, HeadNow, ViewOK
<1>5. HeadCoversReport'
  BY <1>1, <1>4 DEF HeadCoversReport
<1> QED
  BY <1>1, <1>3, <1>5 DEF ViewOK

LEMMA ViewKept ==
  ASSUME ViewOK, StoreOK, DiskOnlyGrows, StoreOK', UNCHANGED view
  PROVE  ViewOK'
<1>1. /\ Len(disk.rows) \in Nat /\ Len(disk.events) \in Nat /\ Len(disk'.rows) \in Nat
      /\ Len(disk'.events) \in Nat
  BY KeptTables DEF StoreOK
<1>2. ViewedRows' \subseteq 1 .. Len(disk'.rows)
  BY <1>1 DEF ViewOK, ViewedRows, DiskOnlyGrows, Extends
<1>3. ASSUME view.pc = "reported", NEW i \in ViewedRows, NEW n \in 1 .. Len(disk'.events),
             disk'.events[n].body.entity = i
      PROVE  n <= view.head
  <2>1. i \in 1 .. Len(disk.rows)
    BY DEF ViewOK
  <2>2. n \in 1 .. Len(disk.events)
    BY <1>1, <1>3, <2>1 DEF DiskOnlyGrows
  <2>3. disk.events[n].body.entity = i
    BY <1>3, <2>2 DEF DiskOnlyGrows, Extends
  <2> QED
    BY <1>3, <2>2, <2>3 DEF ViewOK, HeadCoversReport, ViewedRows
<1>4. HeadCoversReport'
  BY <1>3 DEF HeadCoversReport, ViewedRows
<1> QED
  BY <1>2, <1>4 DEF ViewOK

(* university_report takes verify_ledger(session).head_hash last, so that  *)
(* the event of every row it has read is under the hash it prints, however *)
(* many commits came between its SELECTs.                                  *)
THEOREM HeadAlwaysCovers == ReportingSpec => []HeadCoversReport
<1>1. ReportingInit => AuditOK /\ Behind /\ ViewOK
  BY BehindStart, ViewStart, AuditStart DEF ReportingInit
<1>2. ASSUME AuditOK, Behind, ViewOK, [ReportingNext]_reportingVars
      PROVE  AuditOK' /\ Behind' /\ ViewOK'
  <2>1. [AuditNext]_auditVars /\ Behind'
    BY <1>2, ReportingKeepsToAudit
  <2>2. AuditOK' /\ DiskOnlyGrows
    BY <1>2, <2>1, AuditOKStep, DiskGrowsInStep
  <2>3. ViewStep \/ UNCHANGED view
    BY <1>2 DEF ReportingNext, reportingVars, CommandAudits, commandVars, Flushes,
                HarvesterObserves, AnalystChallenges, AnalystRevises, OthersEnd, Writes
  <2>4. ViewOK'
    BY <1>2, <2>2, <2>3, ViewReads, ViewKept, KeptTables DEF AuditOK, StoreOK
  <2> QED
    BY <2>1, <2>2, <2>4
<1>3. AuditOK /\ Behind /\ ViewOK /\ [ReportingNext]_reportingVars => AuditOK' /\ Behind' /\ ViewOK'
  BY <1>2
<1>4. ViewOK => HeadCoversReport
  BY DEF ViewOK
<1> QED
  BY <1>1, <1>3, <1>4, PTL DEF ReportingSpec

----------------------------------------------------------------------------
(* What a step of the others does to a loader that has nothing to flush:   *)
(* its second audit is of what it has written, and stays so.               *)
LoaderKept ==
  /\ session'[Loader] = session[Loader] /\ work'[Loader] = work[Loader]
  /\ lock = Loader <=> lock' = Loader

LEMMA OtherSession ==
  ASSUME StoreOK, NEW s \in Sessions \ {Loader}, AddsRow(s) \/ SessionStep(s)
  PROVE  LoaderKept
BY SessionStepFrame, Distinct DEF Frame, LoaderKept

LEMMA ReportActs ==
  ASSUME SessionsBehind, StoreOK, ReportStep
  PROVE  LoaderKept /\ audit'[Loader] = audit[Loader]
<1> USE Distinct
<1>1. CASE UNCHANGED auditVars
  BY <1>1 DEF auditVars, LoaderKept
<1>2. CASE UNCHANGED audit /\ (AddsRow(Generator) \/ SessionStep(Generator))
  BY <1>2, OtherSession
<1>3. CASE AuditLeaves(Generator)
  <2>1. audit'[Loader] = audit[Loader]
    BY <1>3, LeavesStep
  <2>2. CASE Close(Generator)
    BY <2>1, <2>2, OtherSession DEF SessionStep
  <2>3. CASE UNCHANGED vars
    BY <2>1, <2>3 DEF vars, LoaderKept
  <2> QED
    BY <1>3, <2>2, <2>3 DEF AuditLeaves
<1>4. CASE ReportQueriesMonthly \/ ReportQueriesQuarterly \/ ReportSkipsSection
  BY <1>1, <1>4 DEF ReportQueriesMonthly, ReportQueriesQuarterly, ReportSkipsSection, NextSection,
                    auditVars, vars
<1>5. CASE ReportAddsMetric \/ ReportAddsClaim \/ ReportAddsEvidence
  BY <1>2, <1>5, RepositoryAdds DEF ReportAddsMetric, ReportAddsClaim, ReportAddsEvidence,
                                    NextPart, NextSection
<1>6. CASE ReportCommits
  BY <1>1, <1>2, <1>6 DEF ReportCommits, SessionStep, vars, auditVars
<1>7. CASE ReportFails
  BY <1>3, <1>7 DEF ReportFails
<1> QED
  BY <1>4, <1>5, <1>6, <1>7 DEF ReportStep

LEMMA LoaderUndisturbed ==
  ASSUME Behind, StoreOK, session[Loader].pc = "idle", [ReportingNext]_reportingVars, ~LoadStep
  PROVE  /\ UNCHANGED load
         /\ \/ AuditStep(Loader) /\ UNCHANGED vars
            \/ audit'[Loader] = audit[Loader] /\ LoaderKept
<1> USE Distinct
<1>1. SessionsBehind
  BY DEF Behind
<1>2. CASE CommandAudits
  <2>1. PICK a \in Auditors : AuditStep(a)
    BY <1>2 DEF CommandAudits
  <2>2. UNCHANGED vars
    BY <2>1 DEF AuditStep, AuditVerifies, AuditBegins, AuditTable, AuditEnds
  <2>3. LoaderKept
    BY <2>2 DEF vars, LoaderKept
  <2>4. a # Loader => audit'[Loader] = audit[Loader]
    BY <1>1, <2>1 DEF AuditStep, AuditVerifies, AuditBegins, AuditTable, AuditEnds, SessionsBehind
  <2>5. UNCHANGED load
    BY <1>2 DEF CommandAudits, commandVars
  <2> QED
    BY <2>1, <2>2, <2>3, <2>4, <2>5
<1>3. CASE ReportStep /\ UNCHANGED load
  BY <1>1, <1>3, ReportActs
<1>4. CASE (ViewStep \/ ContextStep) /\ UNCHANGED load
  BY <1>4 DEF ViewStep, ViewReadsAwards, ViewReadsOutcomes, ViewReadsMappings, ViewReadsCoverage,
              ViewReadsHead, ContextStep, ContextMissesClaim, ContextReadsEdges,
              ContextReadsSupport, ContextGetsArtifacts, ContextListsChallenges,
              ContextReadsStatus, TraceTo, auditVars, LoaderKept
<1>5. CASE Flushes
  <2>1. PICK s \in Sessions : Insert(s) \/ Events(s) \/ FlushFails(s)
    BY <1>5 DEF Flushes
  <2>2. SessionStep(s) /\ session[s].pc # "idle"
    BY <2>1 DEF Events, SessionStep, Insert, AppendEvent, AppendRaises, FlushFails
  <2>3. UNCHANGED <<audit, load>>
    BY <1>5 DEF Flushes, commandVars
  <2> QED
    BY <2>2, <2>3, OtherSession
<1>6. CASE HarvesterObserves \/ AnalystChallenges \/ AnalystRevises \/ OthersEnd
  <2>1. UNCHANGED <<audit, load>>
    BY <1>6 DEF HarvesterObserves, AnalystChallenges, AnalystRevises, OthersEnd, Writes, commandVars
  <2>2. AddsRow(Harvester) \/ AddsRow(Analyst) \/ SessionStep(Harvester) \/ SessionStep(Analyst)
    BY <1>1, <1>6, RepositoryAdds
    DEF HarvesterObserves, AnalystChallenges, AnalystRevises, OthersEnd, Others, Writes, SessionStep
  <2> QED
    BY <2>1, <2>2, OtherSession
<1>7. CASE UNCHANGED reportingVars
  BY <1>7 DEF reportingVars, LoaderKept
<1> QED
  BY <1>2, <1>3, <1>4, <1>5, <1>6, <1>7 DEF ReportingNext

LoadAudited ==
  load.pc = "audited" =>
    /\ session[Loader].pc = "idle"
    /\ lock = Loader /\ audit[Loader].pc \in {"reading", "valid"} =>
         audit[Loader].since = Snapshot(work[Loader])

LEMMA LoadAuditedStep ==
  ASSUME AuditOK, Behind, LoadAudited, [ReportingNext]_reportingVars
  PROVE  LoadAudited'
<1> USE Distinct
<1>1. CASE LoadStep
  <2>1. CASE LoadAuditsAgain
    BY <2>1 DEF LoadAuditsAgain, AuditAgain, LoadAudited, vars, Behind, SessionsBehind, NewAudit
  <2>2. CASE ~LoadAuditsAgain
    <3>1. load'.pc # "audited"
      BY <1>1, <2>2 DEF LoadStep, LoadStarts, LoadFetches, LoadRecords, LoadNormalizes, LoadAdds,
                        LoadEndsFeed, LoadCommits, LoadFails, LoadOff, Behind
    <3> QED
      BY <3>1 DEF LoadAudited
  <2> QED
    BY <2>1, <2>2
<1>2. CASE ~LoadStep /\ load.pc = "audited"
  <2>1. session[Loader].pc = "idle" /\ StoreOK
    BY <1>2 DEF LoadAudited, AuditOK
  <2>2. /\ UNCHANGED load
        /\ \/ AuditStep(Loader) /\ UNCHANGED vars
           \/ audit'[Loader] = audit[Loader] /\ LoaderKept
    BY <1>2, <2>1, LoaderUndisturbed
  <2>3. CASE audit'[Loader] = audit[Loader] /\ LoaderKept
    BY <2>2, <2>3 DEF LoadAudited, LoaderKept
  <2>4. CASE AuditStep(Loader) /\ UNCHANGED vars
    <3>1. CASE AuditBegins(Loader)
      BY <2>1, <2>4, <3>1 DEF AuditBegins, LoadAudited, vars, Seen, Behind, SessionsBehind
    <3>2. CASE AuditVerifies(Loader)
      <4>1. audit'[Loader].pc \in {"verified", "refused"}
        <5> DEFINE pc == IF Chained(Seen(Loader).events) THEN "verified" ELSE "refused"
        <5>1. audit'[Loader] = [audit[Loader] EXCEPT !.pc = pc, !.head = Len(Seen(Loader).events)]
          BY <3>2 DEF AuditVerifies, AuditOK
        <5>2. audit'[Loader].pc = pc
          BY <5>1 DEF AuditOK, AuditorOK
        <5> QED
          BY <5>2
      <4> QED
        BY <2>1, <2>4, <4>1 DEF LoadAudited, vars
    <3>3. CASE AuditTable(Loader) \/ AuditEnds(Loader)
      <4>1. audit[Loader].pc = "reading" /\ audit'[Loader].since = audit[Loader].since
        BY <3>3 DEF AuditTable, AuditEnds, AuditOK, AuditorOK
      <4> QED
        BY <1>2, <2>1, <2>4, <4>1 DEF LoadAudited, vars
    <3> QED
      BY <2>4, <3>1, <3>2, <3>3 DEF AuditStep
  <2> QED
    BY <2>2, <2>3, <2>4
<1>3. CASE ~LoadStep /\ load.pc # "audited"
  <2>1. UNCHANGED load
    BY <1>3 DEF ReportingNext, reportingVars, CommandAudits, commandVars, Flushes,
                HarvesterObserves, AnalystChallenges, AnalystRevises, OthersEnd, Writes
  <2> QED
    BY <1>3, <2>1 DEF LoadAudited
<1> QED
  BY <1>1, <1>2, <1>3

LEMMA LoadCommitsLedgered ==
  ASSUME AuditOK, Behind, LoadAudited, [ReportingNext]_reportingVars,
         load.pc # "loaded", load'.pc = "loaded"
  PROVE  RowsLedgered(disk')
<1> USE Distinct
<1>1. CASE LoadCommits
  <2> DEFINE db == work[Loader]
  <2>1. /\ load.pc = "audited" /\ audit[Loader].pc = "valid" /\ lock = Loader
        /\ disk' = db
    BY <1>1 DEF LoadCommits, Commit
  <2>2. RowsLedgered(Snapshot(db))
    BY <2>1 DEF LoadAudited, AuditOK, AuditorOK
  <2>3. WellKept(db)
    BY <2>1 DEF AuditOK, StoreOK, Grown
  <2> HIDE DEF db
  <2>4. RowsLedgered(db)
    BY <2>2, <2>3, SnapshotKept DEF RowsLedgered, Ledgered
  <2> QED
    BY <2>1, <2>4
<1>2. CASE LoadStep /\ ~LoadCommits
  <2>1. CASE LoadFails
    BY <2>1 DEF LoadFails, LoadOff
  <2>2. CASE LoadRecords \/ LoadAdds
    BY <2>2 DEF LoadRecords, LoadAdds, Behind
  <2>3. CASE LoadStarts \/ LoadFetches \/ LoadNormalizes
    BY <2>3 DEF LoadStarts, LoadFetches, LoadNormalizes, Behind
  <2>4. CASE LoadEndsFeed \/ LoadAuditsAgain
    BY <2>4 DEF LoadEndsFeed, LoadAuditsAgain, Behind
  <2> QED
    BY <1>2, <2>1, <2>2, <2>3, <2>4 DEF LoadStep
<1>3. CASE ~LoadStep
  BY <1>3 DEF ReportingNext, reportingVars, CommandAudits, commandVars, Flushes,
              HarvesterObserves, AnalystChallenges, AnalystRevises, OthersEnd, Writes
<1> QED
  BY <1>1, <1>2, <1>3

(* "Refusing university operation with unaudited evidence"                 *)
(* (university_reports.py:57): harvest_universities audits what its        *)
(* transaction holds, which nobody changes before the commit.              *)
THEOREM LoadsCommitOnlyAudited == ReportingSpec => CommitsOnlyAudited
<1>1. ReportingInit => AuditOK /\ Behind /\ LoadAudited
  BY BehindStart, AuditStart DEF ReportingInit, LoadAudited, LoadOff, LoadNew
<1>2. AuditOK /\ Behind /\ LoadAudited /\ [ReportingNext]_reportingVars
        => AuditOK' /\ Behind' /\ LoadAudited'
  BY ReportingKeepsToAudit, AuditOKStep, LoadAuditedStep
<1>3. AuditOK /\ Behind /\ LoadAudited /\ [ReportingNext]_reportingVars
        => [load.pc # "loaded" /\ load'.pc = "loaded" => RowsLedgered(disk')]_<<auditVars, load>>
  BY LoadCommitsLedgered
<1> QED
  BY <1>1, <1>2, <1>3, PTL DEF ReportingSpec, CommitsOnlyAudited

----------------------------------------------------------------------------
(* A load is whole.  The sessions of the others add no source artifacts:   *)
OtherWrites(s) ==
  \/ AddsRow(s) /\ session'[s].row.type # "source_artifact"
  \/ SessionStep(s)

LoaderFlushes ==
  Insert(Loader) \/ AppendEvent(Loader) \/ AppendRaises(Loader) \/ FlushFails(Loader)

LEMMA NewRow ==
  ASSUME NEW type, NEW key, NEW refs, NEW says, NEW db
  PROVE  /\ FirstVersion(type, key, refs, says).type = type
         /\ FirstVersion(type, key, refs, says).key = key
         /\ FirstVersion(type, key, refs, says).says = says
         /\ NextVersionOf(db, type, key, refs, says).type = type
         /\ NextVersionOf(db, type, key, refs, says).key = key
<1>1. /\ FirstVersion(type, key, refs, says).type = type
      /\ FirstVersion(type, key, refs, says).key = key
      /\ FirstVersion(type, key, refs, says).says = says
  BY DEF FirstVersion
<1>2. ASSUME NEW v, NEW w
      PROVE  LET next == [FirstVersion(type, key, refs, says) EXCEPT !.version = v, !.supersedes = w]
             IN  next.type = type /\ next.key = key
  BY DEF FirstVersion
<1> QED
  BY <1>1, <1>2 DEF NextVersionOf

LEMMA PreparedIs ==
  ASSUME SessionsBehind, NEW s \in Sessions, NEW row, Prepare(s, row)
  PROVE  session'[s] = [pc |-> "ready", row |-> row]
BY DEF Prepare, SessionsBehind

LEMMA NoArtifactAdded ==
  ASSUME SessionsBehind, NEW s \in Sessions, NEW key, NEW refs, NEW says,
         \/ AddEvidence(s, refs, says)
         \/ AddObservation(s, key, refs, says) \/ AddDerivedMetric(s, key, refs, says)
         \/ AddClaim(s, key, says)
         \/ AddChallenge(s, key, refs, says) \/ ReviseChallenge(s, key, says)
  PROVE  OtherWrites(s)
<1>1. AddsRow(s)
  BY RepositoryAdds
<1>2. CASE \E type \in Types \ {"source_artifact"} : \E k, r :
             Prepare(s, FirstVersion(type, k, r, says))
  <2>1. PICK type, k, r :
          /\ type \in Types \ {"source_artifact"}
          /\ Prepare(s, FirstVersion(type, k, r, says))
    BY <1>2
  <2>2. session'[s] = [pc |-> "ready", row |-> FirstVersion(type, k, r, says)]
    BY <2>1, PreparedIs
  <2>3. session'[s].row.type = type
    BY <2>2, NewRow
  <2> QED
    BY <1>1, <2>1, <2>3 DEF OtherWrites
<1>3. CASE \E type \in Types \ {"source_artifact"} : \E r :
             Prepare(s, NextVersionOf(Seen(s), type, key, r, says))
  <2>1. PICK type, r :
          /\ type \in Types \ {"source_artifact"}
          /\ Prepare(s, NextVersionOf(Seen(s), type, key, r, says))
    BY <1>3
  <2>2. session'[s] = [pc |-> "ready", row |-> NextVersionOf(Seen(s), type, key, r, says)]
    BY <2>1, PreparedIs
  <2>3. session'[s].row.type = type
    BY <2>2, NewRow
  <2> QED
    BY <1>1, <2>1, <2>3 DEF OtherWrites
<1> QED
  BY <1>2, <1>3
  DEF AddEvidence, AddUnversioned, AddObservation, AddDerivedMetric, AddClaim, AddVersioned,
      AddChallenge, ReviseChallenge, Types, Unversioned, Revisable

LEMMA StepsOfAll ==
  ASSUME Behind, [ReportingNext]_reportingVars
  PROVE  \/ LoadStep
         \/ UNCHANGED load /\ UNCHANGED vars
         \/ UNCHANGED load /\ LoaderFlushes
         \/ UNCHANGED load /\ \E s \in Sessions \ {Loader} : OtherWrites(s)
<1> USE Distinct
<1>1. SessionsBehind
  BY DEF Behind
<1>2. CASE CommandAudits
  BY <1>2 DEF CommandAudits, commandVars, AuditStep, AuditVerifies, AuditBegins, AuditTable,
              AuditEnds
<1>3. CASE ReportStep /\ UNCHANGED load
  <2>1. CASE ReportQueriesMonthly \/ ReportQueriesQuarterly \/ ReportSkipsSection
    BY <1>3, <2>1 DEF ReportQueriesMonthly, ReportQueriesQuarterly, ReportSkipsSection,
                      auditVars, vars
  <2>2. CASE ReportAddsMetric \/ ReportAddsClaim \/ ReportAddsEvidence
    BY <1>1, <1>3, <2>2, NoArtifactAdded DEF ReportAddsMetric, ReportAddsClaim, ReportAddsEvidence
  <2>3. CASE ReportCommits \/ ReportFails
    BY <1>3, <2>3 DEF ReportCommits, ReportFails, AuditLeaves, OtherWrites, SessionStep
  <2> QED
    BY <1>3, <2>1, <2>2, <2>3 DEF ReportStep
<1>4. CASE (ViewStep \/ ContextStep) /\ UNCHANGED load
  BY <1>4 DEF ViewStep, ViewReadsAwards, ViewReadsOutcomes, ViewReadsMappings, ViewReadsCoverage,
              ViewReadsHead, ContextStep, ContextMissesClaim, ContextReadsEdges,
              ContextReadsSupport, ContextGetsArtifacts, ContextListsChallenges,
              ContextReadsStatus, TraceTo, auditVars, vars
<1>5. CASE Flushes
  <2>1. PICK s \in Sessions : Insert(s) \/ Events(s) \/ FlushFails(s)
    BY <1>5 DEF Flushes
  <2>2. UNCHANGED load
    BY <1>5 DEF Flushes, commandVars
  <2> QED
    BY <2>1, <2>2 DEF Events, OtherWrites, SessionStep, LoaderFlushes
<1>6. CASE HarvesterObserves \/ AnalystChallenges \/ AnalystRevises \/ OthersEnd
  <2>1. UNCHANGED load
    BY <1>6 DEF HarvesterObserves, AnalystChallenges, AnalystRevises, OthersEnd, Writes, commandVars
  <2>2. CASE HarvesterObserves \/ AnalystChallenges \/ AnalystRevises
    BY <1>1, <2>1, <2>2, NoArtifactAdded
    DEF HarvesterObserves, AnalystChallenges, AnalystRevises, Writes
  <2>3. CASE OthersEnd
    BY <2>1, <2>3 DEF OthersEnd, Others, OtherWrites, SessionStep
  <2> QED
    BY <1>6, <2>2, <2>3
<1>7. CASE UNCHANGED reportingVars
  BY <1>7 DEF reportingVars, vars
<1> QED
  BY <1>2, <1>3, <1>4, <1>5, <1>6, <1>7 DEF ReportingNext

(* Nothing that counts as a load is waiting in the sessions of others.     *)
NoArtifacts(s) ==
  /\ session[s].pc = "ready" => session[s].row.type # "source_artifact"
  /\ lock = s => \A i \in Len(disk.rows) + 1 .. Len(work[s].rows) :
                   work[s].rows[i].type # "source_artifact"

LEMMA LoadedGrows ==
  ASSUME NEW later, NEW earlier, Len(later.rows) \in Nat, Len(earlier.rows) \in Nat,
         Extends(later.rows, earlier.rows)
  PROVE  /\ \A feed : Loaded(feed, earlier) => Loaded(feed, later)
         /\ \A feed, type : Covered(feed, type, earlier) => Covered(feed, type, later)
<1>1. ASSUME NEW type, NEW i \in RowsOf(earlier, {type})
      PROVE  i \in RowsOf(later, {type}) /\ later.rows[i] = earlier.rows[i]
  BY DEF RowsOf, Extends
<1>2. ASSUME NEW feed, Loaded(feed, earlier) PROVE Loaded(feed, later)
  BY <1>1, <1>2 DEF Loaded
<1>3. ASSUME NEW feed, NEW type, Covered(feed, type, earlier) PROVE Covered(feed, type, later)
  BY <1>1, <1>3 DEF Covered
<1> QED
  BY <1>2, <1>3

(* Without new artifacts, a database with whole loads stays one.           *)
LEMMA WholeWithout ==
  ASSUME NEW later, NEW earlier, Len(later.rows) \in Nat, Len(earlier.rows) \in Nat,
         Extends(later.rows, earlier.rows), WholeLoad(earlier),
         \A i \in Len(earlier.rows) + 1 .. Len(later.rows) : later.rows[i].type # "source_artifact"
  PROVE  WholeLoad(later)
<1>1. ASSUME NEW feed, Loaded(feed, later) PROVE Loaded(feed, earlier)
  <2>1. PICK i \in RowsOf(later, {"source_artifact"}) : later.rows[i].says.feed = feed
    BY <1>1 DEF Loaded
  <2>2. i \in 1 .. Len(earlier.rows) /\ later.rows[i] = earlier.rows[i]
    BY <2>1 DEF RowsOf, Extends
  <2> QED
    BY <2>1, <2>2 DEF Loaded, RowsOf
<1> QED
  BY <1>1, LoadedGrows DEF WholeLoad

(* The rows of a session after each half of a flush.                       *)
LEMMA RowsInFlush ==
  ASSUME StoreOK, NEW s \in Sessions
  PROVE  /\ Insert(s) => work'[s].rows = Append(Seen(s).rows, session[s].row)
         /\ AppendEvent(s) => work'[s].rows = work[s].rows
<1>1. ASSUME Insert(s) PROVE work'[s].rows = Append(Seen(s).rows, session[s].row)
  <2> DEFINE old == Seen(s)
             new == [old EXCEPT !.rows = Append(@, session[s].row)]
  <2>1. work' = [work EXCEPT ![s] = new]
    BY <1>1 DEF Insert
  <2>2. old = [rows |-> old.rows, events |-> old.events]
    BY SeenKept, KeptTables, ConstantsAssumption
  <2> HIDE DEF old
  <2>3. new = [rows |-> Append(old.rows, session[s].row), events |-> old.events]
    BY <2>2
  <2>4. work'[s] = new
    BY <2>1, WorkFrame
  <2> QED
    BY <2>3, <2>4 DEF old
<1>2. ASSUME AppendEvent(s) PROVE work'[s].rows = work[s].rows
  <2>1. lock = s
    BY <1>2 DEF AppendEvent, StoreOK, SessionOK
  <2>2. work[s] = [rows |-> work[s].rows, events |-> work[s].events]
    BY <2>1, KeptTables DEF StoreOK, Grown
  <2>3. PICK events : work' = [work EXCEPT ![s].events = events]
    BY <1>2 DEF AppendEvent
  <2>4. work'[s] = [work[s] EXCEPT !.events = events]
    BY <2>3 DEF StoreOK
  <2> QED
    BY <2>2, <2>4
<1> QED
  BY <1>1, <1>2

LEMMA OthersAddNoArtifacts ==
  ASSUME StoreOK, StoreOK', NEW s \in Sessions \ {Loader}, OtherWrites(s), Frame(s),
         \A t \in Sessions \ {Loader} : NoArtifacts(t), WholeLoad(disk)
  PROVE  NoArtifacts(s)' /\ WholeLoad(disk)'
<1>1. NoArtifacts(s)
  OBVIOUS
<1>2. CASE AddsRow(s) /\ session'[s].row.type # "source_artifact"
  BY <1>1, <1>2 DEF AddsRow, Prepare, NoArtifacts
<1>3. CASE Insert(s)
  <2> DEFINE old == Seen(s).rows
             row == session[s].row
  <2>1. session[s].pc = "ready" /\ disk' = disk /\ lock' = s /\ Goto(s, "inserted")
    BY <1>3 DEF Insert
  <2>2. session'[s].pc = "inserted"
    <3>1. session'[s] = [pc |-> "inserted", row |-> session[s].row]
      BY <2>1, GotoFrame
    <3> QED
      BY <3>1
  <2>3. WellKept(Seen(s))
    BY SeenKept, ConstantsAssumption
  <2>4. work'[s].rows = Append(old, row)
    BY <1>3, RowsInFlush
  <2>5. \A i \in Len(disk.rows) + 1 .. Len(old) : old[i].type # "source_artifact"
    BY <1>1, <1>3, KeptTables DEF NoArtifacts, Seen, StoreOK
  <2>6. row.type # "source_artifact"
    BY <1>1, <2>1 DEF NoArtifacts
  <2>7. /\ Len(Append(old, row)) = Len(old) + 1
        /\ \A i \in 1 .. Len(old) : Append(old, row)[i] = old[i]
        /\ Append(old, row)[Len(old) + 1] = row
    BY <2>3, KeptTables, TableAppends
  <2>8. Len(old) \in Nat /\ Len(disk.rows) \in Nat
    BY <2>3, KeptTables DEF StoreOK
  <2> HIDE DEF old, row
  <2>9. \A i \in Len(disk.rows) + 1 .. Len(work'[s].rows) : work'[s].rows[i].type # "source_artifact"
    BY <2>4, <2>5, <2>6, <2>7, <2>8
  <2> QED
    BY <2>1, <2>2, <2>9 DEF NoArtifacts
<1>4. CASE AppendEvent(s)
  <2>1. /\ Goto(s, "idle") /\ UNCHANGED <<disk, lock>> /\ lock = s
        /\ session[s].pc = "inserted"
    BY <1>4 DEF AppendEvent, StoreOK, SessionOK
  <2>2. work'[s].rows = work[s].rows
    BY <1>4, RowsInFlush
  <2>3. session'[s].pc = "idle"
    <3>1. session'[s] = [pc |-> "idle", row |-> session[s].row]
      BY <2>1, GotoFrame
    <3> QED
      BY <3>1
  <2> QED
    BY <1>1, <2>1, <2>2, <2>3 DEF NoArtifacts
<1>5. CASE AppendRaises(s)
  <2>1. Goto(s, AfterException(s)) /\ UNCHANGED <<disk, lock, work>>
    BY <1>5 DEF AppendRaises
  <2>2. session'[s] = [pc |-> AfterException(s), row |-> session[s].row]
    BY <2>1, GotoFrame
  <2>3. session'[s].pc # "ready"
    BY <2>2 DEF AfterException
  <2> QED
    BY <1>1, <2>1, <2>3 DEF NoArtifacts
<1>6. CASE FlushFails(s) \/ Close(s)
  <2>1. Discard(s)
    BY <1>6 DEF FlushFails, Close
  <2>2. lock' # s /\ disk' = disk
    BY <2>1, DiscardFrame
  <2>3. session'[s].pc # "ready"
    <3>1. CASE FlushFails(s)
      <4>1. Goto(s, "broken")
        BY <3>1 DEF FlushFails
      <4>2. session'[s] = [pc |-> "broken", row |-> session[s].row]
        BY <4>1, GotoFrame
      <4> QED
        BY <4>2
    <3>2. CASE Close(s)
      BY <3>2, SetFrame DEF Close
    <3> QED
      BY <1>6, <3>1, <3>2
  <2> QED
    BY <2>2, <2>3 DEF NoArtifacts
<1>7. CASE Commit(s)
  <2>1. lock = s /\ disk' = work[s] /\ lock' = None /\ session[s].pc = "idle" /\ session' = session
    BY <1>7 DEF Commit
  <2>2. WellKept(disk) /\ Grown(work[s])
    BY <2>1 DEF StoreOK
  <2>3. WholeLoad(work[s])
    BY <1>1, <2>1, <2>2, WholeWithout, KeptTables DEF Grown, NoArtifacts
  <2> QED
    BY <2>1, <2>3, ConstantsAssumption DEF NoArtifacts
<1> QED
  BY <1>2, <1>3, <1>4, <1>5, <1>6, <1>7 DEF OtherWrites, SessionStep

(* What the loader has of a feed, in the database or about to be inserted. *)
Waiting(type) == session[Loader].pc = "ready" /\ session[Loader].row.type = type

HasRow(type, key, db) == \E i \in RowsOf(db, {type}) : db.rows[i].key = key

AllRecorded ==
  \/ Loaded(Feed, Seen(Loader))
  \/ Waiting("source_artifact") /\ session[Loader].row.says.feed = Feed

AddedFor(p) ==
  \/ HasRow("observation", KeyOf(Feed, p), Seen(Loader))
  \/ Waiting("observation") /\ session[Loader].row.key = KeyOf(Feed, p)

OfAll == {"completions", "scorecard"}

FeedDone(feed, db) == Loaded(feed, db) /\ (feed \in OfAll => Covered(feed, "observation", db))

LoadsOn ==
  /\ load.pc \in {"fetching", "recording", "normalizing", "adding", "audited"}
  /\ session[Loader].pc # "broken"

ProgressNow ==
  /\ load.feed \in 1 .. Len(Feeds)
  /\ \A k \in 1 .. load.feed - 1 : FeedDone(Feeds[k], Seen(Loader))
  /\ load.pc \in {"fetching", "recording", "audited"} => session[Loader].pc = "idle"
  /\ load.pc \in {"normalizing", "adding"} => AllRecorded
  /\ load.pc = "adding" /\ Feed \in OfAll =>
       /\ \A p \in load.response.covers \ load.todo : AddedFor(p)
       /\ Feed = "scorecard" => CoversPartners(load.response)
  /\ load.pc = "audited" => \A k \in 1 .. Len(Feeds) : FeedDone(Feeds[k], Seen(Loader))

Progress == LoadsOn => ProgressNow

LoadWholeOK ==
  /\ WholeLoad(disk)
  /\ \A s \in Sessions \ {Loader} : NoArtifacts(s)
  /\ load.pc = "new" => load.feed = 1 /\ session[Loader].pc = "idle"
  /\ Progress

LEMMA FourFeeds ==
  /\ Len(Feeds) = 4
  /\ Feeds[1] = "completions" /\ Feeds[2] = "crosswalk" /\ Feeds[3] = "pseo"
  /\ Feeds[4] = "scorecard"
BY DEF Feeds

(* Progress is kept while what the loader sees grows, and its row waits or *)
(* is there.                                                               *)
LEMMA ProgressKept ==
  ASSUME Progress, UNCHANGED load, Len(Seen(Loader).rows) \in Nat, Len(Seen(Loader)'.rows) \in Nat,
         Extends(Seen(Loader)'.rows, Seen(Loader).rows),
         session[Loader].pc = "broken" => session'[Loader].pc = "broken",
         session[Loader].pc = "idle" => session'[Loader].pc \in {"idle", "broken"},
         session[Loader].pc = "ready" =>
           \/ session'[Loader] = session[Loader]
           \/ session'[Loader].pc = "broken"
           \/ \E i \in 1 .. Len(Seen(Loader)'.rows) : Seen(Loader)'.rows[i] = session[Loader].row
  PROVE  Progress'
<1> SUFFICES ASSUME LoadsOn' PROVE Progress'
  BY DEF Progress, ProgressNow
<1>1. LoadsOn
  BY DEF LoadsOn
<1>2. ASSUME NEW feed, FeedDone(feed, Seen(Loader)) PROVE FeedDone(feed, Seen(Loader))'
  BY <1>2, LoadedGrows DEF FeedDone
<1>3. session[Loader].pc = "ready" =>
        \/ session'[Loader] = session[Loader]
        \/ \E i \in 1 .. Len(Seen(Loader)'.rows) : Seen(Loader)'.rows[i] = session[Loader].row
  BY DEF LoadsOn
<1>4. AllRecorded => AllRecorded'
  <2>1. CASE Loaded(Feed, Seen(Loader))
    <3>1. Loaded(Feed, Seen(Loader)')
      BY <2>1, LoadedGrows
    <3> QED
      BY <3>1 DEF AllRecorded, Feed
  <2>2. CASE Waiting("source_artifact") /\ session[Loader].row.says.feed = Feed
    BY <1>3, <2>2 DEF AllRecorded, Waiting, Feed, Loaded, RowsOf
  <2> QED
    BY <2>1, <2>2 DEF AllRecorded
<1>5. ASSUME NEW p, AddedFor(p) PROVE AddedFor(p)'
  <2>1. CASE HasRow("observation", KeyOf(Feed, p), Seen(Loader))
    BY <2>1 DEF AddedFor, HasRow, Feed, RowsOf, Extends
  <2>2. CASE Waiting("observation") /\ session[Loader].row.key = KeyOf(Feed, p)
    BY <1>3, <2>2 DEF AddedFor, HasRow, Waiting, Feed, RowsOf
  <2> QED
    BY <1>5, <2>1, <2>2 DEF AddedFor
<1>6. session[Loader].pc = "idle" => session'[Loader].pc = "idle"
  BY DEF LoadsOn
<1>7. Feed' = Feed
  BY DEF Feed
<1> QED
  BY <1>1, <1>2, <1>4, <1>5, <1>6, <1>7 DEF Progress, ProgressNow

LEMMA FlushKeepsProgress ==
  ASSUME StoreOK, StoreOK', Frame(Loader), Progress, LoaderFlushes, UNCHANGED load
  PROVE  Progress' /\ disk' = disk
<1> DEFINE old == Seen(Loader).rows
           new == Seen(Loader)'.rows
           row == session[Loader].row
<1> USE Distinct
<1>1. Len(old) \in Nat /\ Len(new) \in Nat /\ Extends(old, old) /\ WellKept(Seen(Loader))
  BY SeenKept, KeptTables, ExtendsReflexive, ConstantsAssumption DEF Seen, StoreOK, Grown
<1>2. CASE Insert(Loader)
  <2>1. new = Append(old, row) /\ disk' = disk /\ session[Loader].pc = "ready"
    BY <1>2, RowsInFlush DEF Insert, Seen
  <2>2. /\ Len(Append(old, row)) = Len(old) + 1
        /\ \A i \in 1 .. Len(old) : Append(old, row)[i] = old[i]
        /\ Append(old, row)[Len(old) + 1] = row
    BY <1>1, TableAppends, KeptTables
  <2> HIDE DEF old, new, row
  <2>3. Extends(new, old) /\ \E i \in 1 .. Len(new) : new[i] = row
    BY <1>1, <2>1, <2>2 DEF Extends
  <2> QED
    BY <1>1, <2>1, <2>3, ProgressKept DEF old, new, row
<1>3. CASE AppendEvent(Loader)
  <2>1. /\ disk' = disk /\ lock' = lock /\ session[Loader].pc = "inserted" /\ lock = Loader
        /\ work'[Loader].rows = work[Loader].rows
    BY <1>3, RowsInFlush DEF AppendEvent, StoreOK, SessionOK
  <2>2. new = old
    BY <2>1 DEF Seen
  <2> QED
    BY <1>1, <2>1, <2>2, ProgressKept
<1>4. CASE AppendRaises(Loader)
  <2>1. UNCHANGED <<disk, lock, work>> /\ session[Loader].pc = "inserted"
    BY <1>4 DEF AppendRaises
  <2>2. new = old
    BY <2>1 DEF Seen
  <2> QED
    BY <1>1, <2>1, <2>2, ProgressKept
<1>5. CASE FlushFails(Loader)
  <2>1. Goto(Loader, "broken") /\ disk' = disk
    BY <1>5 DEF FlushFails, Discard
  <2>2. session'[Loader] = [pc |-> "broken", row |-> session[Loader].row]
    BY <2>1, GotoFrame
  <2> QED
    BY <2>1, <2>2 DEF Progress, ProgressNow, LoadsOn
<1> QED
  BY <1>2, <1>3, <1>4, <1>5 DEF LoaderFlushes

LEMMA OthersKeepProgress ==
  ASSUME StoreOK, StoreOK', NEW s \in Sessions \ {Loader}, Frame(s), Progress, UNCHANGED load
  PROVE  Progress'
<1>1. session'[Loader] = session[Loader]
  BY Distinct DEF Frame
<1>2. /\ Extends(Seen(Loader)'.rows, Seen(Loader).rows)
      /\ Len(Seen(Loader).rows) \in Nat /\ Len(Seen(Loader)'.rows) \in Nat
  BY SeenGrows, Distinct
<1> QED
  BY <1>1, <1>2, ProgressKept

LEMMA NoArtifactsKept ==
  ASSUME NEW s, NEW t \in Sessions \ {s}, Frame(s), NoArtifacts(t)
  PROVE  NoArtifacts(t)'
BY DEF Frame, NoArtifacts

(* A feed of which everything has been added is done.                      *)
LEMMA FeedIsDone ==
  ASSUME Progress, load.pc = "adding", load.todo = {}, session[Loader].pc = "idle",
         Feed = "completions" => CoversPartners(load.response)
  PROVE  FeedDone(Feed, Seen(Loader))
<1>1. ProgressNow
  BY DEF Progress, ProgressNow, LoadsOn
<1>2. Loaded(Feed, Seen(Loader))
  BY <1>1 DEF ProgressNow, AllRecorded, Waiting
<1>3. ASSUME Feed \in OfAll, NEW p \in Partners
      PROVE  \E i \in RowsOf(Seen(Loader), {"observation"}) : Seen(Loader).rows[i].key = KeyOf(Feed, p)
  <2>1. CoversPartners(load.response)
    BY <1>1, <1>3 DEF ProgressNow, OfAll
  <2>2. AddedFor(p)
    BY <1>1, <1>3, <2>1 DEF ProgressNow, CoversPartners
  <2> QED
    BY <2>2 DEF AddedFor, Waiting, HasRow
<1> QED
  BY <1>2, <1>3 DEF FeedDone, Covered

LEMMA LoadStepProgress ==
  ASSUME SessionsBehind, Behind, LoadWholeOK, LoadStep
  PROVE  Progress' /\ load'.pc # "new"
<1> USE Distinct, FourFeeds
<1>1. load = [pc |-> load.pc, feed |-> load.feed, response |-> load.response, todo |-> load.todo]
  BY DEF Behind
<1>2. CASE LoadStarts
  <2>1. /\ load.pc = "new" /\ load' = [load EXCEPT !.pc = "fetching"] /\ UNCHANGED auditVars
    BY <1>2 DEF LoadStarts
  <2>2. load'.pc = "fetching" /\ load'.feed = 1 /\ session'[Loader].pc = "idle"
    BY <1>1, <2>1 DEF LoadWholeOK, auditVars
  <2> QED
    BY <2>2 DEF Progress, ProgressNow
<1>3. CASE LoadFetches
  <2>1. /\ load.pc = "fetching" /\ load'.pc = "recording" /\ load'.feed = load.feed
        /\ UNCHANGED <<disk, lock, work, session>>
    BY <1>1, <1>3 DEF LoadFetches, auditVars
  <2>2. Seen(Loader)' = Seen(Loader)
    BY <2>1 DEF Seen
  <2> QED
    BY <2>1, <2>2 DEF Progress, ProgressNow, LoadsOn, LoadWholeOK
<1>4. CASE LoadRecords
  <2> DEFINE row == FirstVersion("source_artifact", None, {}, [feed |-> Feed])
  <2>1. /\ load.pc = "recording" /\ load'.pc = "normalizing" /\ load'.feed = load.feed
        /\ Prepare(Loader, row)
    BY <1>1, <1>4 DEF LoadRecords, AddSourceArtifact, AddUnversioned
  <2>2. /\ session'[Loader] = [pc |-> "ready", row |-> row] /\ session[Loader].pc = "idle"
        /\ UNCHANGED <<disk, lock, work>>
    BY <2>1, PreparedIs DEF Prepare
  <2>3. row.type = "source_artifact" /\ row.says.feed = Feed
    BY NewRow
  <2> HIDE DEF row
  <2>4. Feed' = Feed /\ Seen(Loader)' = Seen(Loader)
    BY <2>1, <2>2 DEF Feed, Seen
  <2>5. AllRecorded'
    BY <2>2, <2>3, <2>4 DEF AllRecorded, Waiting
  <2> QED
    BY <2>1, <2>2, <2>4, <2>5 DEF Progress, ProgressNow, LoadsOn, LoadWholeOK
<1>5. CASE LoadNormalizes
  <2>1. /\ load.pc = "normalizing" /\ load'.pc = "adding" /\ load'.feed = load.feed
        /\ load'.response = load.response /\ session[Loader].pc = "idle"
        /\ Feed = "scorecard" => CoversPartners(load.response)
        /\ load'.todo = (IF Feed = "pseo" THEN {} ELSE load.response.covers)
        /\ UNCHANGED <<disk, lock, work, session>>
    BY <1>1, <1>5 DEF LoadNormalizes, auditVars
  <2>2. Feed' = Feed /\ Seen(Loader)' = Seen(Loader)
    BY <2>1 DEF Feed, Seen
  <2>3. AllRecorded => AllRecorded'
    BY <2>1, <2>2 DEF AllRecorded, Waiting
  <2>4. Feed \in OfAll => load'.response.covers \ load'.todo = {}
    BY <2>1 DEF OfAll
  <2> QED
    BY <2>1, <2>2, <2>3, <2>4 DEF Progress, ProgressNow, LoadsOn, LoadWholeOK
<1>6. CASE LoadAdds
  <2>1. PICK p \in load.todo :
          /\ load' = [load EXCEPT !.todo = @ \ {p}]
          /\ IF Feed = "crosswalk"
               THEN \E refs, says : AddTaxonomyMapping(Loader, KeyOf(Feed, p), refs, says)
               ELSE \E refs, says : AddObservation(Loader, KeyOf(Feed, p), refs, says)
    BY <1>6 DEF LoadAdds
  <2>2. /\ load.pc = "adding" /\ load'.pc = "adding" /\ load'.feed = load.feed
        /\ load'.response = load.response /\ load'.todo = load.todo \ {p}
    BY <1>1, <1>6, <2>1 DEF LoadAdds
  <2>3. PICK type, row :
          /\ type \in {"taxonomy_mapping", "observation"}
          /\ row.type = type /\ row.key = KeyOf(Feed, p)
          /\ Feed # "crosswalk" => type = "observation"
          /\ Prepare(Loader, row)
    BY <2>1, NewRow DEF AddTaxonomyMapping, AddObservation, AddVersioned
  <2>4. /\ session'[Loader] = [pc |-> "ready", row |-> row] /\ session[Loader].pc = "idle"
        /\ UNCHANGED <<disk, lock, work>>
    BY <2>3, PreparedIs DEF Prepare
  <2>5. Feed' = Feed /\ Seen(Loader)' = Seen(Loader)
    BY <2>2, <2>4 DEF Feed, Seen
  <2>6. ProgressNow
    BY <2>2, <2>4 DEF Progress, ProgressNow, LoadsOn, LoadWholeOK
  <2>7. AllRecorded'
    BY <2>2, <2>4, <2>5, <2>6 DEF ProgressNow, AllRecorded, Waiting
  <2>8. ASSUME Feed \in OfAll, NEW q \in load.response.covers \ load'.todo PROVE AddedFor(q)'
    <3>1. CASE q = p
      <4>1. Waiting("observation")' /\ session'[Loader].row.key = KeyOf(Feed, q)
        BY <2>3, <2>4, <2>8, <3>1 DEF Waiting, OfAll
      <4> QED
        BY <4>1, <2>5 DEF AddedFor
    <3>2. CASE q # p
      <4>1. AddedFor(q)
        BY <2>2, <2>6, <2>8, <3>2 DEF ProgressNow
      <4> QED
        BY <4>1, <2>4, <2>5 DEF AddedFor, Waiting
    <3> QED
      BY <3>1, <3>2
  <2> QED
    BY <2>2, <2>4, <2>5, <2>6, <2>7, <2>8 DEF Progress, ProgressNow
<1>7. CASE LoadEndsFeed
  <2>1. /\ load.pc = "adding" /\ load.todo = {} /\ session[Loader].pc = "idle"
        /\ Feed = "completions" => CoversPartners(load.response)
        /\ load.feed < Len(Feeds) /\ load'.pc = "fetching" /\ load'.feed = load.feed + 1
        /\ UNCHANGED <<disk, lock, work, session>>
    BY <1>1, <1>7 DEF LoadEndsFeed, auditVars
  <2>2. Seen(Loader)' = Seen(Loader)
    BY <2>1 DEF Seen
  <2>3. ProgressNow
    BY <2>1 DEF Progress, ProgressNow, LoadsOn, LoadWholeOK
  <2>4. FeedDone(Feeds[load.feed], Seen(Loader))
    BY <2>1, FeedIsDone DEF LoadWholeOK, Feed
  <2> QED
    BY <2>1, <2>2, <2>3, <2>4 DEF Progress, ProgressNow
<1>8. CASE LoadAuditsAgain
  <2>1. /\ load.pc = "adding" /\ load.todo = {} /\ session[Loader].pc = "idle"
        /\ load.feed = Len(Feeds) /\ load'.pc = "audited" /\ load'.feed = load.feed
        /\ UNCHANGED <<disk, lock, work, session>>
    BY <1>1, <1>8 DEF LoadAuditsAgain, AuditAgain, vars
  <2>2. Seen(Loader)' = Seen(Loader)
    BY <2>1 DEF Seen
  <2>3. ProgressNow
    BY <2>1 DEF Progress, ProgressNow, LoadsOn, LoadWholeOK
  <2>4. FeedDone(Feeds[load.feed], Seen(Loader))
    BY <2>1, FeedIsDone DEF LoadWholeOK, Feed
  <2> QED
    BY <2>1, <2>2, <2>3, <2>4 DEF Progress, ProgressNow
<1>9. CASE LoadCommits \/ LoadFails
  <2>1. load'.pc \in {"loaded", "failed"}
    BY <1>9 DEF LoadCommits, LoadFails, LoadOff
  <2> QED
    BY <2>1 DEF Progress, ProgressNow, LoadsOn
<1> QED
  BY <1>2, <1>3, <1>4, <1>5, <1>6, <1>7, <1>8, <1>9 DEF LoadStep

LEMMA LoadStepFrames ==
  ASSUME StoreOK, Behind, LoadStep
  PROVE  UNCHANGED vars \/ Frame(Loader)
<1> USE Distinct
<1>1. SessionsBehind
  BY DEF Behind
<1>2. CASE LoadStarts \/ LoadFetches \/ LoadNormalizes \/ LoadEndsFeed \/ LoadAuditsAgain
  BY <1>2 DEF LoadStarts, LoadFetches, LoadNormalizes, LoadEndsFeed, LoadAuditsAgain, AuditAgain,
              auditVars, vars
<1>3. CASE LoadRecords \/ LoadAdds
  BY <1>1, <1>3, RepositoryAdds, AddsRowStep DEF LoadRecords, LoadAdds
<1>4. CASE LoadCommits
  BY <1>4, CommitStep DEF LoadCommits
<1>5. CASE LoadFails
  BY <1>5, DiscardStep DEF LoadFails, AuditLeaves
<1> QED
  BY <1>2, <1>3, <1>4, <1>5 DEF LoadStep

LEMMA LoadStepWhole ==
  ASSUME StoreOK, Behind, LoadWholeOK, LoadStep
  PROVE  WholeLoad(disk)'
<1> USE Distinct, FourFeeds
<1>1. CASE LoadCommits
  <2>1. /\ load.pc = "audited" /\ lock = Loader /\ disk' = work[Loader]
        /\ session[Loader].pc = "idle"
    BY <1>1 DEF LoadCommits, Commit
  <2>2. \A k \in 1 .. Len(Feeds) : FeedDone(Feeds[k], disk')
    BY <2>1 DEF LoadWholeOK, Progress, ProgressNow, LoadsOn, Seen
  <2>3. FeedDone("completions", disk') /\ FeedDone("scorecard", disk')
    BY <2>2
  <2> QED
    BY <2>2, <2>3 DEF WholeLoad, FeedDone, OfAll
<1>2. CASE ~LoadCommits
  <2>1. disk' = disk
    BY <1>2 DEF LoadStep, LoadStarts, LoadFetches, LoadRecords, LoadNormalizes, LoadAdds,
                LoadEndsFeed, LoadAuditsAgain, LoadFails, AuditAgain, AuditLeaves, Close, Discard,
                AddSourceArtifact, AddUnversioned, AddObservation, AddTaxonomyMapping,
                AddVersioned, Prepare, auditVars, vars
  <2> QED
    BY <2>1 DEF LoadWholeOK
<1> QED
  BY <1>1, <1>2

LEMMA LoadWholeStep ==
  ASSUME AuditOK, AuditOK', Behind, LoadWholeOK, [ReportingNext]_reportingVars
  PROVE  LoadWholeOK'
<1> USE Distinct
<1>1. SessionsBehind /\ StoreOK /\ StoreOK'
  BY DEF Behind, AuditOK
<1>2. CASE LoadStep
  <2>1. WholeLoad(disk)'
    BY <1>1, <1>2, LoadStepWhole
  <2>2. Progress' /\ load'.pc # "new"
    BY <1>1, <1>2, LoadStepProgress
  <2>3. ASSUME NEW s \in Sessions \ {Loader} PROVE NoArtifacts(s)'
    <3>1. NoArtifacts(s)
      BY DEF LoadWholeOK
    <3>2. CASE UNCHANGED vars
      BY <3>1, <3>2 DEF NoArtifacts, vars
    <3>3. CASE Frame(Loader)
      BY <3>1, <3>3, NoArtifactsKept
    <3> QED
      BY <1>1, <1>2, <3>2, <3>3, LoadStepFrames
  <2> QED
    BY <2>1, <2>2, <2>3 DEF LoadWholeOK
<1>3. CASE UNCHANGED load /\ UNCHANGED vars
  <2>1. Seen(Loader)' = Seen(Loader)
    BY <1>3 DEF vars, Seen
  <2>2. Progress'
    BY <1>3, <2>1 DEF LoadWholeOK, Progress, ProgressNow, LoadsOn, AllRecorded, AddedFor, Waiting,
                      Feed, vars
  <2> QED
    BY <1>3, <2>2 DEF LoadWholeOK, NoArtifacts, vars
<1>4. CASE UNCHANGED load /\ LoaderFlushes
  <2>1. Frame(Loader)
    BY <1>1, <1>4, SessionStepFrame DEF LoaderFlushes, SessionStep
  <2>2. Progress' /\ disk' = disk
    BY <1>1, <1>4, <2>1, FlushKeepsProgress DEF LoadWholeOK
  <2>3. \A s \in Sessions \ {Loader} : NoArtifacts(s)'
    BY <2>1, NoArtifactsKept DEF LoadWholeOK
  <2>4. session[Loader].pc # "idle"
    BY <1>4 DEF LoaderFlushes, Insert, AppendEvent, AppendRaises, FlushFails
  <2> QED
    BY <1>4, <2>2, <2>3, <2>4 DEF LoadWholeOK
<1>5. CASE UNCHANGED load /\ \E s \in Sessions \ {Loader} : OtherWrites(s)
  <2>1. PICK s \in Sessions \ {Loader} : OtherWrites(s)
    BY <1>5
  <2>2. Frame(s)
    BY <1>1, <2>1, SessionStepFrame DEF OtherWrites
  <2>3. NoArtifacts(s)' /\ WholeLoad(disk)'
    BY <1>1, <2>1, <2>2, OthersAddNoArtifacts DEF LoadWholeOK
  <2>4. \A t \in Sessions \ {Loader} : NoArtifacts(t)'
    BY <2>2, <2>3, NoArtifactsKept DEF LoadWholeOK
  <2>5. Progress'
    BY <1>1, <1>5, <2>2, OthersKeepProgress DEF LoadWholeOK
  <2>6. session'[Loader] = session[Loader]
    BY <2>2 DEF Frame
  <2> QED
    BY <1>5, <2>3, <2>4, <2>5, <2>6 DEF LoadWholeOK
<1> QED
  BY <1>2, <1>3, <1>4, <1>5, StepsOfAll

(* harvest_universities ingests four sources in one transaction: whichever *)
(* of them fails, and whoever else commits meanwhile, no part of a load is *)
(* committed without the rest of it.                                       *)
THEOREM LoadsAreWhole ==
  ASSUME \A c \in Commands : \A db \in Found[c] : WholeLoad(db)
  PROVE  ReportingSpec => []LoadedWhole
<1>1. ReportingInit => AuditOK /\ Behind /\ LoadWholeOK
  <2> SUFFICES ASSUME ReportingInit PROVE LoadWholeOK
    BY BehindStart, AuditStart DEF ReportingInit
  <2>1. WholeLoad(disk)
    BY DEF ReportingInit
  <2>2. \A s \in Sessions : NoArtifacts(s)
    BY ConstantsAssumption DEF ReportingInit, AuditInit, NoArtifacts
  <2>3. load.pc = "new" => load.feed = 1 /\ session[Loader].pc = "idle"
    BY Distinct DEF ReportingInit, AuditInit, LoadNew, LoadOff
  <2>4. Progress
    BY DEF ReportingInit, Progress, LoadsOn, LoadNew, LoadOff
  <2> QED
    BY <2>1, <2>2, <2>3, <2>4 DEF LoadWholeOK
<1>2. AuditOK /\ Behind /\ LoadWholeOK /\ [ReportingNext]_reportingVars
        => AuditOK' /\ Behind' /\ LoadWholeOK'
  BY ReportingKeepsToAudit, AuditOKStep, LoadWholeStep
<1>3. LoadWholeOK => LoadedWhole
  BY DEF LoadWholeOK, LoadedWhole
<1> QED
  BY <1>1, <1>2, <1>3, PTL DEF ReportingSpec
=============================================================================
