---------------------------- MODULE EvidenceAudit ----------------------------
(***************************************************************************)
(* The audit that every report passes first: verify_ledger and then        *)
(* audit_evidence_coverage (ledger.py), called by audit-ledger,            *)
(* ReportContextBuilder.build, InsightsReportGenerator.generate and        *)
(* require_audit.  Each of its SELECTs is a statement of its own.  Before  *)
(* its session has written anything it reads the committed database of     *)
(* that moment; the second audit of harvest_universities reads what its    *)
(* own transaction holds.                                                  *)
(***************************************************************************)
EXTENDS EvidenceLedger

CONSTANTS
  Auditors,   \* the sessions that audit: before all else, if they write
  Databases   \* the databases they may find

VARIABLE
  audit   \* where each auditor is; since is a history variable: what it
          \* could read when it began to look for unledgered rows

auditVars == <<disk, lock, work, session, audit>>

(* entity_models, in the order the tables are read. *)
Tables ==
  <<"source_artifact", "observation", "claim", "evidence_edge", "challenge",
    "taxonomy_mapping", "derived_metric">>

Entry(type, id) == [type |-> type, entity |-> id]

(* Mutant: the events of one kind are left out. *)
CoveredByRevisions(events) ==
  {Entry(events[n].body.type, events[n].body.entity) :
     n \in {k \in 1 .. Len(events) : events[k].body.type \in Revisable}}

(* SELECT entity_type, entity_id FROM ledger_events *)
CoveredBy(events) == {Entry(events[n].body.type, events[n].body.entity) : n \in 1 .. Len(events)}

(* Mutant: a table is not in the list. *)
TablesButObservations == <<Tables[1]>> \o SubSeq(Tables, 3, 7)

(* The tables that the audit goes through. *)
AuditedTables == Tables

(* What the properties need to know of a database. *)
Snapshot(db) ==
  [rows |-> db.rows, events |-> [n \in 1 .. Len(db.events) |-> [body |-> db.events[n].body]]]

NewAudit ==
  [pc |-> "new", head |-> 0, covered |-> {}, table |-> 1, uncovered |-> {}, since |-> Empty]

AuditLeft == [NewAudit EXCEPT !.pc = "left"]

(* A database as the repository and the triggers of db.py leave it: no     *)
(* event tells of its row anything but what the row says.  Rows may lack   *)
(* an event, and the chain may be broken.                                  *)
IsTable(table) == Len(table) \in Nat /\ table = [n \in 1 .. Len(table) |-> table[n]]

WellKept(db) ==
  /\ db = [rows |-> db.rows, events |-> db.events]
  /\ IsTable(db.rows) /\ IsTable(db.events)
  /\ \A i \in 1 .. Len(db.rows) : db.rows[i].type \in Types
  /\ \A n \in 1 .. Len(db.events) :
       LET id == db.events[n].body.entity
       IN  id \in 1 .. Len(db.rows) /\ db.events[n].body = Body(db.rows[id], id)

ASSUME AuditAssumption ==
  /\ None \notin Auditors
  /\ \A db \in Databases : WellKept(db)

AuditInit ==
  /\ disk \in Databases
  /\ lock = None
  /\ work = [s \in Sessions |-> Empty]
  /\ session = [s \in Sessions |-> [pc |-> "idle", row |-> NoRow]]
  /\ audit = [a \in Auditors |-> NewAudit]

(* verify_ledger: of an invalid chain nothing more is read. *)
AuditVerifies(a) ==
  /\ audit[a].pc = "new"
  /\ audit' = [audit EXCEPT ![a].pc = IF Chained(Seen(a).events) THEN "verified" ELSE "refused",
                            ![a].head = Len(Seen(a).events)]
  /\ UNCHANGED vars

(* The first SELECT: what the ledger covers. *)
AuditBegins(a) ==
  /\ audit[a].pc = "verified"
  /\ audit' = [audit EXCEPT ![a] =
       [pc |-> "reading", head |-> @.head, covered |-> CoveredBy(Seen(a).events), table |-> 1,
        uncovered |-> {}, since |-> Snapshot(Seen(a))]]
  /\ UNCHANGED vars

(* One SELECT for each table: the ids it holds by now. *)
AuditTable(a) ==
  /\ audit[a].pc = "reading"
  /\ audit[a].table <= Len(AuditedTables)
  /\ LET type == AuditedTables[audit[a].table]
         found == {Entry(type, i) : i \in RowsOf(Seen(a), {type})}
     IN  audit' = [audit EXCEPT ![a].table = @ + 1,
                                ![a].uncovered = @ \cup (found \ audit[a].covered)]
  /\ UNCHANGED vars

(* EvidenceCoverageAudit.valid: the report goes ahead, or is refused. *)
AuditEnds(a) ==
  /\ audit[a].pc = "reading"
  /\ audit[a].table > Len(AuditedTables)
  /\ audit' = [audit EXCEPT ![a].pc = IF audit[a].uncovered = {} THEN "valid" ELSE "refused",
                            ![a].covered = {}]
  /\ UNCHANGED vars

(* require_audit is called a second time. *)
AuditAgain(a) ==
  /\ audit[a].pc = "valid"
  /\ audit' = [audit EXCEPT ![a] = NewAudit]
  /\ UNCHANGED vars

(* The command is left, by an exception or because the process dies. *)
AuditLeaves(a) ==
  /\ IF session[a].pc # "idle" \/ lock = a THEN Close(a) ELSE UNCHANGED vars
  /\ audit' = [audit EXCEPT ![a] = AuditLeft]

AuditStep(a) == AuditVerifies(a) \/ AuditBegins(a) \/ AuditTable(a) \/ AuditEnds(a)

(* An auditor writes once its audit is valid; the others whenever they     *)
(* like.  What they write is theirs to choose.                             *)
MayWrite(s) == s \in Auditors => audit[s].pc = "valid"

AddsRow(s) == session'[s].row.type \in Types /\ Prepare(s, session'[s].row)

AuditNext ==
  \/ \E a \in Auditors : AuditStep(a)
  \/ \E a \in Auditors \cap Sessions : AuditAgain(a) \/ AuditLeaves(a)
  \/ /\ \E s \in Sessions : MayWrite(s) /\ (AddsRow(s) \/ SessionStep(s))
     /\ UNCHANGED audit

AuditSpec == AuditInit /\ [][AuditNext]_auditVars

----------------------------------------------------------------------------
Ledgered(db, i) == \E n \in 1 .. Len(db.events) : db.events[n].body = Body(db.rows[i], i)

RowsLedgered(db) == \A i \in 1 .. Len(db.rows) : Ledgered(db, i)

(* No report on unledgered evidence: an audit that says valid began on a   *)
(* database in which every row of every table had its event, though rows   *)
(* were committed while it read (specs/001, tasks.md, T025: "Audit ledger  *)
(* coverage so unledgered evidence rows fail report generation").          *)
ValidMeansLedgered ==
  \A a \in Auditors : audit[a].pc = "valid" => RowsLedgered(audit[a].since)

(* An audit refuses a report for a reason: a broken chain, a row without   *)
(* its event, or a transaction that was committed while it read - it reads *)
(* the events first, so what was recorded since looks unledgered to it.    *)
RefusalHasCause ==
  \A a \in Auditors :
    audit[a].pc = "refused" =>
      \/ ~Chained(Seen(a).events)
      \/ ~RowsLedgered(audit[a].since)
      \/ Seen(a).rows # audit[a].since.rows
=============================================================================
