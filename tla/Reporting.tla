------------------------------ MODULE Reporting ------------------------------
(***************************************************************************)
(* The commands that read the evidence database for a report, beside those *)
(* who go on writing to it: a harvest, which adds observations and commits *)
(* even when one has lost its event, and an analyst who challenges claims  *)
(* (mcp_service.py, claims_challenge; repository.py, revise_challenge).    *)
(*                                                                         *)
(* One command runs in a behaviour: two that write wait for each other's   *)
(* lock, and what the other has committed is in the database it finds.     *)
(***************************************************************************)
EXTENDS InsightsReport, UniversityEvidence, ReportContext

CONSTANTS
  Commands,    \* those that may run
  Found,       \* for each command, the databases it may find
  Harvester,   \* the session of a harvest
  Analyst,     \* the session of those who challenge
  Facts,       \* what the harvest may observe
  Objections,  \* the keys of challenges
  MaxWrites    \* bound of the rows of harvest and analyst

VARIABLE
  written      \* how many these have begun to write

reportingVars == <<disk, lock, work, session, audit, report, load, view, context, written>>

(* A row refers to rows that were there before it - foreign keys, or a     *)
(* session.get before the insert, see to that - and the versions of a key  *)
(* are counted up from 1.                                                  *)
InOrder(db) ==
  \A i \in 1 .. Len(db.rows) : db.rows[i].refs \subseteq 1 .. i - 1 /\ db.rows[i].version \in 1 .. i

(* The observation_key of a number of BLS or QWI names its series and its  *)
(* month or quarter, and no two rows have the same version of it: what is  *)
(* in the database was asked for by default_plan, which asks for one       *)
(* geography and no split by industry.  The queries of the report select   *)
(* by metric and geography only.                                           *)
InSeries(row) ==
  row.type = "observation" /\ row.says.metric \in Monthly \cup Quarterly =>
    row.key = <<row.says.metric, row.says.period>> /\ row.says.period \in Nat

Keyed(db) ==
  \A i \in 1 .. Len(db.rows) :
    LET row == db.rows[i]
    IN  /\ InSeries(row)
        /\ row.type = "observation" /\ row.says.metric \in Monthly \cup Quarterly =>
             \A j \in VersionsOf(db, "observation", row.key) \ {i} : db.rows[j].version # row.version

AllCommands == {"report", "harvest-universities", "report-universities", "context"}

ASSUME ReportingAssumption ==
  /\ Commands \subseteq AllCommands
  /\ \A c \in Commands : Found[c] \subseteq Databases /\ \A db \in Found[c] : InOrder(db) /\ Keyed(db)
  /\ \A fact \in Facts : fact.metric \in Monthly \cup Quarterly => fact.period \in Nat
  /\ None \notin (Monthly \cup Quarterly) \X Nat
  /\ Generator # Loader
  /\ {Harvester, Analyst} \subseteq Sessions \ Auditors
  /\ Swallowers \subseteq {Harvester}
  /\ MaxWrites \in Nat

ReportingInit ==
  /\ AuditInit
  /\ \E c \in Commands :
       /\ disk \in Found[c]
       /\ report = IF c = "report" THEN ReportNew ELSE ReportOff
       /\ load = IF c = "harvest-universities" THEN LoadNew ELSE LoadOff
       /\ view = IF c = "report-universities" THEN ViewNew ELSE ViewOff
       /\ context = IF c = "context" THEN ContextNew ELSE ContextOff
  /\ written = 0

commandVars == <<report, load, view, context>>

(* The command that runs begins with the audit. *)
Runs(a) ==
  CASE a = Generator -> report.pc = "new"
    [] a = Loader -> load.pc \in {"new", "audited"}
    [] a = Viewer -> view.pc = "new"
    [] a = Reader -> context.pc = "new"

CommandAudits ==
  /\ \E a \in Auditors : Runs(a) /\ AuditStep(a)
  /\ UNCHANGED <<commandVars, written>>

(* canonical_json refuses a number that JSON has not. *)
CanBeHashed(row) == row.type \in {"observation", "derived_metric"} => Hashable(row.says.value)

(* The rest of the payload is hashed too - uncertainty, footnotes, the     *)
(* catalog, the name of a period - and what a provider has sent there may  *)
(* be refused whatever the number is.                                      *)
Events(s) ==
  \/ CanBeHashed(session[s].row) /\ AppendEvent(s)
  \/ AppendRaises(s)

Flushes ==
  /\ \E s \in Sessions : Insert(s) \/ Events(s) \/ FlushFails(s)
  /\ UNCHANGED <<audit, commandVars, written>>

Others == {Harvester, Analyst}

Writes(s, call) ==
  /\ written < MaxWrites
  /\ written' = written + 1
  /\ call
  /\ UNCHANGED <<audit, commandVars>>

HarvesterObserves ==
  \E fact \in Facts, a \in RowsOf(Seen(Harvester), {"source_artifact"}) :
    Writes(Harvester, AddObservation(Harvester, <<fact.metric, fact.period>>, {a}, fact))

AnalystChallenges ==
  \E key \in Objections, c \in RowsOf(Seen(Analyst), {"claim"}) :
    Writes(Analyst, AddChallenge(Analyst, key, {c}, [status |-> "open"]))

AnalystRevises ==
  \E key \in Objections, status \in {"open", "resolved"} :
    Writes(Analyst, ReviseChallenge(Analyst, key, [status |-> status]))

OthersEnd ==
  /\ \E s \in Others : Commit(s) \/ Close(s)
  /\ UNCHANGED <<audit, commandVars, written>>

ReportingNext ==
  \/ CommandAudits
  \/ ReportStep /\ UNCHANGED <<load, view, context, written>>
  \/ LoadStep /\ UNCHANGED <<report, view, context, written>>
  \/ ViewStep /\ UNCHANGED <<report, load, context, written>>
  \/ ContextStep /\ UNCHANGED <<report, load, view, written>>
  \/ Flushes
  \/ HarvesterObserves \/ AnalystChallenges \/ AnalystRevises \/ OthersEnd

ReportingSpec == ReportingInit /\ [][ReportingNext]_reportingVars
=============================================================================
