---------------------------- MODULE InsightsReport ----------------------------
(***************************************************************************)
(* The command report (insights_report.py, cli.py): it audits the          *)
(* database, reads the monthly BLS and the quarterly QWI observations in   *)
(* one SELECT each, and writes for every section it can compute a derived  *)
(* metric, a claim and the edge between them; then it commits.             *)
(*                                                                         *)
(* Months and quarters are numbered by the first month of theirs, and the  *)
(* year of a period is its number divided by YearLength.  Of a number only *)
(* what can be done with it is kept: SQLite stores a NaN as NULL, and an   *)
(* infinity, or a NaN, cannot be hashed into an event.                     *)
(***************************************************************************)
EXTENDS EvidenceAudit

CONSTANTS
  Generator,   \* the session of the command
  Monthly,     \* the metrics of BLS
  Quarterly,   \* those of QWI
  Sections,    \* the sections of the report, in their order
  AsOf,        \* the month of the report
  YearLength   \* the periods of a year

VARIABLE
  report       \* where the command is, what it has read and the section and
               \* row that it is at

ASSUME InsightsAssumption ==
  /\ Generator \in Sessions \cap Auditors /\ Generator \notin Swallowers
  /\ YearLength \in Nat \ {0} /\ AsOf \in Nat
  /\ Monthly \cap Quarterly = {}

(* What a section is about: the metric it reads, and whether it is about   *)
(* the change of that in a year.                                           *)
Section(name, metric, change) == [name |-> name, metric |-> metric, change |-> change]

UnemploymentRate == Section("unemp_rate", "rate", FALSE)

UnemploymentRateYoY == Section("unemp_rate_yoy", "rate", TRUE)

UnemployedLevel == Section("unemp_level", "level", FALSE)

LaborForce == Section("labor_force", "force", FALSE)

QwiEmployment == Section("qwi_mi_emp", "emp", FALSE)

QwiEmploymentYoY == Section("qwi_mi_emp_yoy", "emp", TRUE)

AllSections ==
  <<UnemploymentRate, UnemploymentRateYoY, UnemployedLevel, LaborForce, QwiEmployment,
    QwiEmploymentYoY>>

ASSUME SectionsAssumption ==
  /\ Len(Sections) \in Nat
  /\ \E at \in [1 .. Len(Sections) -> 1 .. Len(AllSections)] :
       \A n \in 1 .. Len(Sections) :
         /\ Sections[n] = AllSections[at[n]]
         /\ n > 1 => at[n - 1] < at[n]

ReportOff == [pc |-> "off", monthly |-> {}, quarterly |-> {}, section |-> 1, part |-> "metric"]

ReportNew == [ReportOff EXCEPT !.pc = "new"]

Numeric(value) == value \in {"number", "infinite"}

Hashable(value) == value \notin {"infinite", "nan"}

(* Mutant: NOT EXISTS (a newer version) is left out. *)
OfAnyVersion(db) == RowsOf(db, {"observation"})

(* ... WHERE NOT EXISTS (a newer version) *)
Newest(db) ==
  {i \in RowsOf(db, {"observation"}) :
     \A j \in VersionsOf(db, "observation", db.rows[i].key) :
       db.rows[j].version <= db.rows[i].version}

Period(db, i) == db.rows[i].says.period

(* From the start of the year before on, and not after the day of the      *)
(* report.                                                                 *)
QueriedMonthly(db) ==
  {i \in Newest(db) :
     /\ db.rows[i].says.metric \in Monthly
     /\ Period(db, i) \div YearLength + 1 >= AsOf \div YearLength
     /\ Period(db, i) <= AsOf}

QueriedQuarterly(db) ==
  {i \in Newest(db) : db.rows[i].says.metric \in Quarterly /\ Period(db, i) <= AsOf}

----------------------------------------------------------------------------
Here == Sections[report.section]

(* What was read of the metric of the section. *)
OfSection ==
  {i \in report.monthly \cup report.quarterly :
     Seen(Generator).rows[i].says.metric = Here.metric}

WithNumber(found) == {i \in found : Numeric(Seen(Generator).rows[i].says.value)}

LastOf(found) ==
  {i \in found : \A j \in found : Period(Seen(Generator), j) <= Period(Seen(Generator), i)}

(* _latest_numeric of a monthly metric; the last quarter, if it has one.   *)
Basis ==
  IF Here.metric \in Monthly THEN LastOf(WithNumber(OfSection)) ELSE WithNumber(LastOf(OfSection))

(* Mutant: a year before the report. *)
YearBeforeReport(period) == AsOf - YearLength

(* The same month or quarter of the year before. *)
YearBefore(period) == period - YearLength

Priors(i) ==
  {j \in WithNumber(OfSection) :
     Period(Seen(Generator), j) = YearBefore(Period(Seen(Generator), i))}

(* The observations that the metric of the section is computed from: none, *)
(* and the section says insufficient_data.                                 *)
Inputs ==
  CASE Basis = {} -> {}
    [] Basis # {} /\ ~Here.change -> Basis
    [] OTHER -> LET priors == UNION {Priors(i) : i \in Basis}
                IN  IF priors = {} THEN {} ELSE Basis \cup priors

SectionKey == <<Here.name, Period(Seen(Generator), CHOOSE i \in Basis : TRUE)>>

(* A difference with an infinity is no finite number either. *)
Computed(inputs) ==
  IF \E i \in inputs : Seen(Generator).rows[i].says.value = "infinite" THEN "infinite" ELSE "number"

ReportAt(pc, part) == report.pc = pc /\ report.part = part

(* Mutant: the verdict of the audit is not looked at. *)
ReportQueriesUnaudited ==
  /\ report.pc = "new"
  /\ audit[Generator].pc \in {"valid", "refused"}
  /\ report' = [report EXCEPT !.pc = "querying", !.monthly = QueriedMonthly(Seen(Generator))]
  /\ UNCHANGED auditVars

ReportQueriesMonthly ==
  /\ report.pc = "new"
  /\ audit[Generator].pc = "valid"
  /\ report' = [report EXCEPT !.pc = "querying", !.monthly = QueriedMonthly(Seen(Generator))]
  /\ UNCHANGED auditVars

ReportQueriesQuarterly ==
  /\ report.pc = "querying"
  /\ report' = [report EXCEPT !.pc = "sections", !.quarterly = QueriedQuarterly(Seen(Generator))]
  /\ UNCHANGED auditVars

NextPart(part) == report' = [report EXCEPT !.part = part] /\ UNCHANGED audit

NextSection ==
  report' = [report EXCEPT !.part = "metric", !.section = @ + 1] /\ UNCHANGED audit

ReportSkipsSection ==
  /\ ReportAt("sections", "metric") /\ report.section <= Len(Sections)
  /\ Inputs = {}
  /\ NextSection
  /\ UNCHANGED vars

ReportAddsMetric ==
  /\ ReportAt("sections", "metric") /\ report.section <= Len(Sections)
  /\ AddDerivedMetric(Generator, SectionKey, Inputs,
                      [metric |-> Here.metric, change |-> Here.change, value |-> Computed(Inputs)])
  /\ NextPart("claim")

ReportAddsClaim ==
  /\ ReportAt("sections", "claim")
  /\ AddClaim(Generator, SectionKey, [status |-> "supported"])
  /\ NextPart("edge")

(* Of a reported level the evidence is the observation, of a change the    *)
(* metric.                                                                 *)
ReportAddsEvidence ==
  /\ ReportAt("sections", "edge") /\ session[Generator].pc = "idle"
  /\ LET claim == Current(Seen(Generator), "claim", SectionKey)
         metric == Current(Seen(Generator), "derived_metric", SectionKey)
     IN  AddEvidence(Generator, {claim} \cup (IF Here.change THEN {metric} ELSE Inputs),
                     [relation |-> Here.change])
  /\ NextSection

(* The session is committed and the report printed. *)
ReportCommits ==
  /\ ReportAt("sections", "metric") /\ report.section > Len(Sections)
  /\ session[Generator].pc = "idle"
  /\ IF lock = Generator THEN Commit(Generator) ELSE UNCHANGED vars
  /\ report' = [ReportOff EXCEPT !.pc = "reported"]
  /\ UNCHANGED audit

(* An audit that refuses, or whatever else is raised, leaves the session's *)
(* with block; or the process is killed.                                   *)
ReportFails ==
  /\ report.pc \notin {"off", "reported", "failed"}
  /\ AuditLeaves(Generator)
  /\ report' = [ReportOff EXCEPT !.pc = "failed"]

ReportStep ==
  \/ ReportQueriesMonthly \/ ReportQueriesQuarterly
  \/ ReportSkipsSection \/ ReportAddsMetric \/ ReportAddsClaim \/ ReportAddsEvidence
  \/ ReportCommits \/ ReportFails

----------------------------------------------------------------------------
Metrics(db) == RowsOf(db, {"derived_metric"})

EventsOf(db, i) == {n \in 1 .. Len(db.events) : db.events[n].body = Body(db.rows[i], i)}

(* insights_report.py:108 "Cannot generate insights from unaudited         *)
(* evidence": a metric that the report has committed is in the ledger, and *)
(* after all that it was computed from - whatever the audit knew, and of   *)
(* what was committed since all that ever gets an event.  (What a harvest  *)
(* commits without one after the audit has begun is computed from too.)    *)
RestsOnLedgered ==
  report.pc = "reported" =>
    LET known == 1 .. Len(audit[Generator].since.rows)
    IN  \A m \in Metrics(disk) \ known : \E k \in EventsOf(disk, m) :
          \A o \in disk.rows[m].refs :
            o \in known \/ Ledgered(disk, o) => \E n \in EventsOf(disk, o) : n < k

(* What a metric, a row of db, promises when a report that began with the  *)
(* rows in known has computed it.                                          *)
YearApart(metric, db, known) ==
  \E last \in metric.refs :
    /\ \A o \in metric.refs :
         /\ db.rows[o].says.metric = metric.says.metric
         /\ Numeric(db.rows[o].says.value)
         /\ \A j \in VersionsOf(db, "observation", db.rows[o].key) :
              db.rows[j].version > db.rows[o].version => j \notin known
         /\ o # last => Period(db, last) - Period(db, o) = YearLength
    /\ (Cardinality(metric.refs) = 2) = metric.says.change
    /\ metric.key[2] = Period(db, last)
    /\ \A j \in known \cap Newest(db) :
         /\ db.rows[j].says.metric = metric.says.metric
         /\ Numeric(db.rows[j].says.value)
         /\ Period(db, j) <= AsOf
         => Period(db, j) <= Period(db, last)

(* When the report was audited, none of its inputs was superseded, no      *)
(* later number of its metric was known - unless that was superseded while *)
(* the report ran - and a change compares numbers a year apart.            *)
NewestYearApart ==
  report.pc = "reported" =>
    LET known == 1 .. Len(audit[Generator].since.rows)
    IN  \A i \in Metrics(disk) \ known : YearApart(disk.rows[i], disk, known)
=============================================================================
