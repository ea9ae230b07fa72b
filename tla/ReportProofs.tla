---------------------------- MODULE ReportProofs ----------------------------
(***************************************************************************)
(* Proofs about what the reports say, for any number of sessions, rows and *)
(* databases, on top of what AuditProofs shows of the audit before them:   *)
(* the context that a report is written from shows its claims honestly and *)
(* with the sources of all their numbers; the metrics that the report      *)
(* commits are in the ledger, after what they rest on, rest on the newest  *)
(* that the audit knew, and compare numbers a year apart.                  *)
(***************************************************************************)
EXTENDS AuditProofs, WellFoundedInduction, FiniteSetTheorems

(* A row that may come after the rows of db. *)
RowFits(row, db) ==
  row.refs \subseteq 1 .. Len(db.rows) /\ row.version \in 1 .. Len(db.rows) + 1

SessionInOrder(s) ==
  /\ InOrder(Seen(s))
  /\ session[s].pc = "ready" => RowFits(session[s].row, Seen(s))

AllInOrder == InOrder(disk) /\ \A s \in Sessions : SessionInOrder(s)

----------------------------------------------------------------------------
(* Where versions are counted from 1, a key that has any has a last one.   *)
LEMMA LastVersionExists ==
  ASSUME NEW db, Len(db.rows) \in Nat, InOrder(db), NEW found \in SUBSET (1 .. Len(db.rows)),
         found # {}
  PROVE  \E i \in found : \A j \in found : db.rows[j].version <= db.rows[i].version
<1> DEFINE N == Len(db.rows)
           V(i) == db.rows[i].version
           T == {N - V(i) : i \in found}
<1>1. \A i \in found : V(i) \in 1 .. N
  BY DEF InOrder
<1> HIDE DEF V, N
<1>2. N \in Nat
  BY DEF N
<1>3. T \subseteq Nat /\ T # {}
  <2>1. ASSUME NEW i \in found PROVE N - V(i) \in Nat
    BY <1>1, <1>2
  <2>2. PICK i : i \in found
    OBVIOUS
  <2>3. N - V(i) \in T
    BY <2>2
  <2> QED
    BY <2>1, <2>3
<1> HIDE DEF T
<1>4. PICK x \in T : \A y \in T : ~ (<<y, x>> \in OpToRel(<, Nat))
  BY <1>3, WFMin, NatLessThanWellFounded
<1>5. \A y \in T : ~ (y < x)
  BY <1>3, <1>4 DEF OpToRel
<1>6. PICK i \in found : x = N - V(i)
  BY <1>4 DEF T
<1>7. ASSUME NEW j \in found PROVE V(j) <= V(i)
  <2>1. N - V(j) \in T
    BY DEF T
  <2> QED
    BY <1>1, <1>2, <1>5, <1>6, <2>1
<1> QED
  BY <1>7 DEF V

LEMMA CurrentIs ==
  ASSUME NEW db, Len(db.rows) \in Nat, InOrder(db), NEW type, NEW key,
         VersionsOf(db, type, key) # {}
  PROVE  /\ Current(db, type, key) \in VersionsOf(db, type, key)
         /\ \A j \in VersionsOf(db, type, key) :
              db.rows[j].version <= db.rows[Current(db, type, key)].version
<1>1. VersionsOf(db, type, key) \subseteq 1 .. Len(db.rows)
  BY DEF VersionsOf
<1>2. \E i \in VersionsOf(db, type, key) : \A j \in VersionsOf(db, type, key) :
        db.rows[j].version <= db.rows[i].version
  BY <1>1, LastVersionExists
<1> QED
  BY <1>2 DEF Current

LEMMA ValidAreRows ==
  ASSUME NEW db, NEW type \in Types, NEW refs, ValidRefs(db, type, refs)
  PROVE  refs \subseteq 1 .. Len(db.rows)
<1>1. \A types : RowsOf(db, types) \subseteq 1 .. Len(db.rows)
  BY DEF RowsOf
<1>2. CASE type \in {"source_artifact", "claim"}
  BY <1>2 DEF ValidRefs
<1>3. CASE type \in {"observation", "taxonomy_mapping"}
  <2>1. \E a \in RowsOf(db, {"source_artifact"}) : refs = {a}
    BY <1>3 DEF ValidRefs
  <2> QED
    BY <1>1, <2>1
<1>4. CASE type = "derived_metric"
  BY <1>1, <1>4 DEF ValidRefs
<1>5. CASE type = "challenge"
  BY <1>1, <1>5 DEF ValidRefs
<1>6. CASE type = "evidence_edge"
  BY <1>1, <1>6 DEF ValidRefs
<1> QED
  BY <1>2, <1>3, <1>4, <1>5, <1>6 DEF Types, Unversioned, Revisable

LEMMA NewFits ==
  ASSUME NEW db, Len(db.rows) \in Nat, InOrder(db), NEW type, NEW key, NEW says,
         NEW refs, refs \subseteq 1 .. Len(db.rows)
  PROVE  /\ RowFits(FirstVersion(type, key, refs, says), db)
         /\ RowFits(NextVersionOf(db, type, key, refs, says), db)
<1> DEFINE first == FirstVersion(type, key, refs, says)
<1>1. first.refs = refs /\ first.version = 1
  BY DEF FirstVersion
<1>2. RowFits(first, db)
  BY <1>1 DEF RowFits
<1>3. ASSUME NEW v, NEW w
      PROVE  /\ [first EXCEPT !.version = v, !.supersedes = w].refs = refs
             /\ [first EXCEPT !.version = v, !.supersedes = w].version = v
  BY DEF FirstVersion
<1>4. CASE VersionsOf(db, type, key) = {}
  BY <1>2, <1>4 DEF NextVersionOf
<1>5. CASE VersionsOf(db, type, key) # {}
  <2> DEFINE v == db.rows[Current(db, type, key)].version + 1
             next == [first EXCEPT !.version = v, !.supersedes = Current(db, type, key)]
  <2>1. NextVersionOf(db, type, key, refs, says) = next
    BY <1>5 DEF NextVersionOf
  <2>2. Current(db, type, key) \in 1 .. Len(db.rows)
    BY <1>5, CurrentIs DEF VersionsOf
  <2>3. v \in 1 .. Len(db.rows) + 1
    BY <2>2 DEF InOrder
  <2>4. next.refs = refs /\ next.version = v
    BY <1>3
  <2> QED
    BY <1>2, <2>1, <2>3, <2>4 DEF RowFits
<1> QED
  BY <1>2, <1>4, <1>5

(* Whatever the repository adds refers to rows that the session sees.      *)
LEMMA AddedFits ==
  ASSUME SessionsBehind, NEW s \in Sessions, Len(Seen(s).rows) \in Nat, InOrder(Seen(s)),
         NEW key, NEW refs, NEW says,
         \/ AddSourceArtifact(s, says) \/ AddEvidence(s, refs, says)
         \/ AddObservation(s, key, refs, says) \/ AddDerivedMetric(s, key, refs, says)
         \/ AddTaxonomyMapping(s, key, refs, says) \/ AddClaim(s, key, says)
         \/ AddChallenge(s, key, refs, says) \/ ReviseChallenge(s, key, says)
  PROVE  AddsRow(s) /\ RowFits(session'[s].row, Seen(s))
<1> DEFINE db == Seen(s)
<1>1. AddsRow(s)
  BY RepositoryAdds
<1>2. CASE \E type \in Types : \E r, k :
             /\ ValidRefs(db, type, r)
             /\ \/ Prepare(s, FirstVersion(type, k, r, says))
                \/ Prepare(s, NextVersionOf(db, type, k, r, says))
  <2>0. PICK type \in Types : \E r, k :
          /\ ValidRefs(db, type, r)
          /\ \/ Prepare(s, FirstVersion(type, k, r, says))
             \/ Prepare(s, NextVersionOf(db, type, k, r, says))
    BY <1>2
  <2>1. PICK r, k :
          /\ ValidRefs(db, type, r)
          /\ \/ Prepare(s, FirstVersion(type, k, r, says))
             \/ Prepare(s, NextVersionOf(db, type, k, r, says))
    BY <2>0
  <2>2. r \subseteq 1 .. Len(db.rows)
    BY <2>1, ValidAreRows
  <2>3. /\ RowFits(FirstVersion(type, k, r, says), db)
        /\ RowFits(NextVersionOf(db, type, k, r, says), db)
    BY <2>2, NewFits
  <2>4. \/ session'[s] = [pc |-> "ready", row |-> FirstVersion(type, k, r, says)]
        \/ session'[s] = [pc |-> "ready", row |-> NextVersionOf(db, type, k, r, says)]
    BY <2>1, PreparedIs
  <2>5. \/ session'[s].row = FirstVersion(type, k, r, says)
        \/ session'[s].row = NextVersionOf(db, type, k, r, says)
    BY <2>4
  <2> QED
    BY <1>1, <2>3, <2>5
<1>3. CASE ReviseChallenge(s, key, says)
  <2> DEFINE r == db.rows[Current(db, "challenge", key)].refs
             row == NextVersionOf(db, "challenge", key, r, says)
  <2>1. VersionsOf(db, "challenge", key) # {} /\ Prepare(s, row)
    BY <1>3 DEF ReviseChallenge
  <2>2. Current(db, "challenge", key) \in 1 .. Len(db.rows)
    BY <2>1, CurrentIs DEF VersionsOf
  <2>3. r \subseteq 1 .. Len(db.rows)
    BY <2>2 DEF InOrder
  <2>4. RowFits(row, db)
    BY <2>3, NewFits
  <2>5. session'[s] = [pc |-> "ready", row |-> row]
    BY <2>1, PreparedIs
  <2> QED
    BY <1>1, <2>4, <2>5
<1> QED
  BY <1>2, <1>3
  DEF AddSourceArtifact, AddEvidence, AddUnversioned, AddObservation, AddDerivedMetric,
      AddTaxonomyMapping, AddClaim, AddVersioned, AddChallenge, Types, Unversioned, Revisable

----------------------------------------------------------------------------
(* What a step of Reporting does to the database it does by one session:   *)
(* that adds a row, is in a flush, commits or is closed.                   *)
Adds(s) ==
  /\ AddsRow(s)
  /\ RowFits(session'[s].row, Seen(s))
  /\ session'[s].row.type = "derived_metric" => s = Generator /\ ReportAddsMetric
  /\ load.pc = "off" => InSeries(session'[s].row)

Flush(s) == Insert(s) \/ Events(s) \/ FlushFails(s)

ActsOn(s) == Adds(s) \/ Flush(s) \/ Commit(s) \/ Close(s)

LEMMA NewRowRefs ==
  ASSUME NEW type, NEW key, NEW refs, NEW says, NEW db
  PROVE  /\ FirstVersion(type, key, refs, says).refs = refs
         /\ NextVersionOf(db, type, key, refs, says).refs = refs
         /\ NextVersionOf(db, type, key, refs, says).says = says
<1>1. FirstVersion(type, key, refs, says).refs = refs /\ FirstVersion(type, key, refs, says).says = says
  BY DEF FirstVersion
<1>2. ASSUME NEW v, NEW w
      PROVE  LET next == [FirstVersion(type, key, refs, says) EXCEPT !.version = v, !.supersedes = w]
             IN  next.refs = refs /\ next.says = says
  BY DEF FirstVersion
<1> QED
  BY <1>1, <1>2 DEF NextVersionOf

LEMMA VersionedIs ==
  ASSUME SessionsBehind, NEW s \in Sessions, NEW type, NEW key, NEW refs, NEW says,
         AddVersioned(s, type, key, refs, says)
  PROVE  /\ session[s].pc = "idle" /\ session'[s].pc = "ready"
         /\ session'[s].row.type = type /\ session'[s].row.key = key
         /\ session'[s].row.refs = refs /\ session'[s].row.says = says
         /\ ValidRefs(Seen(s), type, refs)
<1> DEFINE row == NextVersionOf(Seen(s), type, key, refs, says)
<1>1. Prepare(s, row) /\ ValidRefs(Seen(s), type, refs)
  BY DEF AddVersioned
<1>2. session'[s] = [pc |-> "ready", row |-> row]
  BY <1>1, PreparedIs
<1>3. row.type = type /\ row.key = key /\ row.refs = refs /\ row.says = says
  BY NewRow, NewRowRefs
<1> QED
  BY <1>1, <1>2, <1>3 DEF Prepare

(* Metrics are the report's, and observations a harvest's.                 *)
LEMMA OtherTypeAdded ==
  ASSUME SessionsBehind, NEW s \in Sessions, NEW key, NEW refs, NEW says,
         \/ AddSourceArtifact(s, says) \/ AddEvidence(s, refs, says)
         \/ AddTaxonomyMapping(s, key, refs, says) \/ AddClaim(s, key, says)
         \/ AddChallenge(s, key, refs, says) \/ ReviseChallenge(s, key, says)
  PROVE  session'[s].row.type \notin {"derived_metric", "observation"}
<1> DEFINE others == Types \ {"derived_metric", "observation"}
<1>1. CASE \E type \in others : \E k, r :
             \/ Prepare(s, FirstVersion(type, k, r, says))
             \/ Prepare(s, NextVersionOf(Seen(s), type, k, r, says))
  <2>1. PICK type \in others : \E k, r :
             \/ Prepare(s, FirstVersion(type, k, r, says))
             \/ Prepare(s, NextVersionOf(Seen(s), type, k, r, says))
    BY <1>1
  <2>2. PICK k, r : \/ Prepare(s, FirstVersion(type, k, r, says))
                    \/ Prepare(s, NextVersionOf(Seen(s), type, k, r, says))
    BY <2>1
  <2>3. \/ session'[s] = [pc |-> "ready", row |-> FirstVersion(type, k, r, says)]
        \/ session'[s] = [pc |-> "ready", row |-> NextVersionOf(Seen(s), type, k, r, says)]
    BY <2>2, PreparedIs
  <2>4. session'[s].row.type = type
    BY <2>3, NewRow
  <2> QED
    BY <2>4
<1> QED
  BY <1>1
  DEF AddSourceArtifact, AddEvidence, AddUnversioned, AddTaxonomyMapping, AddClaim,
      AddVersioned, AddChallenge, ReviseChallenge, Types, Unversioned, Revisable

(* What is added is in the series that its key names.                      *)
InItsSeries(key, says) ==
  says.metric \in Monthly \cup Quarterly => key = <<says.metric, says.period>> /\ says.period \in Nat

LEMMA OthersAdd ==
  ASSUME SessionsBehind, NEW s \in Sessions, Len(Seen(s).rows) \in Nat, InOrder(Seen(s)),
         NEW key, NEW refs, NEW says,
         \/ AddSourceArtifact(s, says) \/ AddEvidence(s, refs, says)
         \/ AddObservation(s, key, refs, says) /\ (load.pc = "off" => InItsSeries(key, says))
         \/ AddTaxonomyMapping(s, key, refs, says) \/ AddClaim(s, key, says)
         \/ AddChallenge(s, key, refs, says) \/ ReviseChallenge(s, key, says)
  PROVE  Adds(s)
<1>1. AddsRow(s) /\ RowFits(session'[s].row, Seen(s))
  BY AddedFits
<1>2. CASE AddObservation(s, key, refs, says) /\ (load.pc = "off" => InItsSeries(key, says))
  <2>1. /\ session'[s].row.type = "observation" /\ session'[s].row.key = key
        /\ session'[s].row.says = says
    BY <1>2, VersionedIs DEF AddObservation
  <2> QED
    BY <1>1, <1>2, <2>1 DEF Adds, InSeries, InItsSeries
<1>3. CASE ~AddObservation(s, key, refs, says)
  BY <1>1, <1>3, OtherTypeAdded DEF Adds, InSeries
<1> QED
  BY <1>2, <1>3, <1>1, OtherTypeAdded DEF Adds, InSeries

LEMMA SessionActs ==
  ASSUME AuditOK, Behind, AllInOrder, [ReportingNext]_reportingVars
  PROVE  UNCHANGED vars \/ \E s \in Sessions : ActsOn(s)
<1> USE Distinct
<1>1. /\ SessionsBehind
      /\ \A s \in Sessions : Len(Seen(s).rows) \in Nat /\ InOrder(Seen(s))
  BY SeenKept, KeptTables, ConstantsAssumption DEF Behind, AuditOK, AllInOrder, SessionInOrder
<1>2. CASE CommandAudits
  BY <1>2 DEF CommandAudits, AuditStep, AuditVerifies, AuditBegins, AuditTable, AuditEnds
<1>3. ASSUME NEW a \in Auditors \cap Sessions, AuditLeaves(a)
      PROVE  UNCHANGED vars \/ ActsOn(a)
  BY <1>3 DEF AuditLeaves, ActsOn
<1>4. CASE ReportStep
  <2>1. CASE ReportQueriesMonthly \/ ReportQueriesQuarterly \/ ReportSkipsSection
    BY <2>1 DEF ReportQueriesMonthly, ReportQueriesQuarterly, ReportSkipsSection, auditVars, vars
  <2>2. CASE ReportAddsMetric
    <3>1. AddsRow(Generator) /\ RowFits(session'[Generator].row, Seen(Generator))
      BY <1>1, <2>2, AddedFits DEF ReportAddsMetric
    <3>2. session'[Generator].row.type = "derived_metric"
      BY <1>1, <2>2, VersionedIs DEF ReportAddsMetric, AddDerivedMetric
    <3> QED
      BY <2>2, <3>1, <3>2 DEF Adds, ActsOn, InSeries
  <2>3. CASE ReportAddsClaim \/ ReportAddsEvidence
    BY <1>1, <2>3, OthersAdd DEF ReportAddsClaim, ReportAddsEvidence, ActsOn
  <2>4. CASE ReportCommits \/ ReportFails
    BY <1>3, <2>4 DEF ReportCommits, ReportFails, ActsOn
  <2> QED
    BY <1>4, <2>1, <2>2, <2>3, <2>4 DEF ReportStep
<1>5. CASE LoadStep
  <2>1. CASE LoadStarts \/ LoadFetches \/ LoadNormalizes \/ LoadEndsFeed \/ LoadAuditsAgain
    BY <2>1 DEF LoadStarts, LoadFetches, LoadNormalizes, LoadEndsFeed, LoadAuditsAgain, AuditAgain,
                auditVars, vars
  <2>2. CASE LoadRecords \/ LoadAdds
    <3>1. load.pc # "off"
      BY <2>2 DEF LoadRecords, LoadAdds
    <3> QED
      BY <1>1, <2>2, <3>1, OthersAdd DEF LoadRecords, LoadAdds, ActsOn
  <2>3. CASE LoadCommits \/ LoadFails
    BY <1>3, <2>3 DEF LoadCommits, LoadFails, ActsOn
  <2> QED
    BY <1>5, <2>1, <2>2, <2>3 DEF LoadStep
<1>6. CASE ViewStep \/ ContextStep
  BY <1>6 DEF ViewStep, ViewReadsAwards, ViewReadsOutcomes, ViewReadsMappings, ViewReadsCoverage,
              ViewReadsHead, ContextStep, ContextMissesClaim, ContextReadsEdges,
              ContextReadsSupport, ContextGetsArtifacts, ContextListsChallenges,
              ContextReadsStatus, TraceTo, auditVars, vars
<1>7. CASE Flushes
  BY <1>7 DEF Flushes, Flush, ActsOn
<1>8. CASE HarvesterObserves
  <2>1. PICK fact \in Facts, a \in RowsOf(Seen(Harvester), {"source_artifact"}) :
          AddObservation(Harvester, <<fact.metric, fact.period>>, {a}, fact)
    BY <1>8 DEF HarvesterObserves, Writes
  <2>2. InItsSeries(<<fact.metric, fact.period>>, fact)
    BY ReportingAssumption DEF InItsSeries
  <2> QED
    BY <1>1, <2>1, <2>2, OthersAdd DEF ActsOn
<1>9. CASE AnalystChallenges \/ AnalystRevises
  BY <1>1, <1>9, OthersAdd DEF AnalystChallenges, AnalystRevises, Writes, ActsOn
<1>10. CASE OthersEnd
  BY <1>10 DEF OthersEnd, Others, ActsOn
<1>11. CASE UNCHANGED reportingVars
  BY <1>11 DEF reportingVars, vars
<1> QED
  BY <1>2, <1>4, <1>5, <1>6, <1>7, <1>8, <1>9, <1>10, <1>11 DEF ReportingNext

----------------------------------------------------------------------------
(* What the session sees after each of these steps.                        *)
LEMMA InsertFacts ==
  ASSUME StoreOK, NEW s \in Sessions, Insert(s)
  PROVE  /\ session[s].pc = "ready" /\ disk' = disk /\ lock' = s
         /\ session'[s].pc = "inserted" /\ session'[s].row = session[s].row
         /\ Len(Seen(s)'.rows) = Len(Seen(s).rows) + 1
         /\ \A i \in 1 .. Len(Seen(s).rows) : Seen(s)'.rows[i] = Seen(s).rows[i]
         /\ Seen(s)'.rows[Len(Seen(s).rows) + 1] = session[s].row
         /\ Seen(s)'.events = Seen(s).events
         /\ Unique(Seen(s), session[s].row)
<1> DEFINE row == session[s].row
           old == Seen(s)
           new == [old EXCEPT !.rows = Append(@, row)]
<1>1. /\ session[s].pc = "ready" /\ lock' = s /\ disk' = disk
      /\ work' = [work EXCEPT ![s] = new] /\ Goto(s, "inserted") /\ Unique(old, row)
  BY DEF Insert
<1>2. WellKept(old)
  BY SeenKept, ConstantsAssumption
<1> HIDE DEF old
<1>3. new = [rows |-> Append(old.rows, row), events |-> old.events]
  <2>1. old = [rows |-> old.rows, events |-> old.events]
    BY <1>2, KeptTables
  <2> QED
    BY <2>1
<1> HIDE DEF row
<1>4. /\ Len(new.rows) = Len(old.rows) + 1
      /\ \A i \in 1 .. Len(old.rows) : new.rows[i] = old.rows[i]
      /\ new.rows[Len(old.rows) + 1] = row
  BY <1>2, <1>3, TableAppends DEF WellKept
<1>5. new.events = old.events
  BY <1>3
<1> HIDE DEF new
<1>6. Seen(s)' = new
  <2>1. work'[s] = new
    BY <1>1, WorkFrame
  <2> QED
    BY <1>1, <2>1 DEF Seen
<1>7. session'[s].pc = "inserted" /\ session'[s].row = session[s].row
  <2>1. session'[s] = [pc |-> "inserted", row |-> session[s].row]
    BY <1>1, GotoFrame
  <2> QED
    BY <2>1
<1> QED
  BY <1>1, <1>4, <1>5, <1>6, <1>7 DEF old, row

LEMMA AppendFacts ==
  ASSUME StoreOK, NEW s \in Sessions, AppendEvent(s)
  PROVE  /\ session[s].pc = "inserted" /\ disk' = disk /\ lock = s /\ lock' = s
         /\ session'[s].pc = "idle" /\ session'[s].row = session[s].row
         /\ Seen(s)'.rows = Seen(s).rows
         /\ Len(Seen(s)'.events) = Len(Seen(s).events) + 1
         /\ \A n \in 1 .. Len(Seen(s).events) : Seen(s)'.events[n] = Seen(s).events[n]
         /\ Seen(s)'.events[Len(Seen(s).events) + 1].body
              = Body(Seen(s).rows[Len(Seen(s).rows)], Len(Seen(s).rows))
         /\ Seen(s).rows[Len(Seen(s).rows)] = session[s].row
<1> DEFINE old == work[s]
           body == Body(session[s].row, Len(old.rows))
           event == EventAfter(old.events, body)
<1>1. /\ session[s].pc = "inserted" /\ disk' = disk /\ lock' = lock /\ Goto(s, "idle")
      /\ work' = [work EXCEPT ![s].events = Append(@, event)]
  BY DEF AppendEvent, StoreOK
<1>2. /\ lock = s /\ WellKept(old) /\ old.rows[Len(old.rows)] = session[s].row
  BY <1>1 DEF StoreOK, SessionOK, Grown
<1>3. work'[s] = [work[s] EXCEPT !.events = Append(@, event)]
  BY <1>1 DEF StoreOK
<1> HIDE DEF event
<1>4. work'[s].rows = old.rows /\ work'[s].events = Append(old.events, event)
  <2>1. old = [rows |-> old.rows, events |-> old.events]
    BY <1>2, KeptTables
  <2> HIDE DEF old
  <2>2. work'[s] = [old EXCEPT !.events = Append(@, event)]
    BY <1>3 DEF old
  <2> QED
    BY <2>1, <2>2
<1>5. /\ Len(Append(old.events, event)) = Len(old.events) + 1
      /\ \A n \in 1 .. Len(old.events) : Append(old.events, event)[n] = old.events[n]
      /\ Append(old.events, event)[Len(old.events) + 1] = event
  BY <1>2, TableAppends DEF WellKept
<1>6. event.body = body
  BY DEF event, EventAfter
<1>7. session'[s].pc = "idle" /\ session'[s].row = session[s].row
  <2>1. session'[s] = [pc |-> "idle", row |-> session[s].row]
    BY <1>1, GotoFrame
  <2> QED
    BY <2>1
<1> HIDE DEF body
<1>8. Seen(s)' = work'[s] /\ Seen(s) = old
  BY <1>1, <1>2 DEF Seen
<1>9. body = Body(old.rows[Len(old.rows)], Len(old.rows))
  BY <1>2 DEF body
<1> HIDE DEF old
<1> QED
  BY <1>1, <1>2, <1>4, <1>5, <1>6, <1>7, <1>8, <1>9

LEMMA RaiseFacts ==
  ASSUME StoreOK, NEW s \in Sessions, AppendRaises(s)
  PROVE  /\ session[s].pc = "inserted" /\ UNCHANGED <<disk, lock, work>> /\ lock = s
         /\ session'[s].pc = AfterException(s) /\ session'[s].row = session[s].row
         /\ Seen(s)' = Seen(s)
<1>1. Goto(s, AfterException(s)) /\ UNCHANGED <<disk, lock, work>> /\ session[s].pc = "inserted"
  BY DEF AppendRaises
<1>2. session'[s] = [pc |-> AfterException(s), row |-> session[s].row]
  BY <1>1, GotoFrame
<1> QED
  BY <1>1, <1>2 DEF Seen, StoreOK, SessionOK

LEMMA DiscardFacts ==
  ASSUME StoreOK, NEW s \in Sessions, FlushFails(s) \/ Close(s)
  PROVE  /\ disk' = disk /\ lock' # s /\ Seen(s)' = disk
         /\ session'[s].pc \in {"idle", "broken"}
         /\ session'[s].pc = "idle" => Close(s)
<1>1. lock' # s /\ disk' = disk
  BY DiscardFrame DEF FlushFails, Close
<1>2. CASE FlushFails(s)
  <2>1. Goto(s, "broken")
    BY <1>2 DEF FlushFails
  <2>2. session'[s] = [pc |-> "broken", row |-> session[s].row]
    BY <2>1, GotoFrame
  <2> QED
    BY <1>1, <2>2 DEF Seen
<1>3. CASE Close(s)
  <2>1. session'[s] = [pc |-> "idle", row |-> NoRow]
    BY <1>3, SetFrame DEF Close
  <2> QED
    BY <1>1, <1>3, <2>1 DEF Seen
<1> QED
  BY <1>2, <1>3

LEMMA AddFacts ==
  ASSUME StoreOK, NEW s \in Sessions, Adds(s)
  PROVE  /\ session[s].pc = "idle" /\ UNCHANGED <<disk, lock, work>>
         /\ session'[s].pc = "ready" /\ Seen(s)' = Seen(s)
<1>1. Prepare(s, session'[s].row)
  BY DEF Adds, AddsRow
<1>2. session'[s] = [pc |-> "ready", row |-> session'[s].row]
  BY <1>1, SetFrame DEF Prepare
<1> QED
  BY <1>1, <1>2 DEF Prepare, Seen

LEMMA CommitFacts ==
  ASSUME StoreOK, NEW s \in Sessions, Commit(s)
  PROVE  /\ session[s].pc = "idle" /\ lock = s /\ lock' = None /\ session' = session
         /\ disk' = Seen(s) /\ Seen(s)' = disk'
BY ConstantsAssumption DEF Commit, Seen

(* The others see what they saw, or the database as it is now.             *)
LEMMA OthersSee ==
  ASSUME StoreOK, NEW s \in Sessions, Frame(s), NEW t \in Sessions \ {s}
  PROVE  /\ session'[t] = session[t]
         /\ lock = t => Seen(t)' = Seen(t) /\ disk' = disk
         /\ lock # t => Seen(t) = disk /\ Seen(t)' = disk'
BY DEF Frame, Seen

LEMMA ActsFrame ==
  ASSUME StoreOK, NEW s \in Sessions, ActsOn(s)
  PROVE  Frame(s) /\ StoreOK'
BY SessionStepFrame DEF ActsOn, Adds, Flush, Events, SessionStep

----------------------------------------------------------------------------
(* Rows come in order.                                                     *)
LEMMA FitsLater ==
  ASSUME NEW row, NEW later, NEW earlier, Len(earlier.rows) \in Nat, Len(later.rows) \in Nat,
         Len(earlier.rows) <= Len(later.rows), RowFits(row, earlier)
  PROVE  RowFits(row, later)
BY DEF RowFits

LEMMA InOrderStep ==
  ASSUME StoreOK, StoreOK', AllInOrder, NEW s \in Sessions, ActsOn(s)
  PROVE  AllInOrder'
<1>1. Frame(s)
  BY ActsFrame
<1>2. /\ Len(Seen(s).rows) \in Nat /\ InOrder(Seen(s)) /\ InOrder(disk)
      /\ session[s].pc = "ready" => RowFits(session[s].row, Seen(s))
  BY SeenKept, KeptTables, ConstantsAssumption DEF AllInOrder, SessionInOrder
<1>3. Len(disk.rows) \in Nat /\ Len(disk'.rows) \in Nat /\ Len(disk.rows) <= Len(disk'.rows)
  BY <1>1, KeptTables DEF StoreOK, Frame, DiskOnlyGrows, Extends
<1>4. InOrder(disk') /\ SessionInOrder(s)'
  <2>1. CASE Adds(s)
    BY <1>2, <2>1, AddFacts DEF SessionInOrder, Adds
  <2>2. CASE Insert(s)
    <3> DEFINE old == Seen(s).rows
               new == Seen(s)'.rows
    <3>1. /\ Len(new) = Len(old) + 1 /\ \A i \in 1 .. Len(old) : new[i] = old[i]
          /\ new[Len(old) + 1] = session[s].row
          /\ disk' = disk /\ session[s].pc = "ready" /\ session'[s].pc = "inserted"
      BY <2>2, InsertFacts
    <3>2. ASSUME NEW i \in 1 .. Len(new)
          PROVE  new[i].refs \subseteq 1 .. i - 1 /\ new[i].version \in 1 .. i
      <4>1. CASE i \in 1 .. Len(old)
        BY <1>2, <3>1, <4>1 DEF InOrder
      <4>2. CASE i = Len(old) + 1
        <5> HIDE DEF old, new
        <5>1. session[s].row.refs \subseteq 1 .. Len(old) /\ session[s].row.version \in 1 .. Len(old) + 1
          BY <1>2, <3>1 DEF RowFits, old
        <5> QED
          BY <1>2, <3>1, <4>2, <5>1 DEF old
      <4> QED
        BY <1>2, <3>1, <4>1, <4>2
    <3> QED
      BY <1>2, <3>1, <3>2 DEF SessionInOrder, InOrder
  <2>3. CASE AppendEvent(s)
    BY <1>2, <2>3, AppendFacts DEF SessionInOrder, InOrder
  <2>4. CASE AppendRaises(s)
    BY <1>2, <2>4, RaiseFacts DEF SessionInOrder, AfterException
  <2>5. CASE FlushFails(s) \/ Close(s)
    BY <1>2, <2>5, DiscardFacts DEF SessionInOrder
  <2>6. CASE Commit(s)
    BY <1>2, <2>6, CommitFacts DEF SessionInOrder
  <2> QED
    BY <2>1, <2>2, <2>3, <2>4, <2>5, <2>6 DEF ActsOn, Flush, Events
<1>5. ASSUME NEW t \in Sessions \ {s} PROVE SessionInOrder(t)'
  <2>1. SessionInOrder(t)
    BY DEF AllInOrder
  <2>2. /\ session'[t] = session[t]
        /\ lock = t => Seen(t)' = Seen(t)
        /\ lock # t => Seen(t) = disk /\ Seen(t)' = disk'
    BY <1>1, OthersSee
  <2> QED
    BY <1>3, <1>4, <2>1, <2>2, FitsLater DEF SessionInOrder
<1> QED
  BY <1>4, <1>5 DEF AllInOrder

LEMMA InOrderStart == ReportingInit => AllInOrder
<1> SUFFICES ASSUME ReportingInit PROVE AllInOrder
  OBVIOUS
<1>1. InOrder(disk)
  BY ReportingAssumption DEF ReportingInit
<1>2. ASSUME NEW s \in Sessions PROVE Seen(s) = disk /\ session[s].pc = "idle"
  BY ConstantsAssumption DEF ReportingInit, AuditInit, Seen
<1> QED
  BY <1>1, <1>2 DEF AllInOrder, SessionInOrder
----------------------------------------------------------------------------
(* The context.  What has been read of a claim stays true of a database    *)
(* that grows: the sources of its evidence are those it had, and a         *)
(* challenge that comes in is not among those that were read.              *)
Sourced(trace, db) ==
  /\ trace.evidence \subseteq 1 .. Len(db.rows)
  /\ \A o \in RestsOn(trace, db) : db.rows[o].refs \subseteq trace.artifacts

TraceOK(trace, claim, db) ==
  /\ claim \in RowsOf(db, {"claim"})
  /\ Sourced(trace, db)
  /\ trace.challenges \subseteq ChallengesOf(db, claim)
  /\ ShownHonestly(trace, claim, db)

TraceShape(trace) ==
  trace = [evidence |-> trace.evidence, todo |-> trace.todo, supports |-> trace.supports,
           artifacts |-> trace.artifacts, challenges |-> trace.challenges,
           status |-> trace.status]

ContextOK ==
  /\ context = [pc |-> context.pc, trace |-> context.trace, traces |-> context.traces]
  /\ TraceShape(context.trace)
  /\ IsTable(context.traces)
  /\ context.pc \in {"evidence", "artifacts", "challenges"} =>
       /\ Claim \in RowsOf(disk, {"claim"})
       /\ context.trace.evidence \subseteq 1 .. Len(disk.rows)
  /\ context.pc \in {"artifacts", "challenges"} => Sourced(context.trace, disk)
  /\ context.pc = "challenges" => context.trace.challenges \subseteq ChallengesOf(disk, Claim)
  /\ \A n \in 1 .. Len(context.traces) : TraceOK(context.traces[n], Asked[n], disk)

LEMMA RowsKept ==
  ASSUME NEW later, NEW earlier, Len(later.rows) \in Nat, Len(earlier.rows) \in Nat,
         Extends(later.rows, earlier.rows)
  PROVE  \A i \in 1 .. Len(earlier.rows) :
           /\ i \in 1 .. Len(later.rows) /\ later.rows[i] = earlier.rows[i]
           /\ \A types : i \in RowsOf(later, types) <=> i \in RowsOf(earlier, types)
BY DEF RowsOf, Extends

LEMMA TypesKept ==
  ASSUME NEW later, NEW earlier, Len(later.rows) \in Nat, Len(earlier.rows) \in Nat,
         Extends(later.rows, earlier.rows), NEW types, NEW i \in RowsOf(earlier, types)
  PROVE  i \in RowsOf(later, types) /\ later.rows[i] = earlier.rows[i]
BY DEF RowsOf, Extends

LEMMA SourcedKept ==
  ASSUME NEW later, NEW earlier, Len(later.rows) \in Nat, Len(earlier.rows) \in Nat,
         Extends(later.rows, earlier.rows), InOrder(earlier), NEW trace, Sourced(trace, earlier)
  PROVE  Sourced(trace, later)
<1> DEFINE N == Len(earlier.rows)
<1>1. \A i \in 1 .. N : later.rows[i] = earlier.rows[i]
  BY RowsKept
<1>2. ASSUME NEW o \in RestsOn(trace, later) PROVE o \in RestsOn(trace, earlier) /\ o \in 1 .. N
  <2>1. o \in RowsOf(later, {"observation"})
    BY DEF RestsOn
  <2>2. CASE o \in trace.evidence
    <3>1. o \in 1 .. N
      BY <2>2 DEF Sourced
    <3>2. o \in RowsOf(earlier, {"observation"})
      BY <1>1, <2>1, <3>1 DEF RowsOf
    <3> QED
      BY <2>2, <3>1, <3>2 DEF RestsOn
  <2>3. CASE o \notin trace.evidence
    <3>1. PICK m \in trace.evidence \cap RowsOf(later, {"derived_metric"}) : o \in later.rows[m].refs
      BY <2>3 DEF RestsOn
    <3>2. m \in 1 .. N
      BY DEF Sourced
    <3>3. m \in RowsOf(earlier, {"derived_metric"}) /\ o \in earlier.rows[m].refs
      BY <1>1, <3>1, <3>2 DEF RowsOf
    <3>4. o \in 1 .. N
      <4>1. earlier.rows[m].refs \subseteq 1 .. m - 1
        BY <3>2 DEF InOrder
      <4> QED
        BY <3>2, <3>3, <4>1
    <3>5. o \in RowsOf(earlier, {"observation"})
      BY <1>1, <2>1, <3>4 DEF RowsOf
    <3> QED
      BY <3>3, <3>4, <3>5 DEF RestsOn
  <2> QED
    BY <2>2, <2>3
<1>3. trace.evidence \subseteq 1 .. Len(later.rows)
  BY DEF Sourced, Extends
<1>4. ASSUME NEW o \in RestsOn(trace, later) PROVE later.rows[o].refs \subseteq trace.artifacts
  BY <1>1, <1>2 DEF Sourced
<1> QED
  BY <1>3, <1>4 DEF Sourced

LEMMA ChallengesKept ==
  ASSUME NEW later, NEW earlier, Len(later.rows) \in Nat, Len(earlier.rows) \in Nat,
         Extends(later.rows, earlier.rows), NEW claim
  PROVE  /\ ChallengesOf(earlier, claim) \subseteq ChallengesOf(later, claim)
         /\ ChallengesOf(earlier, claim) \subseteq 1 .. Len(earlier.rows)
<1>1. ASSUME NEW i \in ChallengesOf(earlier, claim) PROVE i \in ChallengesOf(later, claim)
  <2>1. i \in RowsOf(earlier, {"challenge"}) /\ claim \in earlier.rows[i].refs
    BY DEF ChallengesOf
  <2> QED
    BY <2>1, TypesKept DEF ChallengesOf
<1> QED
  BY <1>1 DEF ChallengesOf, RowsOf

LEMMA HonestKept ==
  ASSUME NEW later, NEW earlier, Len(later.rows) \in Nat, Len(earlier.rows) \in Nat,
         Extends(later.rows, earlier.rows), NEW trace, NEW claim \in RowsOf(earlier, {"claim"}),
         trace.challenges \subseteq ChallengesOf(earlier, claim),
         ShownHonestly(trace, claim, earlier)
  PROVE  ShownHonestly(trace, claim, later)
<1> DEFINE Open(db, i) == db.rows[i].says.status = "open"
           before == ChallengesOf(earlier, claim)
           now == ChallengesOf(later, claim)
<1>1. before \subseteq now /\ before \subseteq 1 .. Len(earlier.rows)
  BY ChallengesKept
<1>2. \A i \in 1 .. Len(earlier.rows) : later.rows[i] = earlier.rows[i]
  BY RowsKept
<1>3. ASSUME NEW found \in SUBSET (1 .. Len(earlier.rows))
      PROVE  LastVersions(later, found) = LastVersions(earlier, found)
  BY <1>2 DEF LastVersions
<1>4. ASSUME NEW i \in trace.challenges \cap LastVersions(later, now), Open(later, i)
      PROVE  trace.status = "contested"
  <2>1. i \in before /\ \A j \in now : later.rows[j].key = later.rows[i].key =>
                                         later.rows[j].version <= later.rows[i].version
    BY DEF LastVersions
  <2>2. i \in LastVersions(earlier, before) /\ Open(earlier, i)
    BY <1>1, <1>2, <1>4, <2>1 DEF LastVersions
  <2> QED
    BY <2>2 DEF ShownHonestly
<1>5. ASSUME trace.status = "contested"
      PROVE  \/ later.rows[claim].says.status = "contested"
             \/ \E i \in LastVersions(later, trace.challenges) : Open(later, i)
             \/ now # trace.challenges
  <2>1. CASE earlier.rows[claim].says.status = "contested"
    BY <1>2, <2>1 DEF RowsOf
  <2>2. CASE \E i \in LastVersions(earlier, trace.challenges) : Open(earlier, i)
    <3>1. PICK i \in LastVersions(earlier, trace.challenges) : Open(earlier, i)
      BY <2>2
    <3>2. LastVersions(later, trace.challenges) = LastVersions(earlier, trace.challenges)
      BY <1>1, <1>3
    <3>3. i \in 1 .. Len(earlier.rows)
      BY <1>1 DEF LastVersions
    <3> QED
      BY <1>2, <3>1, <3>2, <3>3
  <2>3. CASE before # trace.challenges
    BY <1>1, <2>3
  <2> QED
    BY <1>5, <2>1, <2>2, <2>3 DEF ShownHonestly
<1> QED
  BY <1>4, <1>5 DEF ShownHonestly

LEMMA TraceKept ==
  ASSUME NEW later, NEW earlier, Len(later.rows) \in Nat, Len(earlier.rows) \in Nat,
         Extends(later.rows, earlier.rows), InOrder(earlier), NEW trace, NEW claim,
         TraceOK(trace, claim, earlier)
  PROVE  TraceOK(trace, claim, later)
<1>1. claim \in RowsOf(later, {"claim"})
  BY TypesKept DEF TraceOK
<1>2. Sourced(trace, later)
  BY SourcedKept DEF TraceOK
<1>3. trace.challenges \subseteq ChallengesOf(later, claim)
  BY ChallengesKept DEF TraceOK
<1>4. ShownHonestly(trace, claim, later)
  BY HonestKept DEF TraceOK
<1> QED
  BY <1>1, <1>2, <1>3, <1>4 DEF TraceOK

LEMMA ContextKept ==
  ASSUME ContextOK, StoreOK, StoreOK', InOrder(disk), DiskOnlyGrows, UNCHANGED context
  PROVE  ContextOK'
<1>1. Len(disk.rows) \in Nat /\ Len(disk'.rows) \in Nat /\ Extends(disk'.rows, disk.rows)
  BY KeptTables DEF StoreOK, DiskOnlyGrows
<1>2. Claim' = Claim
  BY DEF Claim
<1>3. ASSUME NEW n \in 1 .. Len(context.traces)
      PROVE  TraceOK(context.traces[n], Asked[n], disk')
  BY <1>1, TraceKept DEF ContextOK
<1>4. ASSUME context.pc \in {"evidence", "artifacts", "challenges"}
      PROVE  /\ Claim \in RowsOf(disk', {"claim"})
             /\ context.trace.evidence \subseteq 1 .. Len(disk'.rows)
  <2>1. Claim \in RowsOf(disk, {"claim"}) /\ context.trace.evidence \subseteq 1 .. Len(disk.rows)
    BY <1>4 DEF ContextOK
  <2>2. Claim \in RowsOf(disk', {"claim"})
    BY <1>1, <2>1, TypesKept
  <2>3. 1 .. Len(disk.rows) \subseteq 1 .. Len(disk'.rows)
    BY <1>1 DEF Extends
  <2> QED
    BY <2>1, <2>2, <2>3
<1>5. context.pc \in {"artifacts", "challenges"} => Sourced(context.trace, disk')
  BY <1>1, SourcedKept DEF ContextOK
<1>6. context.pc = "challenges" => context.trace.challenges \subseteq ChallengesOf(disk', Claim)
  BY <1>1, ChallengesKept DEF ContextOK
<1> QED
  BY <1>2, <1>3, <1>4, <1>5, <1>6 DEF ContextOK

(* What the steps of the builder establish.                                *)
LEMMA EvidenceIsThere ==
  ASSUME InOrder(disk), Len(disk.rows) \in Nat, NEW claim
  PROVE  EvidenceOf(disk, claim) \subseteq 1 .. Len(disk.rows)
<1> SUFFICES ASSUME NEW e \in RowsOf(disk, {"evidence_edge"}), NEW i \in disk.rows[e].refs
             PROVE  i \in 1 .. Len(disk.rows)
  BY DEF EvidenceOf
<1>1. e \in 1 .. Len(disk.rows) /\ disk.rows[e].refs \subseteq 1 .. e - 1
  BY DEF RowsOf, InOrder
<1> QED
  BY <1>1

LEMMA ArtifactsAreSources ==
  ASSUME NEW trace, NEW db, trace.evidence \subseteq 1 .. Len(db.rows),
         trace.artifacts = ArtifactsUnder(db, trace.evidence)
  PROVE  Sourced(trace, db)
<1> DEFINE inputs == UNION {db.rows[m].refs : m \in OfType(db, trace.evidence, "derived_metric")}
           observations == OfType(db, trace.evidence \cup inputs, "observation")
<1>1. ASSUME NEW o \in RestsOn(trace, db) PROVE o \in observations
  BY DEF RestsOn, OfType
<1>2. ASSUME NEW o \in observations PROVE db.rows[o].refs \subseteq trace.artifacts
  BY DEF ArtifactsUnder
<1> QED
  BY <1>1, <1>2 DEF Sourced

LEMMA StatusIsHonest ==
  ASSUME NEW trace, NEW claim, NEW db, trace.challenges \subseteq ChallengesOf(db, claim),
         trace.status = EffectiveStatus(db, claim)
  PROVE  ShownHonestly(trace, claim, db)
<1> DEFINE Open(i) == db.rows[i].says.status = "open"
           all == ChallengesOf(db, claim)
<1>1. CASE \E i \in LastVersions(db, all) : Open(i)
  <2>1. trace.status = "contested"
    BY <1>1 DEF EffectiveStatus
  <2> QED
    BY <1>1, <2>1 DEF ShownHonestly
<1>2. CASE ~ \E i \in LastVersions(db, all) : Open(i)
  <2>1. trace.status = db.rows[claim].says.status
    BY <1>2 DEF EffectiveStatus
  <2> QED
    BY <1>2, <2>1 DEF ShownHonestly
<1> QED
  BY <1>1, <1>2
LEMMA ContextStart == ReportingInit => ContextOK
<1> SUFFICES ASSUME ReportingInit PROVE ContextOK
  OBVIOUS
<1>1. context = ContextOff \/ context = ContextNew
  BY DEF ReportingInit
<1>2. /\ context = [pc |-> context.pc, trace |-> Untraced, traces |-> <<>>]
      /\ context.pc \in {"off", "new"}
  BY <1>1 DEF ContextOff, ContextNew
<1>3. context.trace = Untraced /\ context.traces = <<>>
  BY <1>2
<1>4. IsTable(<<>>) /\ TraceShape(Untraced)
  BY DEF IsTable, TraceShape, Untraced
<1> QED
  BY <1>2, <1>3, <1>4 DEF ContextOK

LEMMA TraceToIs ==
  ASSUME ContextOK, NEW pc, NEW trace, TraceTo(pc, trace)
  PROVE  /\ UNCHANGED auditVars
         /\ context' = [pc |-> pc, trace |-> trace, traces |-> context.traces]
         /\ context'.pc = pc /\ context'.trace = trace /\ context'.traces = context.traces
         /\ Claim' = Claim
<1>1. context' = [pc |-> pc, trace |-> trace, traces |-> context.traces] /\ UNCHANGED auditVars
  BY DEF TraceTo, ContextOK
<1>2. context'.pc = pc /\ context'.trace = trace /\ context'.traces = context.traces
  BY <1>1
<1> QED
  BY <1>1, <1>2 DEF Claim

LEMMA ContextActs ==
  ASSUME ContextOK, StoreOK, InOrder(disk), ContextStep
  PROVE  ContextOK'
<1>1. Len(disk.rows) \in Nat
  BY KeptTables DEF StoreOK
<1>2. disk' = disk
  BY DEF ContextStep, ContextMissesClaim, ContextReadsEdges, ContextReadsSupport,
         ContextGetsArtifacts, ContextListsChallenges, ContextReadsStatus, TraceTo, auditVars
<1> DEFINE old == context.trace
           new == context'.trace
<1>3. TraceShape(old)
  BY DEF ContextOK
<1>4. ASSUME NEW pc \in {"evidence", "artifacts", "challenges"}, NEW trace,
             TraceTo(pc, trace), TraceShape(trace),
             Claim \in RowsOf(disk, {"claim"}), trace.evidence \subseteq 1 .. Len(disk.rows),
             pc \in {"artifacts", "challenges"} => Sourced(trace, disk),
             pc = "challenges" => trace.challenges \subseteq ChallengesOf(disk, Claim)
      PROVE  ContextOK'
  <2>1. /\ context' = [pc |-> pc, trace |-> trace, traces |-> context.traces]
        /\ context'.pc = pc /\ context'.trace = trace /\ context'.traces = context.traces
        /\ Claim' = Claim
    BY <1>4, TraceToIs
  <2>2. IsTable(context.traces)
    BY DEF ContextOK
  <2>3. \A n \in 1 .. Len(context.traces) : TraceOK(context.traces[n], Asked[n], disk)
    BY DEF ContextOK
  <2> QED
    BY <1>2, <1>4, <2>1, <2>2, <2>3 DEF ContextOK
<1>5. CASE ContextMissesClaim
  <2>1. context' = [pc |-> "failed", trace |-> Untraced, traces |-> <<>>]
    BY <1>5 DEF ContextMissesClaim, ContextOff
  <2>2. context'.pc = "failed" /\ context'.trace = Untraced /\ context'.traces = <<>>
    BY <2>1
  <2>3. IsTable(<<>>) /\ TraceShape(Untraced)
    BY DEF IsTable, TraceShape, Untraced
  <2> QED
    BY <2>1, <2>2, <2>3 DEF ContextOK
<1>6. CASE ContextReadsEdges
  <2> DEFINE evidence == EvidenceOf(disk, Claim)
             todo == OfType(disk, evidence, "claim")
             trace == [Untraced EXCEPT !.evidence = evidence, !.todo = todo]
  <2>1. TraceTo("evidence", trace) /\ Claim \in RowsOf(disk, {"claim"})
    BY <1>6 DEF ContextReadsEdges
  <2>2. evidence \subseteq 1 .. Len(disk.rows)
    BY <1>1, EvidenceIsThere
  <2> HIDE DEF evidence, todo
  <2>3. TraceShape(trace) /\ trace.evidence = evidence
    <3> DEFINE half == [Untraced EXCEPT !.evidence = evidence]
    <3>1. TraceShape(half) /\ half.evidence = evidence
      BY DEF TraceShape, Untraced
    <3>2. trace = [half EXCEPT !.todo = todo]
      OBVIOUS
    <3> HIDE DEF half, trace
    <3> QED
      BY <3>1, <3>2 DEF TraceShape
  <2> HIDE DEF trace
  <2> QED
    BY <1>4, <2>1, <2>2, <2>3
<1>7. CASE ContextReadsSupport
  <2>1. PICK c \in old.todo :
          TraceTo("evidence", [old EXCEPT
            !.todo = @ \ {c}, !.supports = @ \cup {<<c, EffectiveStatus(disk, c)>>}])
    BY <1>7 DEF ContextReadsSupport
  <2> DEFINE todo == old.todo \ {c}
             supports == old.supports \cup {<<c, EffectiveStatus(disk, c)>>}
             trace == [old EXCEPT !.todo = todo, !.supports = supports]
  <2> HIDE DEF todo, supports
  <2>2. TraceShape(trace) /\ trace.evidence = old.evidence
    <3> DEFINE half == [old EXCEPT !.todo = todo]
    <3>1. TraceShape(half) /\ half.evidence = old.evidence
      BY <1>3 DEF TraceShape
    <3>2. trace = [half EXCEPT !.supports = supports]
      OBVIOUS
    <3> HIDE DEF half, trace
    <3> QED
      BY <3>1, <3>2 DEF TraceShape
  <2>3. Claim \in RowsOf(disk, {"claim"}) /\ old.evidence \subseteq 1 .. Len(disk.rows)
    BY <1>7 DEF ContextReadsSupport, ContextOK
  <2> HIDE DEF trace
  <2> QED
    BY <1>4, <2>1, <2>2, <2>3 DEF trace, todo, supports
<1>8. CASE ContextGetsArtifacts
  <2> DEFINE artifacts == ArtifactsUnder(disk, old.evidence)
             trace == [old EXCEPT !.artifacts = artifacts]
  <2>1. TraceTo("artifacts", trace)
    BY <1>8 DEF ContextGetsArtifacts
  <2>2. TraceShape(trace) /\ trace.evidence = old.evidence /\ trace.artifacts = artifacts
    BY <1>3 DEF TraceShape
  <2>3. Claim \in RowsOf(disk, {"claim"}) /\ old.evidence \subseteq 1 .. Len(disk.rows)
    BY <1>8 DEF ContextGetsArtifacts, ContextOK
  <2> HIDE DEF trace
  <2>4. Sourced(trace, disk)
    BY <2>2, <2>3, ArtifactsAreSources
  <2> QED
    BY <1>4, <2>1, <2>2, <2>3, <2>4
<1>9. CASE ContextListsChallenges
  <2> DEFINE challenges == ChallengesOf(disk, Claim)
             trace == [old EXCEPT !.challenges = challenges]
  <2>1. TraceTo("challenges", trace) /\ context.pc = "artifacts"
    BY <1>9 DEF ContextListsChallenges
  <2>2. /\ TraceShape(trace) /\ trace.evidence = old.evidence /\ trace.artifacts = old.artifacts
        /\ trace.challenges = challenges
    BY <1>3 DEF TraceShape
  <2>3. Claim \in RowsOf(disk, {"claim"}) /\ old.evidence \subseteq 1 .. Len(disk.rows)
    BY <2>1 DEF ContextOK
  <2>4. Sourced(old, disk)
    BY <2>1 DEF ContextOK
  <2> HIDE DEF trace
  <2>5. Sourced(trace, disk)
    BY <2>2, <2>4 DEF Sourced, RestsOn
  <2> QED
    BY <1>4, <2>1, <2>2, <2>3, <2>5
<1>10. CASE ContextReadsStatus
  <2> DEFINE status == EffectiveStatus(disk, Claim)
             trace == [old EXCEPT !.status = status]
             later == Append(context.traces, trace)
             N == Len(context.traces)
  <2>1. /\ context.pc = "challenges"
        /\ context' = [context EXCEPT !.pc = "next", !.trace = Untraced, !.traces = later]
    BY <1>10 DEF ContextReadsStatus
  <2>2. /\ trace.evidence = old.evidence /\ trace.artifacts = old.artifacts
        /\ trace.challenges = old.challenges /\ trace.status = status
    BY <1>3 DEF TraceShape
  <2>3. /\ Claim \in RowsOf(disk, {"claim"}) /\ Sourced(old, disk)
        /\ old.challenges \subseteq ChallengesOf(disk, Claim)
    BY <2>1 DEF ContextOK
  <2> HIDE DEF trace, status
  <2>4. Sourced(trace, disk)
    BY <2>2, <2>3 DEF Sourced, RestsOn
  <2>5. ShownHonestly(trace, Claim, disk)
    BY <2>2, <2>3, StatusIsHonest DEF status
  <2>6. TraceOK(trace, Asked[N + 1], disk)
    BY <2>2, <2>3, <2>4, <2>5 DEF TraceOK, Claim
  <2>7. IsTable(context.traces)
    BY DEF ContextOK
  <2>8. /\ IsTable(later) /\ Len(later) = N + 1 /\ N \in Nat
        /\ \A n \in 1 .. N : later[n] = context.traces[n]
        /\ later[N + 1] = trace
    BY <2>7, TableAppends DEF IsTable
  <2> HIDE DEF later
  <2>9. context' = [pc |-> "next", trace |-> Untraced, traces |-> later]
    BY <2>1 DEF ContextOK
  <2>10. context'.pc = "next" /\ context'.trace = Untraced /\ context'.traces = later
    BY <2>9
  <2>11. TraceShape(Untraced)
    BY DEF TraceShape, Untraced
  <2>12. ASSUME NEW n \in 1 .. Len(later) PROVE TraceOK(later[n], Asked[n], disk)
    <3>1. CASE n \in 1 .. N
      BY <2>8, <3>1 DEF ContextOK
    <3>2. CASE n = N + 1
      BY <2>6, <2>8, <3>2
    <3> QED
      BY <2>8, <3>1, <3>2
  <2> QED
    BY <1>2, <2>8, <2>9, <2>10, <2>11, <2>12 DEF ContextOK
<1> QED
  BY <1>5, <1>6, <1>7, <1>8, <1>9, <1>10 DEF ContextStep

(* What a report is written from, and all that it is read from.            *)
ReportingOK == AuditOK /\ Behind /\ AllInOrder

LEMMA ReportingStart == ReportingInit => ReportingOK
BY BehindStart, AuditStart, InOrderStart DEF ReportingInit, ReportingOK

LEMMA ReportingStep ==
  ASSUME ReportingOK, [ReportingNext]_reportingVars
  PROVE  /\ ReportingOK' /\ DiskOnlyGrows
         /\ UNCHANGED vars \/ \E s \in Sessions : ActsOn(s)
<1>1. [AuditNext]_auditVars /\ Behind'
  BY ReportingKeepsToAudit DEF ReportingOK
<1>2. AuditOK' /\ DiskOnlyGrows
  BY <1>1, AuditOKStep, DiskGrowsInStep DEF ReportingOK
<1>3. UNCHANGED vars \/ \E s \in Sessions : ActsOn(s)
  BY SessionActs DEF ReportingOK
<1>4. UNCHANGED vars => AllInOrder'
  BY DEF ReportingOK, vars, AllInOrder, SessionInOrder, Seen
<1>5. (\E s \in Sessions : ActsOn(s)) => AllInOrder'
  BY <1>2, InOrderStep DEF ReportingOK, AuditOK
<1> QED
  BY <1>1, <1>2, <1>3, <1>4, <1>5 DEF ReportingOK

LEMMA ContextStays ==
  ASSUME ReportingOK, ContextOK, [ReportingNext]_reportingVars
  PROVE  ContextOK'
<1>1. ReportingOK' /\ DiskOnlyGrows
  BY ReportingStep
<1>2. StoreOK /\ StoreOK' /\ InOrder(disk)
  BY <1>1 DEF ReportingOK, AuditOK, AllInOrder
<1>3. ContextStep \/ UNCHANGED context
  BY DEF ReportingNext, reportingVars, CommandAudits, commandVars, Flushes,
         HarvesterObserves, AnalystChallenges, AnalystRevises, OthersEnd, Writes
<1> QED
  BY <1>1, <1>2, <1>3, ContextActs, ContextKept

LEMMA ContextInvariance == ReportingSpec => []ContextOK
<1>1. ReportingInit => ReportingOK /\ ContextOK
  BY ReportingStart, ContextStart
<1>2. ReportingOK /\ ContextOK /\ [ReportingNext]_reportingVars => ReportingOK' /\ ContextOK'
  BY ReportingStep, ContextStays
<1> QED
  BY <1>1, <1>2, PTL DEF ReportingSpec

(* ReportContextBuilder.build and trace_claim: the status of a claim, read *)
(* after its challenges and in a SELECT of its own, agrees with those that *)
(* are shown beside it, whatever is challenged or resolved meanwhile and   *)
(* afterwards.                                                             *)
THEOREM ContextsAreHonest == ReportingSpec => []ContextHonest
<1>1. ContextOK => ContextHonest
  BY DEF ContextOK, TraceOK, ContextHonest
<1> QED
  BY <1>1, ContextInvariance, PTL

(* source_artifacts: a claim in the context comes with the artifacts of    *)
(* every observation that its evidence is or was computed from, and no     *)
(* commit after the SELECTs adds one to them.                              *)
THEOREM SourcesAreTraced == ReportingSpec => []SourcesTraced
<1>1. ContextOK => SourcesTraced
  BY DEF ContextOK, TraceOK, Sourced, SourcesTraced
<1> QED
  BY <1>1, ContextInvariance, PTL

----------------------------------------------------------------------------
(* The report.  It is the report that adds metrics, and one that has lost  *)
(* its event stops it.                                                     *)
OfReport(row, s) == row.type = "derived_metric" => s = Generator

InFlight(s, i) == i = Len(Seen(s).rows) /\ session[s].pc \in {"inserted", "raised"}

IsMetric(db, i) == db.rows[i].type = "derived_metric"

(* What a session has written: no metric lacks its event but one whose     *)
(* flush is not over.                                                      *)
WrittenOK(s) ==
  \A i \in Len(disk.rows) + 1 .. Len(Seen(s).rows) :
    /\ OfReport(Seen(s).rows[i], s)
    /\ IsMetric(Seen(s), i) => Ledgered(Seen(s), i) \/ InFlight(s, i)

WaitingOK(s) == session[s].pc = "ready" => OfReport(session[s].row, s)

(* From the event after that one on, each is of a later row than all       *)
(* events before it.                                                       *)
OrderedFrom(events, from) ==
  \A k \in from + 1 .. Len(events) : \A n \in 1 .. k - 1 :
    events[n].body.entity < events[k].body.entity

AllBefore(events, id) == \A n \in 1 .. Len(events) : events[n].body.entity < id

EventsOK(s) ==
  /\ OrderedFrom(Seen(s).events, Len(disk.events))
  /\ session[s].pc = "inserted" => AllBefore(Seen(s).events, Len(Seen(s).rows))

WritersOK == \A s \in Sessions : WrittenOK(s) /\ WaitingOK(s) /\ EventsOK(s)

(* And what is committed while the report audits and runs.                 *)
CommittedOK(db, i) == IsMetric(db, i) => Ledgered(db, i)

SinceOK ==
  LET since == audit[Generator].since
  IN  /\ Len(since.rows) \in Nat /\ Len(since.events) \in Nat
      /\ Extends(disk.rows, since.rows)
      /\ \A n \in 1 .. Len(since.events) :
           /\ n \in 1 .. Len(disk.events) /\ disk.events[n].body = since.events[n].body
           /\ since.events[n].body.entity \in 1 .. Len(since.rows)
      /\ \A i \in Len(since.rows) + 1 .. Len(disk.rows) : CommittedOK(disk, i)
      /\ OrderedFrom(disk.events, Len(since.events))

Audited == audit[Generator].pc \in {"reading", "valid"}

(* The report writes in its sections only, of what it has queried before.  *)
ReportOK ==
  /\ report.monthly \cup report.quarterly \subseteq RowsOf(disk, {"observation"})
  /\ report.pc = "reported" => audit[Generator].pc = "valid"
  /\ lock = Generator \/ session[Generator].pc # "idle" => report.pc = "sections"

LedgeredOK == WritersOK /\ (Audited => SinceOK) /\ ReportOK

----------------------------------------------------------------------------
LEMMA LedgeredLater ==
  ASSUME NEW later, NEW earlier, Len(later.rows) \in Nat, Len(earlier.rows) \in Nat,
         Len(later.events) \in Nat, Len(earlier.events) \in Nat,
         Extends(later.rows, earlier.rows), Extends(later.events, earlier.events),
         NEW i \in 1 .. Len(earlier.rows), Ledgered(earlier, i)
  PROVE  Ledgered(later, i)
<1>1. PICK n \in 1 .. Len(earlier.events) : earlier.events[n].body = Body(earlier.rows[i], i)
  BY DEF Ledgered
<1>2. /\ n \in 1 .. Len(later.events) /\ later.events[n] = earlier.events[n]
      /\ later.rows[i] = earlier.rows[i]
  BY DEF Extends
<1> QED
  BY <1>1, <1>2 DEF Ledgered

(* The metric of a section.                                                *)
LEMMA InputsAreNumbers ==
  Inputs \subseteq WithNumber(OfSection)
<1>1. Basis \subseteq WithNumber(OfSection)
  BY DEF Basis, LastOf, WithNumber
<1>2. \A i : Priors(i) \subseteq WithNumber(OfSection)
  BY DEF Priors
<1> QED
  BY <1>1, <1>2 DEF Inputs

LEMMA AddedWaits ==
  ASSUME StoreOK, NEW s \in Sessions, Adds(s)
  PROVE  WaitingOK(s)'
<1>1. session'[s].row.type = "derived_metric" => s = Generator
  BY DEF Adds
<1> QED
  BY <1>1 DEF WaitingOK, OfReport

LEMMA EventsLater ==
  ASSUME NEW later, NEW earlier, later.rows = earlier.rows, Len(earlier.events) \in Nat,
         Len(later.events) = Len(earlier.events) + 1,
         \A n \in 1 .. Len(earlier.events) : later.events[n] = earlier.events[n],
         NEW i, Ledgered(earlier, i)
  PROVE  Ledgered(later, i)
BY DEF Ledgered

LEMMA InsertWrites ==
  ASSUME StoreOK, StoreOK', NEW s \in Sessions, WrittenOK(s), WaitingOK(s), Insert(s)
  PROVE  WrittenOK(s)'
<1> DEFINE old == Seen(s)
           new == Seen(s)'
           N == Len(old.rows)
           row == session[s].row
<1>1. /\ session[s].pc = "ready" /\ disk' = disk /\ session'[s].pc = "inserted"
      /\ Len(new.rows) = N + 1 /\ \A i \in 1 .. N : new.rows[i] = old.rows[i]
      /\ new.rows[N + 1] = row /\ new.events = old.events
  BY InsertFacts
<1>2. N \in Nat /\ Len(disk.rows) \in Nat
  BY SeenKept, KeptTables, ConstantsAssumption DEF StoreOK
<1>3. ASSUME NEW i \in Len(disk.rows) + 1 .. N
      PROVE  OfReport(new.rows[i], s) /\ (IsMetric(new, i) => Ledgered(new, i))
  <2>1. new.rows[i] = old.rows[i]
    BY <1>1, <1>2
  <2>2. ~InFlight(s, i)
    BY <1>1 DEF InFlight
  <2>3. OfReport(old.rows[i], s) /\ (IsMetric(old, i) => Ledgered(old, i))
    BY <2>2 DEF WrittenOK
  <2>4. Ledgered(old, i) => Ledgered(new, i)
    BY <1>1, <2>1 DEF Ledgered
  <2> QED
    BY <2>1, <2>3, <2>4 DEF IsMetric
<1>4. OfReport(row, s)
  BY <1>1 DEF WaitingOK
<1>5. ASSUME NEW i \in Len(disk.rows) + 1 .. N + 1
      PROVE  /\ OfReport(new.rows[i], s)
             /\ IsMetric(new, i) => Ledgered(new, i) \/ InFlight(s, i)'
  <2>1. CASE i = N + 1
    BY <1>1, <1>4, <2>1 DEF InFlight
  <2>2. CASE i # N + 1
    <3>1. i \in Len(disk.rows) + 1 .. N
      BY <1>2, <2>2
    <3> QED
      BY <1>3, <3>1
  <2> QED
    BY <2>1, <2>2
<1> QED
  BY <1>1, <1>5 DEF WrittenOK

(* No event is of a row that was not there.                                *)
LEMMA InsertOrders ==
  ASSUME StoreOK, NEW s \in Sessions, EventsOK(s), Insert(s)
  PROVE  EventsOK(s)'
<1> DEFINE old == Seen(s)
<1>1. /\ disk' = disk /\ Len(Seen(s)'.rows) = Len(old.rows) + 1 /\ Seen(s)'.events = old.events
  BY InsertFacts
<1>2. Len(old.rows) \in Nat /\ \A n \in 1 .. Len(old.events) : old.events[n].body.entity \in 1 .. Len(old.rows)
  BY SeenKept, KeptTables, ConstantsAssumption DEF StoreOK, WellKept
<1> HIDE DEF old
<1>3. AllBefore(old.events, Len(old.rows) + 1)
  BY <1>2 DEF AllBefore
<1>4. OrderedFrom(old.events, Len(disk.events))
  BY DEF EventsOK, old
<1> QED
  BY <1>1, <1>3, <1>4 DEF EventsOK, old

LEMMA AppendWrites ==
  ASSUME StoreOK, StoreOK', NEW s \in Sessions, WrittenOK(s), AppendEvent(s)
  PROVE  WrittenOK(s)'
<1> DEFINE old == Seen(s)
           new == Seen(s)'
           N == Len(old.rows)
<1>1. /\ disk' = disk /\ new.rows = old.rows /\ Len(new.events) = Len(old.events) + 1
      /\ \A n \in 1 .. Len(old.events) : new.events[n] = old.events[n]
      /\ new.events[Len(old.events) + 1].body = Body(old.rows[N], N)
  BY AppendFacts
<1>2. N \in Nat /\ Len(disk.rows) \in Nat /\ Len(old.events) \in Nat
  BY SeenKept, KeptTables, ConstantsAssumption DEF StoreOK
<1>3. Ledgered(new, N)
  <2>1. Len(old.events) + 1 \in 1 .. Len(new.events)
    BY <1>1, <1>2
  <2> QED
    BY <1>1, <2>1 DEF Ledgered
<1>4. ASSUME NEW i \in Len(disk.rows) + 1 .. N
      PROVE  OfReport(new.rows[i], s) /\ (IsMetric(new, i) => Ledgered(new, i))
  <2>1. OfReport(old.rows[i], s) /\ (IsMetric(old, i) => Ledgered(old, i) \/ InFlight(s, i))
    BY DEF WrittenOK
  <2>2. Ledgered(old, i) => Ledgered(new, i)
    BY <1>1, <1>2, EventsLater
  <2>3. InFlight(s, i) => Ledgered(new, i)
    BY <1>3 DEF InFlight
  <2> QED
    BY <1>1, <2>1, <2>2, <2>3 DEF IsMetric
<1> QED
  BY <1>1, <1>4 DEF WrittenOK

(* The new event is of the last row, and all before it are not.            *)
LEMMA AppendOrders ==
  ASSUME StoreOK, StoreOK', NEW s \in Sessions, EventsOK(s), AppendEvent(s)
  PROVE  EventsOK(s)'
<1> DEFINE old == Seen(s).events
           new == Seen(s)'.events
           N == Len(Seen(s).rows)
           M == Len(old)
<1>1. /\ session[s].pc = "inserted" /\ session'[s].pc = "idle" /\ disk' = disk
      /\ Len(new) = M + 1 /\ \A n \in 1 .. M : new[n] = old[n]
      /\ new[M + 1].body = Body(Seen(s).rows[N], N)
  BY AppendFacts
<1>2. M \in Nat /\ Len(disk.events) \in Nat
  BY SeenKept, KeptTables, ConstantsAssumption DEF StoreOK
<1>3. new[M + 1].body.entity = N
  BY <1>1 DEF Body
<1>4. AllBefore(old, N) /\ OrderedFrom(old, Len(disk.events))
  BY <1>1 DEF EventsOK
<1> HIDE DEF old, new, N, M
<1>5. ASSUME NEW k \in Len(disk.events) + 1 .. M + 1, NEW n \in 1 .. k - 1
      PROVE  new[n].body.entity < new[k].body.entity
  <2>1. n \in 1 .. M /\ new[n] = old[n]
    BY <1>1, <1>2
  <2>2. CASE k = M + 1
    BY <1>3, <1>4, <2>1, <2>2 DEF AllBefore, M
  <2>3. CASE k # M + 1
    <3>1. k \in Len(disk.events) + 1 .. M /\ k \in 1 .. M
      BY <1>2, <2>3
    <3>2. new[k] = old[k]
      BY <1>1, <3>1
    <3>3. old[n].body.entity < old[k].body.entity
      BY <1>4, <3>1 DEF OrderedFrom, M
    <3> QED
      BY <2>1, <3>2, <3>3
  <2> QED
    BY <2>2, <2>3
<1>6. OrderedFrom(new, Len(disk.events))
  BY <1>1, <1>5 DEF OrderedFrom
<1> QED
  BY <1>1, <1>6 DEF EventsOK, new

LEMMA RaiseWrites ==
  ASSUME StoreOK, StoreOK', NEW s \in Sessions, WrittenOK(s), EventsOK(s), AppendRaises(s)
  PROVE  WrittenOK(s)' /\ EventsOK(s)'
<1> USE InsightsAssumption
<1>1. /\ disk' = disk /\ Seen(s)' = Seen(s) /\ session[s].pc = "inserted"
      /\ session'[s].pc = AfterException(s)
  BY RaiseFacts
<1>2. ASSUME NEW i, InFlight(s, i), OfReport(Seen(s).rows[i], s), IsMetric(Seen(s), i)
      PROVE  InFlight(s, i)'
  BY <1>1, <1>2 DEF InFlight, AfterException, OfReport, IsMetric
<1>3. WrittenOK(s)'
  BY <1>1, <1>2 DEF WrittenOK
<1>4. session'[s].pc # "inserted"
  BY <1>1 DEF AfterException
<1> QED
  BY <1>1, <1>3, <1>4 DEF EventsOK

LEMMA WritersStep ==
  ASSUME StoreOK, StoreOK', WritersOK, NEW s \in Sessions, ActsOn(s)
  PROVE  WritersOK'
<1>1. Frame(s) /\ WrittenOK(s) /\ WaitingOK(s) /\ EventsOK(s)
  BY ActsFrame DEF WritersOK
<1>2. Len(disk'.rows) \in Nat /\ Len(disk'.events) \in Nat
  BY KeptTables DEF StoreOK
<1> DEFINE OK(t) == WrittenOK(t) /\ WaitingOK(t) /\ EventsOK(t)
<1>3. ASSUME NEW t \in Sessions, Seen(t)' = disk', session'[t].pc # "inserted"
      PROVE  WrittenOK(t)' /\ EventsOK(t)'
  BY <1>2, <1>3 DEF WrittenOK, EventsOK, OrderedFrom
<1>4. WrittenOK(s)' /\ WaitingOK(s)' /\ EventsOK(s)'
  <2>1. CASE Adds(s)
    <3>1. /\ WaitingOK(s)' /\ Seen(s)' = Seen(s) /\ disk' = disk
          /\ session[s].pc = "idle" /\ session'[s].pc = "ready"
      BY <2>1, AddedWaits, AddFacts
    <3> QED
      BY <1>1, <3>1 DEF WrittenOK, EventsOK, InFlight
  <2>2. CASE Insert(s)
    BY <1>1, <2>2, InsertWrites, InsertOrders, InsertFacts DEF WaitingOK
  <2>3. CASE AppendEvent(s)
    BY <1>1, <2>3, AppendWrites, AppendOrders, AppendFacts DEF WaitingOK
  <2>4. CASE AppendRaises(s)
    BY <1>1, <2>4, RaiseWrites, RaiseFacts DEF WaitingOK, AfterException
  <2>5. CASE FlushFails(s) \/ Close(s)
    BY <1>3, <2>5, DiscardFacts DEF WaitingOK
  <2>6. CASE Commit(s)
    BY <1>3, <2>6, CommitFacts DEF WaitingOK
  <2> QED
    BY <2>1, <2>2, <2>3, <2>4, <2>5, <2>6 DEF ActsOn, Flush, Events
<1>5. ASSUME NEW t \in Sessions \ {s}
      PROVE  WrittenOK(t)' /\ WaitingOK(t)' /\ EventsOK(t)'
  <2>1. WrittenOK(t) /\ WaitingOK(t) /\ EventsOK(t)
    BY DEF WritersOK
  <2>2. /\ session'[t] = session[t]
        /\ lock = t => Seen(t)' = Seen(t) /\ disk' = disk
        /\ lock # t => Seen(t) = disk /\ Seen(t)' = disk'
    BY <1>1, OthersSee
  <2>3. WaitingOK(t)'
    BY <2>1, <2>2 DEF WaitingOK
  <2>4. CASE lock = t
    BY <2>1, <2>2, <2>3, <2>4 DEF WrittenOK, EventsOK, InFlight
  <2>5. CASE lock # t
    <3>1. session'[t].pc # "inserted"
      BY <2>2, <2>5 DEF StoreOK, SessionOK
    <3> QED
      BY <1>3, <2>2, <2>3, <2>5, <3>1
  <2> QED
    BY <2>4, <2>5
<1> QED
  BY <1>4, <1>5 DEF WritersOK

(* A metric that is committed has its event, and events are committed in   *)
(* the order of their rows.                                                *)
LEMMA CommitsOK ==
  ASSUME StoreOK, StoreOK', WritersOK, NEW s \in Sessions, ActsOn(s), disk' # disk
  PROVE  /\ \A i \in Len(disk.rows) + 1 .. Len(disk'.rows) : CommittedOK(disk', i)
         /\ OrderedFrom(disk'.events, Len(disk.events))
<1>1. Commit(s)
  BY AddFacts, InsertFacts, AppendFacts, RaiseFacts, DiscardFacts DEF ActsOn, Flush, Events
<1>2. disk' = Seen(s) /\ session[s].pc = "idle"
  BY <1>1, CommitFacts
<1>3. WrittenOK(s) /\ EventsOK(s)
  BY DEF WritersOK
<1>4. ASSUME NEW i \in Len(disk.rows) + 1 .. Len(disk'.rows) PROVE CommittedOK(disk', i)
  BY <1>2, <1>3 DEF WrittenOK, InFlight, CommittedOK
<1> QED
  BY <1>2, <1>3, <1>4 DEF EventsOK

(* Orders of older events are kept.                                        *)
LEMMA OrderGrows ==
  ASSUME NEW later, NEW earlier, Len(later) \in Nat, Len(earlier) \in Nat,
         Extends(later, earlier), NEW from \in Nat, OrderedFrom(earlier, from),
         OrderedFrom(later, Len(earlier))
  PROVE  OrderedFrom(later, from)
<1> SUFFICES ASSUME NEW k \in from + 1 .. Len(later), NEW n \in 1 .. k - 1
             PROVE  later[n].body.entity < later[k].body.entity
  BY DEF OrderedFrom
<1>1. CASE k \in 1 .. Len(earlier)
  <2>1. /\ k \in from + 1 .. Len(earlier) /\ n \in 1 .. Len(earlier)
        /\ later[k] = earlier[k] /\ later[n] = earlier[n]
    BY <1>1 DEF Extends
  <2>2. earlier[n].body.entity < earlier[k].body.entity
    BY <2>1 DEF OrderedFrom
  <2> QED
    BY <2>1, <2>2
<1>2. CASE k \notin 1 .. Len(earlier)
  <2>1. k \in Len(earlier) + 1 .. Len(later)
    BY <1>2
  <2> QED
    BY <2>1 DEF OrderedFrom
<1> QED
  BY <1>1, <1>2

LEMMA SinceKept ==
  ASSUME StoreOK, StoreOK', DiskOnlyGrows, WritersOK, SinceOK,
         UNCHANGED vars \/ \E s \in Sessions : ActsOn(s),
         audit'[Generator].since = audit[Generator].since
  PROVE  SinceOK'
<1> DEFINE since == audit[Generator].since
<1>1. /\ Len(disk.rows) \in Nat /\ Len(disk'.rows) \in Nat
      /\ Len(disk.events) \in Nat /\ Len(disk'.events) \in Nat
      /\ Extends(disk'.rows, disk.rows) /\ Extends(disk'.events, disk.events)
  BY KeptTables DEF StoreOK, DiskOnlyGrows
<1>2. /\ Len(since.rows) \in Nat /\ Len(since.events) \in Nat /\ Extends(disk.rows, since.rows)
      /\ \A n \in 1 .. Len(since.events) :
           /\ n \in 1 .. Len(disk.events) /\ disk.events[n].body = since.events[n].body
           /\ since.events[n].body.entity \in 1 .. Len(since.rows)
      /\ \A i \in Len(since.rows) + 1 .. Len(disk.rows) : CommittedOK(disk, i)
      /\ OrderedFrom(disk.events, Len(since.events))
  BY DEF SinceOK
<1> HIDE DEF since
<1>3. Extends(disk'.rows, since.rows)
  BY <1>1, <1>2, ExtendsTransitive
<1>4. ASSUME NEW n \in 1 .. Len(since.events)
      PROVE  n \in 1 .. Len(disk'.events) /\ disk'.events[n].body = since.events[n].body
  BY <1>1, <1>2 DEF Extends
<1>5. ASSUME NEW i \in Len(since.rows) + 1 .. Len(disk'.rows)
      PROVE  CommittedOK(disk', i)
  <2>1. CASE i \in 1 .. Len(disk.rows)
    <3>1. i \in Len(since.rows) + 1 .. Len(disk.rows) /\ disk'.rows[i] = disk.rows[i]
      BY <1>1, <1>2, <2>1 DEF Extends
    <3>2. CommittedOK(disk, i)
      BY <1>2, <3>1
    <3>3. Ledgered(disk, i) => Ledgered(disk', i)
      BY <1>1, <2>1, LedgeredLater
    <3> QED
      BY <3>1, <3>2, <3>3 DEF CommittedOK, IsMetric
  <2>2. CASE i \notin 1 .. Len(disk.rows)
    <3>1. i \in Len(disk.rows) + 1 .. Len(disk'.rows)
      BY <1>1, <1>2, <2>2
    <3>2. disk' # disk
      BY <1>1, <3>1
    <3>3. PICK s \in Sessions : ActsOn(s)
      BY <3>2 DEF vars
    <3> QED
      BY <3>1, <3>2, <3>3, CommitsOK
  <2> QED
    BY <2>1, <2>2
<1>6. OrderedFrom(disk'.events, Len(since.events))
  <2>1. CASE disk' = disk
    BY <1>2, <2>1
  <2>2. CASE disk' # disk
    <3>1. PICK s \in Sessions : ActsOn(s)
      BY <2>2 DEF vars
    <3>2. OrderedFrom(disk'.events, Len(disk.events))
      BY <2>2, <3>1, CommitsOK
    <3> QED
      BY <1>1, <1>2, <3>2, OrderGrows
  <2> QED
    BY <2>1, <2>2
<1> QED
  BY <1>2, <1>3, <1>4, <1>5, <1>6 DEF SinceOK, since

(* The audit of the report takes the database as it is committed.          *)
LEMMA SinceBegins ==
  ASSUME StoreOK, SessionsBehind, lock # Generator, AuditBegins(Generator)
  PROVE  SinceOK'
<1> DEFINE since == audit'[Generator].since
<1>1. disk' = disk /\ WellKept(disk)
  BY DEF AuditBegins, vars, StoreOK
<1>2. since = Snapshot(disk)
  BY Distinct DEF AuditBegins, SessionsBehind, Seen
<1>3. /\ since.rows = disk.rows /\ Len(since.events) = Len(disk.events)
      /\ \A n \in 1 .. Len(disk.events) : since.events[n].body = disk.events[n].body
      /\ \A n \in 1 .. Len(disk.events) : disk.events[n].body.entity \in 1 .. Len(disk.rows)
  BY <1>1, <1>2, SnapshotKept DEF WellKept
<1>4. Len(disk.rows) \in Nat /\ Len(disk.events) \in Nat /\ Extends(disk.rows, disk.rows)
  BY <1>1, KeptTables, ExtendsReflexive
<1> HIDE DEF since
<1>5. \A i \in Len(since.rows) + 1 .. Len(disk.rows) : CommittedOK(disk, i)
  BY <1>3, <1>4
<1>6. OrderedFrom(disk.events, Len(since.events))
  BY <1>3, <1>4 DEF OrderedFrom
<1> QED
  BY <1>1, <1>3, <1>4, <1>5, <1>6 DEF SinceOK, since

LEMMA AuditOfReport ==
  ASSUME Behind, [ReportingNext]_reportingVars
  PROVE  \/ audit'[Generator] = audit[Generator]
         \/ AuditStep(Generator) /\ report.pc = "new" /\ UNCHANGED <<vars, report>>
         \/ ReportFails /\ audit'[Generator].pc = "left"
<1> USE Distinct
<1>1. SessionsBehind
  BY DEF Behind
<1>2. CASE CommandAudits
  <2>1. PICK a \in Auditors : Runs(a) /\ AuditStep(a)
    BY <1>2 DEF CommandAudits
  <2>2. a # Generator => audit'[Generator] = audit[Generator]
    BY <1>1, <2>1 DEF AuditStep, AuditVerifies, AuditBegins, AuditTable, AuditEnds, SessionsBehind
  <2>3. a = Generator => report.pc = "new"
    BY <2>1 DEF Runs
  <2>4. UNCHANGED <<vars, report>>
    BY <1>2, <2>1 DEF CommandAudits, commandVars, AuditStep, AuditVerifies, AuditBegins, AuditTable,
                      AuditEnds
  <2> QED
    BY <2>1, <2>2, <2>3, <2>4
<1>3. CASE ReportStep
  <2>1. CASE ReportFails
    <3>1. audit' = [audit EXCEPT ![Generator] = AuditLeft]
      BY <2>1 DEF ReportFails, AuditLeaves
    <3>2. audit'[Generator].pc = "left"
      BY <1>1, <3>1 DEF SessionsBehind, AuditLeft, NewAudit
    <3> QED
      BY <2>1, <3>2
  <2>2. CASE ~ReportFails
    BY <1>3, <2>2 DEF ReportStep, ReportQueriesMonthly, ReportQueriesQuarterly, ReportSkipsSection,
                      ReportAddsMetric, ReportAddsClaim, ReportAddsEvidence, ReportCommits,
                      NextPart, NextSection, auditVars
  <2> QED
    BY <2>1, <2>2
<1>4. CASE LoadStep
  <2>1. UNCHANGED audit \/ AuditAgain(Loader) \/ AuditLeaves(Loader)
    BY <1>4 DEF LoadStep, LoadStarts, LoadFetches, LoadRecords, LoadNormalizes, LoadAdds, LoadEndsFeed,
                LoadAuditsAgain, LoadCommits, LoadFails, auditVars
  <2> QED
    BY <1>1, <2>1 DEF AuditAgain, AuditLeaves, SessionsBehind
<1>5. CASE ViewStep \/ ContextStep
  BY <1>5 DEF ViewStep, ViewReadsAwards, ViewReadsOutcomes, ViewReadsMappings, ViewReadsCoverage,
              ViewReadsHead, ContextStep, ContextMissesClaim, ContextReadsEdges,
              ContextReadsSupport, ContextGetsArtifacts, ContextListsChallenges,
              ContextReadsStatus, TraceTo, auditVars
<1>6. CASE \/ Flushes \/ HarvesterObserves \/ AnalystChallenges \/ AnalystRevises \/ OthersEnd
           \/ UNCHANGED reportingVars
  BY <1>6 DEF Flushes, HarvesterObserves, AnalystChallenges, AnalystRevises, OthersEnd, Writes,
              reportingVars
<1> QED
  BY <1>2, <1>3, <1>4, <1>5, <1>6 DEF ReportingNext

(* Only its own steps begin to write for the report.                       *)
LEMMA ReportUndisturbed ==
  ASSUME StoreOK, SessionsBehind, [ReportingNext]_reportingVars, ~ReportStep,
         lock' = Generator \/ session'[Generator].pc # "idle"
  PROVE  lock = Generator \/ session[Generator].pc # "idle"
<1> USE Distinct
<1>1. ASSUME NEW s \in Sessions \ {Generator}, AddsRow(s) \/ SessionStep(s)
      PROVE  lock = Generator \/ session[Generator].pc # "idle"
  BY <1>1, SessionStepFrame DEF Frame
<1>2. ASSUME UNCHANGED vars PROVE lock = Generator \/ session[Generator].pc # "idle"
  BY <1>2 DEF vars
<1>3. CASE CommandAudits
  BY <1>2, <1>3 DEF CommandAudits, AuditStep, AuditVerifies, AuditBegins, AuditTable, AuditEnds
<1>4. CASE LoadStep
  <2>1. CASE LoadStarts \/ LoadFetches \/ LoadNormalizes \/ LoadEndsFeed \/ LoadAuditsAgain
    BY <1>2, <2>1 DEF LoadStarts, LoadFetches, LoadNormalizes, LoadEndsFeed, LoadAuditsAgain,
                      AuditAgain, auditVars, vars
  <2>2. CASE LoadRecords \/ LoadAdds
    BY <1>1, <2>2, RepositoryAdds DEF LoadRecords, LoadAdds
  <2>3. CASE LoadCommits \/ LoadFails
    BY <1>1, <1>2, <2>3 DEF LoadCommits, LoadFails, AuditLeaves, SessionStep
  <2> QED
    BY <1>4, <2>1, <2>2, <2>3 DEF LoadStep
<1>5. CASE ViewStep \/ ContextStep
  BY <1>2, <1>5
  DEF ViewStep, ViewReadsAwards, ViewReadsOutcomes, ViewReadsMappings, ViewReadsCoverage,
      ViewReadsHead, ContextStep, ContextMissesClaim, ContextReadsEdges, ContextReadsSupport,
      ContextGetsArtifacts, ContextListsChallenges, ContextReadsStatus, TraceTo, auditVars, vars
<1>6. CASE Flushes
  <2>1. PICK s \in Sessions : Insert(s) \/ Events(s) \/ FlushFails(s)
    BY <1>6 DEF Flushes
  <2>2. s = Generator => session[Generator].pc # "idle"
    BY <2>1 DEF Insert, Events, AppendEvent, AppendRaises, FlushFails
  <2> QED
    BY <1>1, <2>1, <2>2 DEF Events, SessionStep
<1>7. CASE HarvesterObserves \/ AnalystChallenges \/ AnalystRevises
  BY <1>1, <1>7, RepositoryAdds DEF HarvesterObserves, AnalystChallenges, AnalystRevises, Writes
<1>8. CASE OthersEnd
  BY <1>1, <1>8 DEF OthersEnd, Others, SessionStep
<1>9. CASE UNCHANGED reportingVars
  BY <1>2, <1>9 DEF reportingVars, vars
<1> QED
  BY <1>3, <1>4, <1>5, <1>6, <1>7, <1>8, <1>9 DEF ReportingNext

LEMMA QueriesObservations ==
  ASSUME NEW db
  PROVE  QueriedMonthly(db) \cup QueriedQuarterly(db) \subseteq RowsOf(db, {"observation"})
BY DEF QueriedMonthly, QueriedQuarterly, Newest

LEMMA ReportGoesOn ==
  ASSUME StoreOK, Behind, DiskOnlyGrows, StoreOK', ReportOK, ReportStep
  PROVE  ReportOK'
<1> USE Distinct
<1> DEFINE Read(db) == RowsOf(db, {"observation"})
<1>1. Seen(Generator) = disk \/ lock = Generator
  BY DEF Seen
<1>2. /\ report = [pc |-> report.pc, monthly |-> report.monthly, quarterly |-> report.quarterly,
                   section |-> report.section, part |-> report.part]
      /\ session = [s \in Sessions |-> session[s]]
      /\ audit = [a \in Auditors |-> audit[a]]
  BY DEF Behind, SessionsBehind
<1>3. CASE ReportQueriesMonthly \/ ReportQueriesQuarterly
  <2>1. /\ UNCHANGED auditVars /\ report.pc \in {"new", "querying"}
        /\ report'.pc \in {"querying", "sections"}
        /\ \/ report'.monthly = report.monthly
           \/ report'.monthly = QueriedMonthly(Seen(Generator))
        /\ \/ report'.quarterly = report.quarterly
           \/ report'.quarterly = QueriedQuarterly(Seen(Generator))
    BY <1>2, <1>3 DEF ReportQueriesMonthly, ReportQueriesQuarterly
  <2>2. lock # Generator /\ session[Generator].pc = "idle"
    BY <2>1 DEF ReportOK
  <2>3. report'.monthly \cup report'.quarterly \subseteq Read(disk)
    BY <1>1, <2>1, <2>2, QueriesObservations DEF ReportOK
  <2> QED
    BY <2>1, <2>2, <2>3 DEF ReportOK, auditVars
<1>4. CASE \/ ReportSkipsSection \/ ReportAddsMetric \/ ReportAddsClaim \/ ReportAddsEvidence
  <2>1. /\ report'.pc = "sections" /\ report'.monthly = report.monthly
        /\ report'.quarterly = report.quarterly
    BY <1>2, <1>4 DEF ReportSkipsSection, ReportAddsMetric, ReportAddsClaim, ReportAddsEvidence,
                      ReportAt, NextPart, NextSection
  <2>2. Read(disk) \subseteq Read(disk')
    BY TypesKept, KeptTables DEF StoreOK, DiskOnlyGrows
  <2> QED
    BY <2>1, <2>2 DEF ReportOK
<1>5. CASE ReportCommits
  <2>1. /\ report' = [ReportOff EXCEPT !.pc = "reported"] /\ audit' = audit /\ report.pc = "sections"
        /\ lock' # Generator /\ session'[Generator].pc = "idle"
    BY <1>5, ConstantsAssumption DEF ReportCommits, ReportAt, Commit, vars
  <2>2. report'.pc = "reported" /\ report'.monthly = {} /\ report'.quarterly = {}
    BY <2>1 DEF ReportOff
  <2>3. audit[Generator].pc = "valid"
    BY <2>1 DEF Behind
  <2> QED
    BY <2>1, <2>2, <2>3 DEF ReportOK
<1>6. CASE ReportFails
  <2>1. report' = [ReportOff EXCEPT !.pc = "failed"] /\ AuditLeaves(Generator)
    BY <1>6 DEF ReportFails
  <2>2. report'.pc = "failed" /\ report'.monthly = {} /\ report'.quarterly = {}
    BY <2>1 DEF ReportOff
  <2>3. lock' # Generator /\ session'[Generator].pc = "idle"
    BY <1>2, <2>1, ConstantsAssumption DEF AuditLeaves, Close, Discard, vars
  <2> QED
    BY <2>2, <2>3 DEF ReportOK
<1> QED
  BY <1>3, <1>4, <1>5, <1>6 DEF ReportStep

LEMMA ReportOKStep ==
  ASSUME ReportingOK, ReportOK, [ReportingNext]_reportingVars
  PROVE  ReportOK'
<1>1. /\ StoreOK /\ StoreOK' /\ Behind /\ DiskOnlyGrows
  BY ReportingStep DEF ReportingOK, AuditOK
<1>2. CASE ReportStep
  BY <1>1, <1>2, ReportGoesOn
<1>3. CASE ~ReportStep
  <2>1. report' = report
    BY <1>3 DEF ReportingNext, reportingVars, CommandAudits, commandVars, Flushes,
                HarvesterObserves, AnalystChallenges, AnalystRevises, OthersEnd, Writes
  <2>2. RowsOf(disk, {"observation"}) \subseteq RowsOf(disk', {"observation"})
    BY <1>1, TypesKept, KeptTables DEF StoreOK, DiskOnlyGrows
  <2>3. report.pc = "reported" => audit'[Generator] = audit[Generator]
    BY <1>1, <1>3, AuditOfReport DEF ReportFails, ReportStep
  <2>4. lock' = Generator \/ session'[Generator].pc # "idle" =>
          lock = Generator \/ session[Generator].pc # "idle"
    BY <1>1, <1>3, ReportUndisturbed DEF Behind
  <2> QED
    BY <2>1, <2>2, <2>3, <2>4 DEF ReportOK
<1> QED
  BY <1>2, <1>3

(* What the audit of the report began with stays as it is while it reads.  *)
LEMMA AuditGoesOn ==
  ASSUME AuditOK, AuditStep(Generator), audit'[Generator].pc \in {"reading", "valid"}
  PROVE  \/ AuditBegins(Generator)
         \/ audit[Generator].pc = "reading" /\ audit'[Generator].since = audit[Generator].since
<1> USE Distinct
<1> DEFINE now == audit[Generator]
<1>1. /\ audit = [a \in Auditors |-> audit[a]]
      /\ now = [pc |-> now.pc, head |-> now.head, covered |-> now.covered, table |-> now.table,
                uncovered |-> now.uncovered, since |-> now.since]
  BY DEF AuditOK, AuditorOK
<1>2. CASE AuditVerifies(Generator)
  <2> DEFINE pc == IF Chained(Seen(Generator).events) THEN "verified" ELSE "refused"
             head == Len(Seen(Generator).events)
  <2>1. audit' = [audit EXCEPT ![Generator].pc = pc, ![Generator].head = head]
    BY <1>2 DEF AuditVerifies
  <2>2. pc \in {"verified", "refused"}
    OBVIOUS
  <2> HIDE DEF pc, head
  <2>3. audit'[Generator] = [now EXCEPT !.pc = pc, !.head = head]
    BY <1>1, <2>1
  <2>4. audit'[Generator].pc = pc
    BY <1>1, <2>3
  <2> QED
    BY <2>2, <2>4
<1>3. CASE AuditTable(Generator)
  <2> DEFINE table == now.table + 1
             found == {Entry(AuditedTables[now.table], i) :
                         i \in RowsOf(Seen(Generator), {AuditedTables[now.table]})}
             uncovered == now.uncovered \cup (found \ now.covered)
  <2>1. /\ now.pc = "reading"
        /\ audit' = [audit EXCEPT ![Generator].table = table, ![Generator].uncovered = uncovered]
    BY <1>1, <1>3 DEF AuditTable
  <2> HIDE DEF table, uncovered
  <2>2. audit'[Generator] = [now EXCEPT !.table = table, !.uncovered = uncovered]
    BY <1>1, <2>1
  <2>3. audit'[Generator].since = now.since
    BY <1>1, <2>2
  <2> QED
    BY <2>1, <2>3
<1>4. CASE AuditEnds(Generator)
  <2> DEFINE pc == IF now.uncovered = {} THEN "valid" ELSE "refused"
  <2>1. /\ now.pc = "reading"
        /\ audit' = [audit EXCEPT ![Generator].pc = pc, ![Generator].covered = {}]
    BY <1>4 DEF AuditEnds
  <2> HIDE DEF pc
  <2>2. audit'[Generator] = [now EXCEPT !.pc = pc, !.covered = {}]
    BY <1>1, <2>1
  <2>3. audit'[Generator].since = now.since
    BY <1>1, <2>2
  <2> QED
    BY <2>1, <2>3
<1> QED
  BY <1>2, <1>3, <1>4 DEF AuditStep

LEMMA LedgeredStep ==
  ASSUME ReportingOK, LedgeredOK, [ReportingNext]_reportingVars
  PROVE  LedgeredOK'
<1> USE Distinct
<1>1. /\ StoreOK /\ StoreOK' /\ AuditOK /\ Behind /\ DiskOnlyGrows
      /\ UNCHANGED vars \/ \E s \in Sessions : ActsOn(s)
  BY ReportingStep DEF ReportingOK, AuditOK
<1>2. WritersOK /\ ReportOK /\ (Audited => SinceOK)
  BY DEF LedgeredOK
<1>3. WritersOK'
  <2>1. CASE UNCHANGED vars
    BY <1>2, <2>1 DEF WritersOK, WrittenOK, WaitingOK, EventsOK, InFlight, Seen, vars
  <2>2. CASE \E s \in Sessions : ActsOn(s)
    BY <1>1, <1>2, <2>2, WritersStep
  <2> QED
    BY <1>1, <2>1, <2>2
<1>4. Audited' => SinceOK'
  <2> SUFFICES ASSUME Audited' PROVE SinceOK'
    OBVIOUS
  <2>1. CASE Audited /\ audit'[Generator].since = audit[Generator].since
    BY <1>1, <1>2, <2>1, SinceKept
  <2>2. CASE audit'[Generator] = audit[Generator]
    BY <2>1, <2>2 DEF Audited
  <2>3. CASE AuditStep(Generator) /\ report.pc = "new"
    <3>1. lock # Generator
      BY <1>2, <2>3 DEF ReportOK
    <3>2. CASE AuditBegins(Generator)
      BY <1>1, <3>1, <3>2, SinceBegins DEF Behind
    <3>3. CASE audit[Generator].pc = "reading" /\ audit'[Generator].since = audit[Generator].since
      BY <2>1, <3>3 DEF Audited
    <3> QED
      BY <1>1, <2>3, <3>2, <3>3, AuditGoesOn DEF Audited
  <2> QED
    BY <1>1, <2>2, <2>3, AuditOfReport DEF Audited
<1>5. ReportOK'
  BY <1>2, ReportOKStep
<1> QED
  BY <1>3, <1>4, <1>5 DEF LedgeredOK

LEMMA LedgeredStart == ReportingInit => LedgeredOK
<1> SUFFICES ASSUME ReportingInit PROVE LedgeredOK
  OBVIOUS
<1> USE Distinct
<1>1. /\ lock = None /\ session = [s \in Sessions |-> [pc |-> "idle", row |-> NoRow]]
      /\ audit = [a \in Auditors |-> NewAudit] /\ WellKept(disk)
  BY AuditAssumption DEF ReportingInit, AuditInit
<1>2. \A s \in Sessions : Seen(s) = disk /\ session[s].pc = "idle" /\ lock # s
  BY <1>1, ConstantsAssumption DEF Seen
<1>3. Len(disk.rows) \in Nat /\ Len(disk.events) \in Nat
  BY <1>1, KeptTables
<1>4. WritersOK
  BY <1>2, <1>3 DEF WritersOK, WrittenOK, WaitingOK, EventsOK, OrderedFrom
<1>5. ~Audited
  BY <1>1 DEF Audited, NewAudit
<1>6. report = ReportOff \/ report = ReportNew
  BY DEF ReportingInit
<1>7. report.monthly = {} /\ report.quarterly = {} /\ report.pc # "reported"
  BY <1>6 DEF ReportOff, ReportNew
<1> QED
  BY <1>2, <1>4, <1>5, <1>7 DEF LedgeredOK, ReportOK

LEMMA LedgeredInvariance == ReportingSpec => [](ReportingOK /\ LedgeredOK)
<1>1. ReportingInit => ReportingOK /\ LedgeredOK
  BY ReportingStart, LedgeredStart
<1>2. ReportingOK /\ LedgeredOK /\ [ReportingNext]_reportingVars => ReportingOK' /\ LedgeredOK'
  BY ReportingStep, LedgeredStep
<1> QED
  BY <1>1, <1>2, PTL DEF ReportingSpec

(* The event of a new metric comes after all that the audit knew, and      *)
(* after those of the rows before it.                                      *)
LEMMA LedgeredSuffices == ReportingOK /\ LedgeredOK => RestsOnLedgered
<1> DEFINE since == audit[Generator].since
           known == 1 .. Len(since.rows)
<1> SUFFICES ASSUME ReportingOK, LedgeredOK, report.pc = "reported", NEW m \in Metrics(disk) \ known
             PROVE  \E k \in EventsOf(disk, m) : \A o \in disk.rows[m].refs :
                      o \in known \/ Ledgered(disk, o) => \E n \in EventsOf(disk, o) : n < k
  BY DEF RestsOnLedgered
<1>1. audit[Generator].pc = "valid" /\ SinceOK
  BY DEF LedgeredOK, ReportOK, Audited
<1>2. RowsLedgered(since)
  BY <1>1, Distinct DEF ReportingOK, AuditOK, AuditorOK
<1>3. InOrder(disk) /\ Len(disk.rows) \in Nat /\ Len(disk.events) \in Nat
  BY KeptTables DEF ReportingOK, AllInOrder, AuditOK, StoreOK
<1>4. /\ Len(since.rows) \in Nat /\ Len(since.events) \in Nat /\ Extends(disk.rows, since.rows)
      /\ \A n \in 1 .. Len(since.events) :
           /\ n \in 1 .. Len(disk.events) /\ disk.events[n].body = since.events[n].body
           /\ since.events[n].body.entity \in known
      /\ \A i \in Len(since.rows) + 1 .. Len(disk.rows) : CommittedOK(disk, i)
      /\ OrderedFrom(disk.events, Len(since.events))
  BY <1>1 DEF SinceOK
<1>5. m \in 1 .. Len(disk.rows) /\ disk.rows[m].type = "derived_metric" /\ m \notin known
  BY DEF Metrics, RowsOf
<1> HIDE DEF since
<1>6. Ledgered(disk, m)
  <2>1. m \in Len(since.rows) + 1 .. Len(disk.rows)
    BY <1>3, <1>4, <1>5
  <2> QED
    BY <1>4, <1>5, <2>1 DEF CommittedOK, IsMetric
<1>7. PICK k \in 1 .. Len(disk.events) : disk.events[k].body = Body(disk.rows[m], m)
  BY <1>6 DEF Ledgered
<1>8. disk.events[k].body.entity = m
  BY <1>7 DEF Body
<1>9. k \in Len(since.events) + 1 .. Len(disk.events)
  <2>1. k \notin 1 .. Len(since.events)
    BY <1>4, <1>5, <1>8
  <2> QED
    BY <1>3, <1>4, <2>1
<1>10. ASSUME NEW o \in disk.rows[m].refs, o \in known
       PROVE  \E n \in EventsOf(disk, o) : n < k
  <2>1. PICK n \in 1 .. Len(since.events) : since.events[n].body = Body(since.rows[o], o)
    BY <1>2, <1>10 DEF RowsLedgered, Ledgered
  <2>2. since.rows[o] = disk.rows[o]
    BY <1>4, <1>10 DEF Extends
  <2>3. n \in EventsOf(disk, o)
    BY <1>4, <2>1, <2>2 DEF EventsOf
  <2>4. n < k
    BY <1>3, <1>4, <1>9, <2>1
  <2> QED
    BY <2>3, <2>4
<1>11. ASSUME NEW o \in disk.rows[m].refs, Ledgered(disk, o)
       PROVE  \E n \in EventsOf(disk, o) : n < k
  <2>1. PICK n \in 1 .. Len(disk.events) : disk.events[n].body = Body(disk.rows[o], o)
    BY <1>11 DEF Ledgered
  <2>2. disk.events[n].body.entity = o
    BY <2>1 DEF Body
  <2>3. o \in 1 .. m - 1
    BY <1>3, <1>5 DEF InOrder
  <2>4. ~(k < n)
    <3> SUFFICES ASSUME k < n PROVE FALSE
      OBVIOUS
    <3>1. n \in Len(since.events) + 1 .. Len(disk.events) /\ k \in 1 .. n - 1
      BY <1>3, <1>4, <1>9, <2>1
    <3>2. m < o
      BY <1>4, <1>8, <2>2, <3>1 DEF OrderedFrom
    <3> QED
      BY <1>5, <2>3, <3>2
  <2>5. n # k
    BY <1>5, <1>8, <2>2, <2>3
  <2>6. n < k
    BY <1>7, <2>1, <2>4, <2>5
  <2> QED
    BY <2>1, <2>6 DEF EventsOf
<1> QED
  BY <1>7, <1>10, <1>11 DEF EventsOf

(* insights_report.py:108 "Cannot generate insights from unaudited         *)
(* evidence": a metric that a report has committed has its event, after    *)
(* those of all that it was computed from and the audit knew - and of all  *)
(* else that has one.                                                      *)
THEOREM ReportsRestOnLedgered == ReportingSpec => []RestsOnLedgered
BY LedgeredInvariance, LedgeredSuffices, PTL

LEMMA DivGrows ==
  ASSUME NEW m \in Nat, NEW n \in Nat, NEW a \in Nat, m \div YearLength + 1 < a,
         n \div YearLength + 1 >= a
  PROVE  m <= n
<1> DEFINE k == YearLength
<1>1. k \in Nat /\ k > 0
  BY InsightsAssumption
<1> HIDE DEF k
<1>2. /\ m = k * (m \div k) + (m % k) /\ m % k \in 0 .. k - 1 /\ m \div k \in Nat
      /\ n = k * (n \div k) + (n % k) /\ n % k \in 0 .. k - 1 /\ n \div k \in Nat
  BY <1>1
<1> DEFINE p == m \div k
           q == n \div k
           r == m % k
           t == n % k
<1>3. p + 1 < a /\ q + 1 >= a
  BY DEF k
<1> HIDE DEF p, q, r, t
<1>4. /\ p \in Nat /\ q \in Nat /\ r \in 0 .. k - 1 /\ t \in 0 .. k - 1 /\ m = k * p + r
      /\ n = k * q + t
  BY <1>2 DEF p, q, r, t
<1>5. p + 1 <= q
  BY <1>3, <1>4
<1>6. k * (p + 1) <= k * q
  BY <1>1, <1>4, <1>5
<1>7. k * (p + 1) = k * p + k
  BY <1>1, <1>4
<1>8. k * p \in Int /\ k * q \in Int
  BY <1>1, <1>4
<1> DEFINE x == k * p
           y == k * q
<1>9. x + k <= y /\ x \in Int /\ y \in Int /\ m = x + r /\ n = y + t
  BY <1>4, <1>6, <1>7, <1>8
<1> HIDE DEF x, y
<1> QED
  BY <1>1, <1>4, <1>9

----------------------------------------------------------------------------
(* A row that is the newest of its key was so before others came.          *)
LEMMA NewestEarlier ==
  ASSUME NEW later, NEW earlier, Len(later.rows) \in Nat, Len(earlier.rows) \in Nat,
         Extends(later.rows, earlier.rows), NEW i \in 1 .. Len(earlier.rows), i \in Newest(later)
  PROVE  i \in Newest(earlier)
<1>1. later.rows[i] = earlier.rows[i] /\ i \in RowsOf(earlier, {"observation"})
  BY DEF Newest, RowsOf, Extends
<1>2. ASSUME NEW j \in VersionsOf(earlier, "observation", earlier.rows[i].key)
      PROVE  earlier.rows[j].version <= earlier.rows[i].version
  <2>1. j \in VersionsOf(later, "observation", later.rows[i].key) /\ later.rows[j] = earlier.rows[j]
    BY <1>1 DEF VersionsOf, Extends
  <2> QED
    BY <1>1, <2>1 DEF Newest
<1> QED
  BY <1>1, <1>2 DEF Newest

NoneNewer(db, o, known) ==
  \A j \in VersionsOf(db, "observation", db.rows[o].key) :
    db.rows[j].version > db.rows[o].version => j \notin known

LEMMA NoneNewerLater ==
  ASSUME NEW later, NEW earlier, Len(later.rows) \in Nat, Len(earlier.rows) \in Nat,
         Extends(later.rows, earlier.rows), NEW known, known \subseteq 1 .. Len(earlier.rows),
         NEW o \in 1 .. Len(earlier.rows), NoneNewer(earlier, o, known)
  PROVE  NoneNewer(later, o, known)
<1> SUFFICES ASSUME NEW j \in VersionsOf(later, "observation", later.rows[o].key),
                    later.rows[j].version > later.rows[o].version, j \in known
             PROVE  FALSE
  BY DEF NoneNewer
<1>1. /\ j \in 1 .. Len(earlier.rows) /\ later.rows[j] = earlier.rows[j]
      /\ later.rows[o] = earlier.rows[o]
  BY DEF Extends
<1>2. j \in VersionsOf(earlier, "observation", earlier.rows[o].key)
  BY <1>1 DEF VersionsOf
<1> QED
  BY <1>1, <1>2 DEF NoneNewer

(* A metric that was right when it was computed stays so.                  *)
LEMMA ApartLater ==
  ASSUME NEW later, NEW earlier, Len(later.rows) \in Nat, Len(earlier.rows) \in Nat,
         Extends(later.rows, earlier.rows), NEW known, known \subseteq 1 .. Len(earlier.rows),
         NEW metric, metric.refs \subseteq 1 .. Len(earlier.rows),
         YearApart(metric, earlier, known)
  PROVE  YearApart(metric, later, known)
<1>1. PICK last \in metric.refs :
        /\ \A o \in metric.refs :
             /\ earlier.rows[o].says.metric = metric.says.metric
             /\ Numeric(earlier.rows[o].says.value)
             /\ NoneNewer(earlier, o, known)
             /\ o # last => Period(earlier, last) - Period(earlier, o) = YearLength
        /\ (Cardinality(metric.refs) = 2) = metric.says.change
        /\ metric.key[2] = Period(earlier, last)
        /\ \A j \in known \cap Newest(earlier) :
             /\ earlier.rows[j].says.metric = metric.says.metric
             /\ Numeric(earlier.rows[j].says.value)
             /\ Period(earlier, j) <= AsOf
             => Period(earlier, j) <= Period(earlier, last)
  BY DEF YearApart, NoneNewer
<1>2. \A i \in 1 .. Len(earlier.rows) :
        later.rows[i] = earlier.rows[i] /\ Period(later, i) = Period(earlier, i)
  BY DEF Extends, Period
<1>3. ASSUME NEW o \in metric.refs
      PROVE  /\ later.rows[o].says.metric = metric.says.metric
             /\ Numeric(later.rows[o].says.value)
             /\ NoneNewer(later, o, known)
             /\ o # last => Period(later, last) - Period(later, o) = YearLength
  <2>1. /\ o \in 1 .. Len(earlier.rows) /\ last \in 1 .. Len(earlier.rows)
        /\ NoneNewer(earlier, o, known)
    BY <1>1
  <2>2. NoneNewer(later, o, known)
    BY <2>1, NoneNewerLater
  <2> QED
    BY <1>1, <1>2, <2>1, <2>2
<1>4. metric.key[2] = Period(later, last)
  BY <1>1, <1>2
<1>5. ASSUME NEW j \in known \cap Newest(later), later.rows[j].says.metric = metric.says.metric,
             Numeric(later.rows[j].says.value), Period(later, j) <= AsOf
      PROVE  Period(later, j) <= Period(later, last)
  <2>1. j \in Newest(earlier)
    BY NewestEarlier
  <2> QED
    BY <1>1, <1>2, <1>5, <2>1
<1> QED
  BY <1>1, <1>3, <1>4, <1>5 DEF YearApart, NoneNewer

----------------------------------------------------------------------------
(* The keys of series, where no universities are loaded.                   *)
SessionKeyed(s) == Keyed(Seen(s)) /\ (session[s].pc = "ready" => InSeries(session[s].row))

AllKeyed == Keyed(disk) /\ \A s \in Sessions : SessionKeyed(s)

OneCommand == report.pc # "off" => load.pc = "off"

LEMMA OneCommandStays ==
  ASSUME OneCommand, [ReportingNext]_reportingVars
  PROVE  OneCommand' /\ (report'.pc # "off" => report.pc # "off")
<1>1. report'.pc # "off" => report.pc # "off"
  BY DEF ReportingNext, reportingVars, CommandAudits, commandVars, Flushes, HarvesterObserves,
         AnalystChallenges, AnalystRevises, OthersEnd, Writes, ReportStep, ReportQueriesMonthly,
         ReportQueriesQuarterly, ReportSkipsSection, ReportAddsMetric, ReportAddsClaim,
         ReportAddsEvidence, ReportCommits, ReportFails, ReportAt
<1>2. load' # load => load.pc # "off"
  BY DEF ReportingNext, reportingVars, CommandAudits, commandVars, Flushes, HarvesterObserves,
         AnalystChallenges, AnalystRevises, OthersEnd, Writes, LoadStep, LoadStarts, LoadFetches,
         LoadRecords, LoadNormalizes, LoadAdds, LoadEndsFeed, LoadAuditsAgain, LoadCommits, LoadFails
<1> QED
  BY <1>1, <1>2 DEF OneCommand

LEMMA KeysAreGiven ==
  ASSUME NEW metric \in Monthly \cup Quarterly, NEW period \in Nat
  PROVE  <<metric, period>> # None
<1>1. <<metric, period>> \in (Monthly \cup Quarterly) \X Nat
  OBVIOUS
<1> QED
  BY <1>1, ReportingAssumption

LEMMA KeyedSame ==
  ASSUME NEW later, NEW earlier, later.rows = earlier.rows, Keyed(earlier)
  PROVE  Keyed(later)
BY DEF Keyed, VersionsOf

LEMMA InsertKeyed ==
  ASSUME StoreOK, NEW s \in Sessions, SessionKeyed(s), Insert(s)
  PROVE  Keyed(Seen(s)')
<1> DEFINE old == Seen(s)
           new == Seen(s)'
           N == Len(old.rows)
           row == session[s].row
<1>1. /\ Len(new.rows) = N + 1 /\ \A i \in 1 .. N : new.rows[i] = old.rows[i]
      /\ new.rows[N + 1] = row /\ Unique(old, row) /\ InSeries(row) /\ Keyed(old)
  BY InsertFacts DEF SessionKeyed
<1>2. N \in Nat
  BY SeenKept, KeptTables, ConstantsAssumption DEF StoreOK
<1> HIDE DEF old, new, row, N
<1> SUFFICES ASSUME NEW i \in 1 .. N + 1
             PROVE  /\ InSeries(new.rows[i])
                    /\ /\ new.rows[i].type = "observation"
                       /\ new.rows[i].says.metric \in Monthly \cup Quarterly
                       => \A j \in VersionsOf(new, "observation", new.rows[i].key) \ {i} :
                            new.rows[j].version # new.rows[i].version
  BY <1>1 DEF Keyed, new
<1>3. InSeries(new.rows[i])
  <2>1. CASE i = N + 1
    BY <1>1, <2>1
  <2>2. CASE i \in 1 .. N
    BY <1>1, <2>2 DEF Keyed, N
  <2> QED
    BY <1>2, <2>1, <2>2
<1>4. ASSUME new.rows[i].type = "observation", new.rows[i].says.metric \in Monthly \cup Quarterly,
             NEW j \in VersionsOf(new, "observation", new.rows[i].key) \ {i}
      PROVE  new.rows[j].version # new.rows[i].version
  <2>1. /\ j \in 1 .. N + 1 /\ i # j /\ new.rows[j].type = "observation"
        /\ new.rows[j].key = new.rows[i].key
    BY <1>1 DEF VersionsOf
  <2>2. new.rows[i].key # None
    BY <1>3, <1>4, KeysAreGiven DEF InSeries
  <2>3. CASE i \in 1 .. N /\ j \in 1 .. N
    <3>1. j \in VersionsOf(old, "observation", old.rows[i].key) \ {i}
      BY <1>1, <2>1, <2>3 DEF VersionsOf, N
    <3> QED
      BY <1>1, <1>4, <2>3, <3>1 DEF Keyed, N
  <2>4. CASE i = N + 1
    <3>1. j \in 1 .. N /\ row = new.rows[i] /\ new.rows[j] = old.rows[j]
      BY <1>1, <1>2, <2>1, <2>4
    <3>2. old.rows[j].type = row.type /\ old.rows[j].key = row.key
      BY <1>4, <2>1, <3>1
    <3>3. j \in VersionsOf(old, row.type, row.key)
      BY <3>1, <3>2 DEF VersionsOf, N
    <3> QED
      BY <1>1, <2>2, <3>1, <3>3 DEF Unique
  <2>5. CASE j = N + 1
    <3>1. i \in 1 .. N /\ row = new.rows[j] /\ new.rows[i] = old.rows[i]
      BY <1>1, <1>2, <2>1, <2>5
    <3>2. old.rows[i].type = row.type /\ old.rows[i].key = row.key
      BY <1>4, <2>1, <3>1
    <3>3. i \in VersionsOf(old, row.type, row.key)
      BY <3>1, <3>2 DEF VersionsOf, N
    <3> QED
      BY <1>1, <2>1, <2>2, <3>1, <3>3 DEF Unique
  <2> QED
    BY <1>2, <2>1, <2>3, <2>4, <2>5
<1> QED
  BY <1>3, <1>4

LEMMA KeyedStep ==
  ASSUME StoreOK, AllKeyed, load.pc = "off", NEW s \in Sessions, ActsOn(s)
  PROVE  AllKeyed'
<1>1. Frame(s)
  BY ActsFrame
<1>2. SessionKeyed(s) /\ Keyed(disk)
  BY DEF AllKeyed
<1>3. Keyed(disk') /\ SessionKeyed(s)'
  <2>1. CASE Adds(s)
    BY <1>2, <2>1, AddFacts DEF SessionKeyed, Adds
  <2>2. CASE Insert(s)
    BY <1>2, <2>2, InsertFacts, InsertKeyed DEF SessionKeyed
  <2>3. CASE AppendEvent(s)
    BY <1>2, <2>3, AppendFacts, KeyedSame DEF SessionKeyed
  <2>4. CASE AppendRaises(s)
    BY <1>2, <2>4, RaiseFacts DEF SessionKeyed, AfterException
  <2>5. CASE FlushFails(s) \/ Close(s)
    BY <1>2, <2>5, DiscardFacts DEF SessionKeyed
  <2>6. CASE Commit(s)
    BY <1>2, <2>6, CommitFacts DEF SessionKeyed
  <2> QED
    BY <2>1, <2>2, <2>3, <2>4, <2>5, <2>6 DEF ActsOn, Flush, Events
<1>4. ASSUME NEW t \in Sessions \ {s} PROVE SessionKeyed(t)'
  <2>1. SessionKeyed(t)
    BY DEF AllKeyed
  <2>2. /\ session'[t] = session[t]
        /\ lock = t => Seen(t)' = Seen(t) /\ disk' = disk
        /\ lock # t => Seen(t) = disk /\ Seen(t)' = disk'
    BY <1>1, OthersSee
  <2> QED
    BY <1>3, <2>1, <2>2 DEF SessionKeyed
<1> QED
  BY <1>3, <1>4 DEF AllKeyed

(* What the report has read of the rows in known: every one that counts,   *)
(* of a month or quarter one, and none that was superseded by them.        *)
InWindow(db, i) == Period(db, i) \div YearLength + 1 >= AsOf \div YearLength

ReadRows == report.monthly \cup report.quarterly

QueriedOK(known) ==
  /\ \A o \in ReadRows : NoneNewer(disk, o, known)
  /\ \A o \in report.monthly : disk.rows[o].says.metric \in Monthly /\ InWindow(disk, o)
  /\ \A o \in report.quarterly : disk.rows[o].says.metric \in Quarterly
  /\ \A o, p \in ReadRows :
       disk.rows[o].says.metric = disk.rows[p].says.metric /\ Period(disk, o) = Period(disk, p)
       => o = p
  /\ report.pc \in {"querying", "sections"} =>
       \A j \in known \cap Newest(disk) :
         disk.rows[j].says.metric \in Monthly /\ InWindow(disk, j) /\ Period(disk, j) <= AsOf
         => j \in report.monthly
  /\ report.pc = "sections" =>
       \A j \in known \cap Newest(disk) :
         disk.rows[j].says.metric \in Quarterly /\ Period(disk, j) <= AsOf => j \in report.quarterly

(* What OfSection holds, whatever the report has written since.            *)
LEMMA SectionReads ==
  ASSUME StoreOK, AllKeyed, ReportOK
  PROVE  /\ Len(disk.rows) \in Nat /\ Len(Seen(Generator).rows) \in Nat
         /\ Extends(Seen(Generator).rows, disk.rows)
         /\ \A i \in 1 .. Len(disk.rows) :
              Seen(Generator).rows[i] = disk.rows[i] /\ Period(Seen(Generator), i) = Period(disk, i)
         /\ ReadRows \subseteq RowsOf(disk, {"observation"})
         /\ OfSection = {o \in ReadRows : disk.rows[o].says.metric = Here.metric}
         /\ \A i \in RowsOf(disk, {"observation"}) :
              disk.rows[i].says.metric \in Monthly \cup Quarterly => Period(disk, i) \in Nat
<1> DEFINE db == Seen(Generator)
<1>1. /\ Len(disk.rows) \in Nat /\ Len(db.rows) \in Nat /\ Extends(db.rows, disk.rows)
  BY SeenKept, KeptTables, ConstantsAssumption, Distinct DEF StoreOK
<1>2. \A i \in 1 .. Len(disk.rows) : db.rows[i] = disk.rows[i] /\ Period(db, i) = Period(disk, i)
  BY <1>1 DEF Extends, Period
<1>3. ReadRows \subseteq RowsOf(disk, {"observation"})
  BY DEF ReadRows, ReportOK
<1>4. \A o \in ReadRows : o \in 1 .. Len(disk.rows)
  BY <1>3 DEF RowsOf
<1>5. OfSection = {o \in ReadRows : disk.rows[o].says.metric = Here.metric}
  BY <1>2, <1>4 DEF OfSection, ReadRows
<1>6. ASSUME NEW i \in RowsOf(disk, {"observation"}),
             disk.rows[i].says.metric \in Monthly \cup Quarterly
      PROVE  Period(disk, i) \in Nat
  BY <1>6 DEF RowsOf, AllKeyed, Keyed, InSeries, Period
<1> QED
  BY <1>1, <1>2, <1>3, <1>5, <1>6

(* There is one number to begin with, none of a later period.              *)
LEMMA OneBasis ==
  ASSUME StoreOK, AllKeyed, ReportOK, NEW known, QueriedOK(known), NEW b \in Basis
  PROVE  /\ Basis = {b} /\ b \in OfSection /\ b \in ReadRows
         /\ disk.rows[b].says.metric = Here.metric
         /\ Here.metric \in Monthly \cup Quarterly /\ Period(disk, b) \in Nat
         /\ Here.metric \in Monthly => b \in LastOf(WithNumber(OfSection)) /\ InWindow(disk, b)
         /\ Here.metric \notin Monthly => b \in LastOf(OfSection)
<1>1. Basis \subseteq OfSection
  BY DEF Basis, LastOf, WithNumber
<1>2. /\ b \in OfSection /\ b \in ReadRows /\ disk.rows[b].says.metric = Here.metric
  BY <1>1, SectionReads
<1>3. Here.metric \in Monthly \cup Quarterly
  BY <1>2 DEF QueriedOK, ReadRows
<1>4. \A o \in OfSection : /\ o \in ReadRows /\ disk.rows[o].says.metric = Here.metric
                           /\ Period(disk, o) \in Nat
                           /\ Period(Seen(Generator), o) = Period(disk, o)
  <2> TAKE o \in OfSection
  <2>1. o \in ReadRows /\ disk.rows[o].says.metric = Here.metric
    BY SectionReads
  <2>2. o \in RowsOf(disk, {"observation"})
    BY <2>1, SectionReads
  <2>3. o \in 1 .. Len(disk.rows)
    BY <2>2 DEF RowsOf
  <2> QED
    BY <1>3, <2>1, <2>2, <2>3, SectionReads
<1>5. Here.metric \in Monthly => b \in LastOf(WithNumber(OfSection)) /\ InWindow(disk, b)
  BY <1>2, InsightsAssumption DEF Basis, QueriedOK, ReadRows
<1>6. Here.metric \notin Monthly => b \in LastOf(OfSection)
  BY DEF Basis, WithNumber
<1>7. ASSUME NEW c \in Basis PROVE c = b
  <2>1. /\ Period(Seen(Generator), b) <= Period(Seen(Generator), c)
        /\ Period(Seen(Generator), c) <= Period(Seen(Generator), b)
    BY DEF Basis, LastOf, WithNumber
  <2>2. Period(disk, b) = Period(disk, c)
    BY <1>1, <1>4, <2>1
  <2> QED
    BY <1>1, <1>4, <2>2 DEF QueriedOK
<1> QED
  BY <1>2, <1>3, <1>4, <1>5, <1>6, <1>7

(* And one of a year before, at most.                                      *)
LEMMA OnePrior ==
  ASSUME StoreOK, AllKeyed, ReportOK, NEW known, QueriedOK(known), NEW b \in Basis, NEW p \in Priors(b)
  PROVE  /\ Priors(b) = {p} /\ p # b /\ p \in OfSection
         /\ Period(disk, b) - Period(disk, p) = YearLength
<1>1. YearLength \in Nat \ {0} /\ Period(disk, b) \in Nat /\ b \in OfSection
  BY OneBasis, InsightsAssumption
<1>2. \A o \in OfSection : /\ o \in ReadRows /\ disk.rows[o].says.metric = Here.metric
                           /\ Period(Seen(Generator), o) = Period(disk, o)
                           /\ Period(disk, o) \in Nat
  <2> TAKE o \in OfSection
  <2>1. o \in ReadRows /\ disk.rows[o].says.metric = Here.metric
    BY SectionReads
  <2>2. o \in RowsOf(disk, {"observation"})
    BY <2>1, SectionReads
  <2>3. o \in 1 .. Len(disk.rows)
    BY <2>2 DEF RowsOf
  <2> QED
    BY <2>1, <2>2, <2>3, SectionReads, OneBasis
<1>3. ASSUME NEW q \in Priors(b)
      PROVE  q \in OfSection /\ Period(disk, q) = Period(disk, b) - YearLength
  <2>1. q \in OfSection /\ Period(Seen(Generator), q) = Period(Seen(Generator), b) - YearLength
    BY DEF Priors, WithNumber, YearBefore
  <2> QED
    BY <1>1, <1>2, <2>1
<1>4. ASSUME NEW q \in Priors(b) PROVE q = p
  BY <1>2, <1>3 DEF QueriedOK
<1> QED
  BY <1>1, <1>2, <1>3, <1>4

LEMMA HereIsASection ==
  ASSUME report.section \in Nat \ {0}, report.section <= Len(Sections)
  PROVE  Here.change \in BOOLEAN
<1>1. Len(Sections) \in Nat
  BY SectionsAssumption
<1>2. report.section \in 1 .. Len(Sections)
  BY <1>1
<1>3. PICK k \in 1 .. Len(AllSections) : Here = AllSections[k]
  BY <1>2, SectionsAssumption DEF Here
<1>4. Len(AllSections) = 6
  BY DEF AllSections
<1>5. \/ Here = UnemploymentRate \/ Here = UnemploymentRateYoY \/ Here = UnemployedLevel
      \/ Here = LaborForce \/ Here = QwiEmployment \/ Here = QwiEmploymentYoY
  BY <1>3, <1>4 DEF AllSections
<1>6. \A name, metric : /\ Section(name, metric, TRUE).change = TRUE
                         /\ Section(name, metric, FALSE).change = FALSE
  BY DEF Section
<1>7. /\ UnemploymentRate.change = FALSE /\ UnemploymentRateYoY.change = TRUE
      /\ UnemployedLevel.change = FALSE /\ LaborForce.change = FALSE
      /\ QwiEmployment.change = FALSE /\ QwiEmploymentYoY.change = TRUE
  BY <1>6 DEF UnemploymentRate, UnemploymentRateYoY, UnemployedLevel, LaborForce, QwiEmployment,
              QwiEmploymentYoY
<1> QED
  BY <1>5, <1>7

(* The inputs of a metric: its basis, and the number of the year before.   *)
LEMMA InputsAre ==
  ASSUME StoreOK, AllKeyed, ReportOK, NEW known, QueriedOK(known), Inputs # {},
         Here.change \in BOOLEAN
  PROVE  \E b \in Basis :
           /\ Basis = {b} /\ b \in Inputs /\ Inputs \subseteq WithNumber(OfSection)
           /\ \A o \in Inputs : o # b => Period(disk, b) - Period(disk, o) = YearLength
           /\ (Cardinality(Inputs) = 2) = Here.change
<1>1. Basis # {}
  BY DEF Inputs
<1>2. PICK b \in Basis : TRUE
  BY <1>1
<1>3. Basis = {b}
  BY <1>2, OneBasis
<1>4. Inputs \subseteq WithNumber(OfSection)
  BY InputsAreNumbers
<1>5. CASE Here.change = FALSE
  <2>1. Inputs = {b}
    BY <1>1, <1>3, <1>5 DEF Inputs
  <2>2. Cardinality(Inputs) = 1
    BY <2>1, FS_Singleton
  <2> QED
    BY <1>3, <1>4, <1>5, <2>1, <2>2
<1>6. CASE Here.change = TRUE
  <2>1. UNION {Priors(i) : i \in Basis} = Priors(b)
    BY <1>3
  <2>2. Priors(b) # {} /\ Inputs = Basis \cup Priors(b)
    BY <1>1, <1>6, <2>1 DEF Inputs
  <2>3. PICK p \in Priors(b) : TRUE
    BY <2>2
  <2>4. Priors(b) = {p} /\ p # b /\ Period(disk, b) - Period(disk, p) = YearLength
    BY <1>2, <2>3, OnePrior
  <2>5. Inputs = {b} \cup {p}
    BY <1>3, <2>2, <2>4
  <2>6. Cardinality(Inputs) = 2
    <3>1. IsFiniteSet({b}) /\ Cardinality({b}) = 1
      BY FS_Singleton
    <3>2. Cardinality({b} \cup {p}) = Cardinality({b}) + 1
      BY <2>4, <3>1, FS_AddElement
    <3> QED
      BY <2>5, <3>1, <3>2
  <2> QED
    BY <1>3, <1>4, <1>6, <2>4, <2>5, <2>6
<1> QED
  BY <1>5, <1>6

(* No later number was known.                                              *)
LEMMA NoneLater ==
  ASSUME StoreOK, AllKeyed, ReportOK, NEW known, known \subseteq 1 .. Len(disk.rows),
         QueriedOK(known), report.pc = "sections", NEW b \in Basis,
         NEW j \in known \cap Newest(Seen(Generator)),
         Seen(Generator).rows[j].says.metric = Here.metric,
         Numeric(Seen(Generator).rows[j].says.value), Period(Seen(Generator), j) <= AsOf
  PROVE  Period(disk, j) <= Period(disk, b)
<1>1. /\ b \in OfSection /\ b \in ReadRows /\ Here.metric \in Monthly \cup Quarterly
      /\ Period(disk, b) \in Nat /\ b \in 1 .. Len(disk.rows)
      /\ Period(Seen(Generator), b) = Period(disk, b)
  BY OneBasis, SectionReads DEF RowsOf
<1>2. /\ j \in 1 .. Len(disk.rows) /\ j \in Newest(disk) /\ Seen(Generator).rows[j] = disk.rows[j]
      /\ Period(Seen(Generator), j) = Period(disk, j)
  BY NewestEarlier, SectionReads
<1>3. Period(disk, j) \in Nat
  BY <1>1, <1>2, SectionReads DEF Newest
<1>4. ASSUME j \in ReadRows PROVE j \in WithNumber(OfSection) /\ j \in OfSection
  BY <1>2, <1>4, SectionReads DEF WithNumber
<1>5. CASE Here.metric \in Monthly
  <2>1. b \in LastOf(WithNumber(OfSection)) /\ InWindow(disk, b)
    BY <1>5, OneBasis
  <2>2. CASE InWindow(disk, j)
    <3>1. j \in ReadRows
      BY <1>2, <1>5, <2>2 DEF QueriedOK, ReadRows
    <3> QED
      BY <1>1, <1>2, <1>4, <2>1, <3>1 DEF LastOf
  <2>3. CASE ~InWindow(disk, j)
    <3> DEFINE y == AsOf \div YearLength
    <3>1. y \in Nat
      BY InsightsAssumption
    <3>2. Period(disk, j) \div YearLength \in Nat /\ Period(disk, b) \div YearLength \in Nat
      <4>1. \A n \in Nat : n \div YearLength \in Nat
        BY InsightsAssumption
      <4> HIDE DEF y
      <4> QED
        BY <1>1, <1>3, <4>1
    <3>3. Period(disk, j) \div YearLength + 1 < y /\ Period(disk, b) \div YearLength + 1 >= y
      BY <2>1, <2>3, <3>1, <3>2 DEF InWindow
    <3> HIDE DEF y
    <3> QED
      BY <1>1, <1>3, <3>1, <3>3, DivGrows
  <2> QED
    BY <2>2, <2>3
<1>6. CASE Here.metric \notin Monthly
  <2>1. b \in LastOf(OfSection) /\ Here.metric \in Quarterly
    BY <1>1, <1>6, OneBasis
  <2>2. j \in ReadRows
    BY <1>2, <2>1 DEF QueriedOK, ReadRows
  <2> QED
    BY <1>1, <1>2, <1>4, <2>1, <2>2 DEF LastOf
<1> QED
  BY <1>5, <1>6

LEMMA ApartWith ==
  ASSUME NEW metric, NEW db, NEW known, NEW last \in metric.refs,
         \A o \in metric.refs :
           /\ db.rows[o].says.metric = metric.says.metric
           /\ Numeric(db.rows[o].says.value) /\ NoneNewer(db, o, known)
           /\ o # last => Period(db, last) - Period(db, o) = YearLength,
         (Cardinality(metric.refs) = 2) = metric.says.change,
         metric.key[2] = Period(db, last),
         \A j \in known \cap Newest(db) :
           /\ db.rows[j].says.metric = metric.says.metric
           /\ Numeric(db.rows[j].says.value)
           /\ Period(db, j) <= AsOf
           => Period(db, j) <= Period(db, last)
  PROVE  YearApart(metric, db, known)
BY DEF YearApart, NoneNewer

LEMMA MetricApart ==
  ASSUME StoreOK, Behind, AllKeyed, ReportOK, NEW known, known \subseteq 1 .. Len(disk.rows),
         QueriedOK(known), report.section \in Nat \ {0}, ReportAddsMetric
  PROVE  YearApart(session'[Generator].row, Seen(Generator), known)
<1> DEFINE row == session'[Generator].row
           db == Seen(Generator)
<1>1. /\ row.refs = Inputs /\ row.key = SectionKey /\ ValidRefs(db, "derived_metric", Inputs)
      /\ row.says = [metric |-> Here.metric, change |-> Here.change, value |-> Computed(Inputs)]
  BY VersionedIs, Distinct DEF ReportAddsMetric, AddDerivedMetric, Behind
<1>2. row.says.metric = Here.metric /\ row.says.change = Here.change
  BY <1>1
<1>3. report.pc = "sections" /\ Inputs # {} /\ Here.change \in BOOLEAN
  BY <1>1, HereIsASection DEF ReportAddsMetric, ReportAt, ValidRefs
<1>4. PICK b \in Basis :
        /\ Basis = {b} /\ b \in Inputs /\ Inputs \subseteq WithNumber(OfSection)
        /\ \A o \in Inputs : o # b => Period(disk, b) - Period(disk, o) = YearLength
        /\ (Cardinality(Inputs) = 2) = Here.change
  BY <1>3, InputsAre
<1> HIDE DEF row
<1>5. ASSUME NEW o \in Inputs
      PROVE  /\ o \in ReadRows /\ o \in 1 .. Len(disk.rows) /\ Period(db, o) = Period(disk, o)
             /\ db.rows[o].says.metric = Here.metric /\ Numeric(db.rows[o].says.value)
             /\ NoneNewer(db, o, known)
  <2>1. o \in OfSection /\ Numeric(db.rows[o].says.value)
    BY <1>4 DEF WithNumber
  <2>2. o \in ReadRows /\ disk.rows[o].says.metric = Here.metric
    BY <2>1, SectionReads
  <2>3. o \in 1 .. Len(disk.rows) /\ db.rows[o] = disk.rows[o] /\ Period(db, o) = Period(disk, o)
    BY <2>2, SectionReads DEF RowsOf
  <2>4. NoneNewer(db, o, known)
    BY <2>2, <2>3, SectionReads, NoneNewerLater DEF QueriedOK
  <2> QED
    BY <2>1, <2>2, <2>3, <2>4
<1>6. row.key[2] = Period(db, b)
  <2> DEFINE c == CHOOSE i \in Basis : TRUE
             name == Here.name
             period == Period(db, c)
  <2>1. c = b
    BY <1>4
  <2>2. row.key = <<name, period>>
    BY <1>1 DEF SectionKey
  <2>3. period = Period(db, b)
    BY <2>1
  <2> HIDE DEF c, name, period
  <2> QED
    BY <2>2, <2>3
<1>7. ASSUME NEW j \in known \cap Newest(db), db.rows[j].says.metric = Here.metric,
             Numeric(db.rows[j].says.value), Period(db, j) <= AsOf
      PROVE  Period(db, j) <= Period(db, b)
  <2>1. Period(disk, j) <= Period(disk, b)
    BY <1>3, <1>7, NoneLater
  <2>2. j \in 1 .. Len(disk.rows)
    OBVIOUS
  <2> QED
    BY <1>4, <1>5, <2>1, <2>2, SectionReads
<1>8. \A o \in Inputs : o # b => Period(db, b) - Period(db, o) = YearLength
  BY <1>4, <1>5
<1>9. Cardinality(row.refs) = Cardinality(Inputs)
  BY <1>1
<1> HIDE DEF db
<1>10. YearApart(row, db, known)
  BY <1>1, <1>2, <1>4, <1>5, <1>6, <1>7, <1>8, <1>9, ApartWith
<1> QED
  BY <1>10 DEF row, db

(* All along: the metrics that the report has added, and committed.        *)
Apart(row, db, known) == row.type = "derived_metric" => YearApart(row, db, known)

AddedApart(known) ==
  LET db == Seen(Generator)
  IN  /\ \A i \in Len(disk.rows) + 1 .. Len(db.rows) : Apart(db.rows[i], db, known)
      /\ session[Generator].pc = "ready" => Apart(session[Generator].row, db, known)

CommittedApart(known) ==
  \A i \in 1 .. Len(disk.rows) : i \in known \/ Apart(disk.rows[i], disk, known)

ApartOK(known) == QueriedOK(known) /\ AddedApart(known) /\ CommittedApart(known)

Known == 1 .. Len(audit[Generator].since.rows)

ReportShape ==
  /\ report.section \in Nat \ {0}
  /\ report.pc \notin {"querying", "sections"} => report.monthly = {}
  /\ report.pc # "sections" => report.quarterly = {}

YearOK ==
  /\ OneCommand /\ ReportShape
  /\ report.pc # "off" => AllKeyed /\ (Audited => ApartOK(Known))

----------------------------------------------------------------------------
LEMMA NewestUnique ==
  ASSUME NEW db, InOrder(db), Keyed(db), NEW o \in Newest(db), NEW p \in Newest(db),
         db.rows[o].says.metric \in Monthly \cup Quarterly,
         db.rows[o].says.metric = db.rows[p].says.metric, Period(db, o) = Period(db, p)
  PROVE  o = p
<1>1. o \in RowsOf(db, {"observation"}) /\ p \in RowsOf(db, {"observation"})
  BY DEF Newest
<1>2. /\ o \in 1 .. Len(db.rows) /\ p \in 1 .. Len(db.rows)
      /\ db.rows[o].type = "observation" /\ db.rows[p].type = "observation"
  BY <1>1 DEF RowsOf
<1>3. db.rows[o].key = db.rows[p].key
  BY <1>2 DEF Keyed, InSeries, Period
<1>4. /\ p \in VersionsOf(db, "observation", db.rows[o].key)
      /\ o \in VersionsOf(db, "observation", db.rows[p].key)
  BY <1>2, <1>3 DEF VersionsOf
<1>5. db.rows[o].version <= db.rows[p].version /\ db.rows[p].version <= db.rows[o].version
  BY <1>4 DEF Newest
<1>6. db.rows[o].version \in 1 .. o /\ db.rows[p].version \in 1 .. p
  BY <1>2 DEF InOrder
<1>7. db.rows[o].version = db.rows[p].version
  BY <1>5, <1>6
<1> QED
  BY <1>2, <1>4, <1>7 DEF Keyed

LEMMA NewestHasNoNewer ==
  ASSUME NEW db, InOrder(db), NEW o \in Newest(db), NEW known
  PROVE  NoneNewer(db, o, known)
<1> SUFFICES ASSUME NEW j \in VersionsOf(db, "observation", db.rows[o].key),
                    db.rows[j].version > db.rows[o].version
             PROVE  FALSE
  BY DEF NoneNewer
<1>1. db.rows[j].version <= db.rows[o].version
  BY DEF Newest
<1>2. o \in 1 .. Len(db.rows) /\ j \in 1 .. Len(db.rows)
  BY DEF Newest, RowsOf, VersionsOf
<1>3. db.rows[j].version \in 1 .. j /\ db.rows[o].version \in 1 .. o
  BY <1>2 DEF InOrder
<1> QED
  BY <1>1, <1>3

LEMMA QueriedLater ==
  ASSUME StoreOK, StoreOK', DiskOnlyGrows, ReportOK, NEW known, known \subseteq 1 .. Len(disk.rows),
         QueriedOK(known), report'.pc = report.pc, report'.monthly = report.monthly,
         report'.quarterly = report.quarterly
  PROVE  QueriedOK(known)'
<1>1. /\ Len(disk.rows) \in Nat /\ Len(disk'.rows) \in Nat /\ Extends(disk'.rows, disk.rows)
  BY KeptTables DEF StoreOK, DiskOnlyGrows
<1>2. \A i \in 1 .. Len(disk.rows) :
        /\ disk'.rows[i] = disk.rows[i] /\ Period(disk', i) = Period(disk, i)
        /\ InWindow(disk', i) <=> InWindow(disk, i)
  BY <1>1 DEF Extends, Period, InWindow
<1>3. ReadRows' = ReadRows /\ \A o \in ReadRows : o \in 1 .. Len(disk.rows)
  BY DEF ReadRows, ReportOK, RowsOf
<1>4. \A o \in ReadRows : NoneNewer(disk', o, known)
  BY <1>1, <1>3, NoneNewerLater DEF QueriedOK
<1>5. \A j \in known \cap Newest(disk') : j \in known \cap Newest(disk) /\ j \in 1 .. Len(disk.rows)
  BY <1>1, NewestEarlier
<1>6. /\ \A o \in report'.monthly : disk'.rows[o].says.metric \in Monthly /\ InWindow(disk', o)
      /\ \A o \in report'.quarterly : disk'.rows[o].says.metric \in Quarterly
  BY <1>2, <1>3 DEF QueriedOK, ReadRows
<1>7. \A o, p \in ReadRows :
        disk'.rows[o].says.metric = disk'.rows[p].says.metric /\ Period(disk', o) = Period(disk', p)
        => o = p
  BY <1>2, <1>3 DEF QueriedOK
<1>8. report.pc \in {"querying", "sections"} =>
        \A j \in known \cap Newest(disk') :
          disk'.rows[j].says.metric \in Monthly /\ InWindow(disk', j) /\ Period(disk', j) <= AsOf
          => j \in report.monthly
  BY <1>2, <1>5 DEF QueriedOK
<1>9. report.pc = "sections" =>
        \A j \in known \cap Newest(disk') :
          disk'.rows[j].says.metric \in Quarterly /\ Period(disk', j) <= AsOf => j \in report.quarterly
  BY <1>2, <1>5 DEF QueriedOK
<1> QED
  BY <1>3, <1>4, <1>6, <1>7, <1>8, <1>9 DEF QueriedOK

(* The two SELECTs.                                                        *)
LEMMA MonthlyQueried ==
  ASSUME Behind, ReportShape, ReportOK, InOrder(disk), Keyed(disk), NEW known, ReportQueriesMonthly
  PROVE  QueriedOK(known)'
<1>1. /\ disk' = disk /\ report.pc = "new" /\ report'.pc = "querying"
      /\ report'.monthly = QueriedMonthly(Seen(Generator)) /\ report'.quarterly = report.quarterly
  BY DEF ReportQueriesMonthly, auditVars, Behind
<1>2. Seen(Generator) = disk
  BY <1>1 DEF ReportOK, Seen
<1>3. report'.quarterly = {} /\ ReadRows' = QueriedMonthly(disk)
  BY <1>1, <1>2 DEF ReportShape, ReadRows
<1>4. \A o \in QueriedMonthly(disk) : /\ o \in Newest(disk) /\ disk.rows[o].says.metric \in Monthly
                                      /\ InWindow(disk, o)
  BY DEF QueriedMonthly, InWindow
<1>5. \A o \in QueriedMonthly(disk) : NoneNewer(disk, o, known)
  BY <1>4, NewestHasNoNewer
<1>6. \A o, p \in QueriedMonthly(disk) :
        disk.rows[o].says.metric = disk.rows[p].says.metric /\ Period(disk, o) = Period(disk, p)
        => o = p
  BY <1>4, NewestUnique
<1>7. \A j \in known \cap Newest(disk) :
        disk.rows[j].says.metric \in Monthly /\ InWindow(disk, j) /\ Period(disk, j) <= AsOf
        => j \in QueriedMonthly(disk)
  BY DEF QueriedMonthly, InWindow
<1> QED
  BY <1>1, <1>2, <1>3, <1>4, <1>5, <1>6, <1>7 DEF QueriedOK

LEMMA QuarterlyQueried ==
  ASSUME StoreOK, Behind, ReportOK, InOrder(disk), Keyed(disk), NEW known, QueriedOK(known),
         report.quarterly = {}, ReportQueriesQuarterly
  PROVE  QueriedOK(known)'
<1>1. /\ disk' = disk /\ report.pc = "querying" /\ report'.pc = "sections"
      /\ report'.quarterly = QueriedQuarterly(Seen(Generator)) /\ report'.monthly = report.monthly
  BY DEF ReportQueriesQuarterly, auditVars, Behind
<1>2. Seen(Generator) = disk
  BY <1>1 DEF ReportOK, Seen
<1> DEFINE found == QueriedQuarterly(disk)
<1>3. ReadRows' = report.monthly \cup found /\ ReadRows = report.monthly
  BY <1>1, <1>2 DEF ReadRows
<1>4. \A o \in found : o \in Newest(disk) /\ disk.rows[o].says.metric \in Quarterly
  BY DEF QueriedQuarterly
<1>5. \A o \in found : NoneNewer(disk, o, known)
  BY <1>4, NewestHasNoNewer
<1>6. \A o, p \in found :
        disk.rows[o].says.metric = disk.rows[p].says.metric /\ Period(disk, o) = Period(disk, p)
        => o = p
  BY <1>4, NewestUnique
<1>7. \A o \in report.monthly : disk.rows[o].says.metric \in Monthly /\ InWindow(disk, o)
                                /\ NoneNewer(disk, o, known)
  BY <1>3 DEF QueriedOK
<1>8. \A o, p \in report.monthly \cup found :
        disk.rows[o].says.metric = disk.rows[p].says.metric /\ Period(disk, o) = Period(disk, p)
        => o = p
  <2>1. \A o, p \in report.monthly :
          disk.rows[o].says.metric = disk.rows[p].says.metric /\ Period(disk, o) = Period(disk, p)
          => o = p
    BY <1>3 DEF QueriedOK
  <2> QED
    BY <1>4, <1>6, <1>7, <2>1, InsightsAssumption
<1>9. \A j \in known \cap Newest(disk) :
        disk.rows[j].says.metric \in Quarterly /\ Period(disk, j) <= AsOf => j \in found
  BY DEF QueriedQuarterly
<1>10. \A j \in known \cap Newest(disk) :
        disk.rows[j].says.metric \in Monthly /\ InWindow(disk, j) /\ Period(disk, j) <= AsOf
        => j \in report.monthly
  BY <1>1 DEF QueriedOK
<1> HIDE DEF found
<1>11. report'.quarterly = found
  BY <1>1, <1>2 DEF found
<1> QED
  BY <1>1, <1>3, <1>4, <1>5, <1>7, <1>8, <1>9, <1>10, <1>11 DEF QueriedOK

LEMMA QueriedNow ==
  ASSUME StoreOK, StoreOK', DiskOnlyGrows, Behind, InOrder(disk), Keyed(disk), ReportOK, ReportShape,
         NEW known, known \subseteq 1 .. Len(disk.rows), QueriedOK(known),
         ReportStep \/ report' = report
  PROVE  QueriedOK(known)'
<1>1. CASE ReportQueriesMonthly
  BY <1>1, MonthlyQueried
<1>2. CASE ReportQueriesQuarterly
  BY <1>2, QuarterlyQueried DEF ReportQueriesQuarterly, ReportShape
<1>3. CASE ReportCommits \/ ReportFails
  <2>1. /\ report'.pc \in {"reported", "failed"} /\ report'.monthly = {} /\ report'.quarterly = {}
    BY <1>3 DEF ReportCommits, ReportFails, ReportOff
  <2> QED
    BY <2>1 DEF QueriedOK, ReadRows
<1>4. CASE \/ ReportSkipsSection \/ ReportAddsMetric \/ ReportAddsClaim \/ ReportAddsEvidence
  <2>1. /\ report'.pc = report.pc /\ report'.monthly = report.monthly
        /\ report'.quarterly = report.quarterly
    BY <1>4 DEF Behind, ReportSkipsSection, ReportAddsMetric, ReportAddsClaim, ReportAddsEvidence,
                NextPart, NextSection
  <2> QED
    BY <2>1, QueriedLater
<1>5. CASE report' = report
  BY <1>5, QueriedLater
<1> QED
  BY <1>1, <1>2, <1>3, <1>4, <1>5 DEF ReportStep

LEMMA ApartKept ==
  ASSUME NEW later, NEW earlier, Len(later.rows) \in Nat, Len(earlier.rows) \in Nat,
         Extends(later.rows, earlier.rows), NEW known, known \subseteq 1 .. Len(earlier.rows),
         NEW row, row.refs \subseteq 1 .. Len(earlier.rows), Apart(row, earlier, known)
  PROVE  Apart(row, later, known)
BY ApartLater DEF Apart

(* What the report adds.                                                   *)
LEMMA AddedGrows ==
  ASSUME StoreOK, StoreOK', AllInOrder, NEW known, known \subseteq 1 .. Len(disk.rows),
         AddedApart(known), Insert(Generator)
  PROVE  AddedApart(known)'
<1> USE Distinct
<1> DEFINE old == Seen(Generator)
           new == Seen(Generator)'
           N == Len(old.rows)
<1>1. /\ disk' = disk /\ session[Generator].pc = "ready" /\ session'[Generator].pc = "inserted"
      /\ Len(new.rows) = N + 1 /\ \A i \in 1 .. N : new.rows[i] = old.rows[i]
      /\ new.rows[N + 1] = session[Generator].row
  BY InsertFacts
<1>2. /\ N \in Nat /\ Len(disk.rows) \in Nat /\ Len(disk.rows) <= N
      /\ InOrder(old) /\ RowFits(session[Generator].row, old)
  BY <1>1, SeenKept, KeptTables, ConstantsAssumption DEF StoreOK, AllInOrder, SessionInOrder, Extends
<1>3. Extends(new.rows, old.rows) /\ Len(new.rows) \in Nat /\ known \subseteq 1 .. N
  BY <1>1, <1>2 DEF Extends
<1>4. ASSUME NEW i \in Len(disk.rows) + 1 .. N + 1
      PROVE  Apart(new.rows[i], old, known) /\ new.rows[i].refs \subseteq 1 .. N
  <2>1. CASE i = N + 1
    BY <1>1, <1>2, <2>1 DEF AddedApart, RowFits
  <2>2. CASE i # N + 1
    <3>1. i \in Len(disk.rows) + 1 .. N /\ i \in 1 .. N
      BY <1>2, <2>2
    <3>2. old.rows[i].refs \subseteq 1 .. i - 1
      BY <1>2, <3>1 DEF InOrder
    <3>3. old.rows[i].refs \subseteq 1 .. N
      BY <1>2, <3>1, <3>2
    <3> QED
      BY <1>1, <3>1, <3>3 DEF AddedApart
  <2> QED
    BY <2>1, <2>2
<1>5. \A i \in Len(disk.rows) + 1 .. N + 1 : Apart(new.rows[i], new, known)
  BY <1>2, <1>3, <1>4, ApartKept
<1> QED
  BY <1>1, <1>5 DEF AddedApart

LEMMA AddedStays ==
  ASSUME StoreOK, StoreOK', Behind, AllKeyed, AllInOrder, ReportOK, report.section \in Nat \ {0},
         NEW known, known \subseteq 1 .. Len(disk.rows), QueriedOK(known), AddedApart(known),
         NEW s \in Sessions, ActsOn(s)
  PROVE  AddedApart(known)'
<1> USE Distinct
<1>1. /\ Len(disk.rows) \in Nat /\ Len(disk'.rows) \in Nat /\ Extends(disk'.rows, disk.rows)
      /\ Len(Seen(Generator).rows) \in Nat
  BY ActsFrame, SeenKept, KeptTables, ConstantsAssumption DEF StoreOK, Frame, DiskOnlyGrows
<1>2. ASSUME Seen(Generator)' = disk', session'[Generator].pc # "ready" PROVE AddedApart(known)'
  BY <1>1, <1>2 DEF AddedApart
<1>3. CASE s = Generator
  <2>1. CASE Adds(s)
    <3>1. /\ disk' = disk /\ Seen(Generator)' = Seen(Generator)
          /\ session'[Generator].row.type = "derived_metric" => ReportAddsMetric
      BY <1>3, <2>1, AddFacts DEF Adds
    <3>2. Apart(session'[Generator].row, Seen(Generator), known)
      BY <3>1, MetricApart DEF Apart
    <3> QED
      BY <3>1, <3>2 DEF AddedApart
  <2>2. CASE Insert(s)
    BY <1>3, <2>2, AddedGrows
  <2>3. CASE AppendEvent(s) \/ AppendRaises(s)
    <3>1. /\ disk' = disk /\ Seen(Generator)'.rows = Seen(Generator).rows
          /\ session'[Generator].pc # "ready"
      BY <1>3, <2>3, AppendFacts, RaiseFacts DEF AfterException
    <3>2. /\ InOrder(Seen(Generator))
          /\ Extends(Seen(Generator)'.rows, Seen(Generator).rows)
          /\ known \subseteq 1 .. Len(Seen(Generator).rows)
      BY <1>1, <3>1, SeenKept, ExtendsReflexive, ConstantsAssumption
      DEF AllInOrder, SessionInOrder, Extends
    <3>3. ASSUME NEW i \in Len(disk.rows) + 1 .. Len(Seen(Generator).rows)
          PROVE  Apart(Seen(Generator)'.rows[i], Seen(Generator)', known)
      <4>1. Seen(Generator).rows[i].refs \subseteq 1 .. Len(Seen(Generator).rows)
        <5>1. Seen(Generator).rows[i].refs \subseteq 1 .. i - 1
          BY <1>1, <3>2 DEF InOrder
        <5> QED
          BY <1>1, <5>1
      <4>2. Apart(Seen(Generator).rows[i], Seen(Generator), known)
        BY DEF AddedApart
      <4>3. Len(Seen(Generator)'.rows) \in Nat
        BY <1>1, <3>1
      <4>4. Apart(Seen(Generator).rows[i], Seen(Generator)', known)
        BY <1>1, <3>2, <4>1, <4>2, <4>3, ApartKept
      <4> QED
        BY <3>1, <4>4
    <3> QED
      BY <3>1, <3>3 DEF AddedApart
  <2>4. CASE FlushFails(s) \/ Close(s)
    BY <1>2, <1>3, <2>4, DiscardFacts
  <2>5. CASE Commit(s)
    BY <1>2, <1>3, <2>5, CommitFacts
  <2> QED
    BY <2>1, <2>2, <2>3, <2>4, <2>5 DEF ActsOn, Flush, Events
<1>4. CASE s # Generator
  <2>1. /\ session'[Generator] = session[Generator]
        /\ lock = Generator => Seen(Generator)' = Seen(Generator) /\ disk' = disk
        /\ lock # Generator => Seen(Generator) = disk /\ Seen(Generator)' = disk'
    BY <1>4, ActsFrame, OthersSee
  <2>2. CASE lock = Generator
    BY <2>1, <2>2 DEF AddedApart
  <2>3. CASE lock # Generator
    <3>1. session[Generator].pc = "ready" => Apart(session[Generator].row, disk', known)
      BY <1>1, <2>1, <2>3, ApartKept DEF AddedApart, AllInOrder, SessionInOrder, RowFits
    <3> QED
      BY <1>1, <2>1, <2>3, <3>1 DEF AddedApart
  <2> QED
    BY <2>2, <2>3
<1> QED
  BY <1>3, <1>4

(* And what is committed.                                                  *)
LEMMA CommittedStays ==
  ASSUME StoreOK, StoreOK', AllInOrder, WritersOK, NEW known, known \subseteq 1 .. Len(disk.rows),
         AddedApart(known), CommittedApart(known), NEW s \in Sessions, ActsOn(s)
  PROVE  CommittedApart(known)'
<1> USE Distinct
<1>1. /\ Len(disk.rows) \in Nat /\ Len(disk'.rows) \in Nat /\ Extends(disk'.rows, disk.rows)
  BY ActsFrame, KeptTables DEF StoreOK, Frame, DiskOnlyGrows
<1>2. ASSUME NEW i \in 1 .. Len(disk.rows), i \notin known
      PROVE  Apart(disk'.rows[i], disk', known)
  <2>1. disk.rows[i].refs \subseteq 1 .. i - 1
    BY DEF AllInOrder, InOrder
  <2>2. disk.rows[i].refs \subseteq 1 .. Len(disk.rows)
    BY <1>1, <2>1
  <2>3. disk'.rows[i] = disk.rows[i] /\ Apart(disk.rows[i], disk, known)
    BY <1>1, <1>2 DEF Extends, CommittedApart
  <2> QED
    BY <1>1, <2>2, <2>3, ApartKept
<1>3. ASSUME NEW i \in Len(disk.rows) + 1 .. Len(disk'.rows)
      PROVE  Apart(disk'.rows[i], disk', known)
  <2>1. disk' # disk
    BY <1>1
  <2>2. Commit(s)
    BY <2>1, AddFacts, InsertFacts, AppendFacts, RaiseFacts, DiscardFacts DEF ActsOn, Flush, Events
  <2>3. disk' = Seen(s)
    BY <2>2, CommitFacts
  <2>4. OfReport(disk'.rows[i], s)
    BY <2>3 DEF WritersOK, WrittenOK
  <2>5. s = Generator => Apart(disk'.rows[i], disk', known)
    BY <2>3 DEF AddedApart
  <2> QED
    BY <2>4, <2>5 DEF OfReport, Apart
<1>4. ASSUME NEW i \in 1 .. Len(disk'.rows), i \notin known
      PROVE  Apart(disk'.rows[i], disk', known)
  <2>1. CASE i \in 1 .. Len(disk.rows)
    BY <1>2, <1>4, <2>1
  <2>2. CASE i \notin 1 .. Len(disk.rows)
    <3>1. i \in Len(disk.rows) + 1 .. Len(disk'.rows)
      BY <1>1, <2>2
    <3> QED
      BY <1>3, <3>1
  <2> QED
    BY <2>1, <2>2
<1> QED
  BY <1>4 DEF CommittedApart

----------------------------------------------------------------------------
LEMMA ShapeStays ==
  ASSUME Behind, ReportShape, ReportStep \/ report' = report
  PROVE  ReportShape'
<1>1. /\ report = [pc |-> report.pc, monthly |-> report.monthly, quarterly |-> report.quarterly,
                   section |-> report.section, part |-> report.part]
      /\ report.section \in Nat \ {0}
  BY DEF Behind, ReportShape
<1>2. CASE ReportQueriesMonthly \/ ReportQueriesQuarterly
  <2>1. /\ report'.section = report.section /\ report.pc # "sections"
        /\ \/ report'.pc = "querying" /\ report'.quarterly = report.quarterly
           \/ report'.pc = "sections"
    BY <1>1, <1>2 DEF ReportQueriesMonthly, ReportQueriesQuarterly
  <2> QED
    BY <1>1, <2>1 DEF ReportShape
<1>3. CASE ReportCommits \/ ReportFails
  <2>1. PICK pc : report' = [ReportOff EXCEPT !.pc = pc]
    BY <1>3 DEF ReportCommits, ReportFails
  <2>2. report'.section = 1 /\ report'.monthly = {} /\ report'.quarterly = {}
    BY <2>1 DEF ReportOff
  <2> QED
    BY <2>2 DEF ReportShape
<1>4. CASE ReportSkipsSection \/ ReportAddsMetric \/ ReportAddsClaim \/ ReportAddsEvidence
  <2>1. /\ report.pc = "sections" /\ report'.pc = "sections"
        /\ report'.section \in {report.section, report.section + 1}
    BY <1>1, <1>4 DEF ReportSkipsSection, ReportAddsMetric, ReportAddsClaim, ReportAddsEvidence,
                      ReportAt, NextPart, NextSection
  <2> QED
    BY <1>1, <2>1 DEF ReportShape
<1>5. CASE report' = report
  BY <1>5 DEF ReportShape
<1> QED
  BY <1>2, <1>3, <1>4, <1>5 DEF ReportStep

LEMMA ReportMoves ==
  ASSUME [ReportingNext]_reportingVars
  PROVE  ReportStep \/ report' = report
BY DEF ReportingNext, reportingVars, CommandAudits, commandVars, Flushes, HarvesterObserves,
       AnalystChallenges, AnalystRevises, OthersEnd, Writes

(* The audit begins before the report has read or written anything.        *)
LEMMA ApartBegins ==
  ASSUME StoreOK, Behind, ReportOK, ReportShape, report.pc = "new", report' = report,
         UNCHANGED vars, AuditBegins(Generator)
  PROVE  ApartOK(Known)'
<1> USE Distinct
<1>1. /\ lock # Generator /\ session[Generator].pc = "idle"
      /\ report.monthly = {} /\ report.quarterly = {}
  BY DEF ReportOK, ReportShape
<1>2. Seen(Generator) = disk /\ WellKept(disk) /\ disk' = disk /\ session' = session /\ lock' = lock
  BY <1>1 DEF Seen, StoreOK, vars
<1>3. audit'[Generator].since = Snapshot(disk)
  BY <1>2 DEF AuditBegins, Behind, SessionsBehind
<1>4. audit'[Generator].since.rows = disk.rows
  BY <1>2, <1>3, SnapshotKept
<1>5. Known' = 1 .. Len(disk'.rows)
  BY <1>2, <1>4 DEF Known
<1>6. PICK k : k = Known'
  OBVIOUS
<1>7. QueriedOK(k)'
  BY <1>1 DEF QueriedOK, ReadRows
<1>8. Seen(Generator)' = disk' /\ session'[Generator].pc # "ready" /\ Len(disk'.rows) \in Nat
  BY <1>1, <1>2, KeptTables DEF Seen
<1>9. AddedApart(k)'
  BY <1>8 DEF AddedApart
<1>10. CommittedApart(k)'
  BY <1>5, <1>6 DEF CommittedApart
<1> QED
  BY <1>6, <1>7, <1>9, <1>10 DEF ApartOK

LEMMA ApartGoesOn ==
  ASSUME ReportingOK, StoreOK', DiskOnlyGrows, WritersOK, ReportOK, ReportShape, AllKeyed,
         UNCHANGED vars \/ \E s \in Sessions : ActsOn(s), ReportStep \/ report' = report,
         NEW known, known \subseteq 1 .. Len(disk.rows), ApartOK(known)
  PROVE  ApartOK(known)'
<1>1. StoreOK /\ Behind /\ AllInOrder /\ InOrder(disk) /\ Keyed(disk)
  BY DEF ReportingOK, AuditOK, AllInOrder, AllKeyed
<1>2. QueriedOK(known) /\ AddedApart(known) /\ CommittedApart(known)
  BY DEF ApartOK
<1>3. QueriedOK(known)'
  BY <1>1, <1>2, QueriedNow
<1>4. CASE UNCHANGED vars
  <2>1. AddedApart(known)' /\ CommittedApart(known)'
    BY <1>2, <1>4 DEF AddedApart, CommittedApart, Seen, vars
  <2> QED
    BY <1>3, <2>1 DEF ApartOK
<1>5. CASE \E s \in Sessions : ActsOn(s)
  <2>1. PICK s \in Sessions : ActsOn(s)
    BY <1>5
  <2>2. report.section \in Nat \ {0}
    BY DEF ReportShape
  <2>3. AddedApart(known)'
    BY <1>1, <1>2, <2>1, <2>2, AddedStays
  <2>4. CommittedApart(known)'
    BY <1>1, <1>2, <2>1, CommittedStays
  <2> QED
    BY <1>3, <2>3, <2>4 DEF ApartOK
<1> QED
  BY <1>4, <1>5

LEMMA YearStep ==
  ASSUME ReportingOK, LedgeredOK, YearOK, [ReportingNext]_reportingVars
  PROVE  YearOK'
<1>1. /\ StoreOK /\ StoreOK' /\ AuditOK /\ Behind /\ DiskOnlyGrows
      /\ UNCHANGED vars \/ \E s \in Sessions : ActsOn(s)
  BY ReportingStep DEF ReportingOK, AuditOK
<1>2. WritersOK /\ ReportOK /\ (Audited => SinceOK)
  BY DEF LedgeredOK
<1>3. OneCommand /\ ReportShape
  BY DEF YearOK
<1>4. OneCommand' /\ (report'.pc # "off" => report.pc # "off")
  BY <1>3, OneCommandStays
<1>5. (ReportStep \/ report' = report) /\ ReportShape'
  BY <1>1, <1>3, ReportMoves, ShapeStays
<1>6. ASSUME report.pc # "off" PROVE AllKeyed' /\ (Audited' => ApartOK(Known)')
  <2>1. AllKeyed /\ load.pc = "off" /\ (Audited => ApartOK(Known))
    BY <1>3, <1>6 DEF YearOK, OneCommand
  <2>2. AllKeyed'
    <3>1. CASE UNCHANGED vars
      BY <2>1, <3>1 DEF AllKeyed, SessionKeyed, Seen, vars
    <3> QED
      BY <1>1, <2>1, <3>1, KeyedStep
  <2>3. ASSUME Audited' PROVE ApartOK(Known)'
    <3>1. CASE Audited /\ audit'[Generator].since = audit[Generator].since
      <4>1. PICK k : k = Known
        OBVIOUS
      <4>2. Known' = k
        BY <3>1, <4>1 DEF Known
      <4>3. k \subseteq 1 .. Len(disk.rows)
        <5>1. Len(audit[Generator].since.rows) <= Len(disk.rows) /\ Len(disk.rows) \in Nat
          BY <1>1, <1>2, <3>1, KeptTables DEF SinceOK, Extends, StoreOK
        <5>2. Len(audit[Generator].since.rows) \in Nat
          BY <1>2, <3>1 DEF SinceOK
        <5> QED
          BY <4>1, <5>1, <5>2 DEF Known
      <4>4. ApartOK(k)
        BY <2>1, <3>1, <4>1
      <4>5. ApartOK(k)'
        BY <1>1, <1>2, <1>3, <1>5, <2>1, <4>3, <4>4, ApartGoesOn
      <4> QED
        BY <4>2, <4>5
    <3>2. CASE audit'[Generator] = audit[Generator]
      BY <2>3, <3>1, <3>2 DEF Audited
    <3>3. CASE AuditStep(Generator) /\ report.pc = "new" /\ UNCHANGED <<vars, report>>
      <4>1. CASE AuditBegins(Generator)
        BY <1>1, <1>2, <1>3, <3>3, <4>1, ApartBegins
      <4>2. CASE audit[Generator].pc = "reading" /\ audit'[Generator].since = audit[Generator].since
        BY <3>1, <4>2 DEF Audited
      <4> QED
        BY <1>1, <2>3, <3>3, <4>1, <4>2, AuditGoesOn DEF Audited
    <3> QED
      BY <1>1, <2>3, <3>2, <3>3, AuditOfReport DEF Audited
  <2> QED
    BY <2>2, <2>3
<1> QED
  BY <1>4, <1>5, <1>6 DEF YearOK

LEMMA YearStart == ReportingInit => YearOK
<1> SUFFICES ASSUME ReportingInit PROVE YearOK
  OBVIOUS
<1>1. PICK c \in Commands :
        /\ disk \in Found[c]
        /\ report = IF c = "report" THEN ReportNew ELSE ReportOff
        /\ load = IF c = "harvest-universities" THEN LoadNew ELSE LoadOff
  BY DEF ReportingInit
<1>2. /\ lock = None /\ session = [s \in Sessions |-> [pc |-> "idle", row |-> NoRow]]
      /\ audit = [a \in Auditors |-> NewAudit]
  BY DEF ReportingInit, AuditInit
<1>3. Keyed(disk)
  BY <1>1, ReportingAssumption
<1>4. \A s \in Sessions : Seen(s) = disk /\ session[s].pc = "idle"
  BY <1>2, ConstantsAssumption DEF Seen
<1>5. AllKeyed
  BY <1>3, <1>4 DEF AllKeyed, SessionKeyed
<1>6. ~Audited
  BY <1>2, Distinct DEF Audited, NewAudit
<1>7. report = ReportOff \/ report = ReportNew
  BY <1>1
<1>8. report.section = 1 /\ report.monthly = {} /\ report.quarterly = {}
  BY <1>7 DEF ReportOff, ReportNew
<1>9. ReportOff.pc = "off" /\ LoadOff.pc = "off"
  BY DEF ReportOff, LoadOff
<1>10. OneCommand
  BY <1>1, <1>9 DEF OneCommand
<1> QED
  BY <1>5, <1>6, <1>8, <1>10 DEF YearOK, ReportShape

LEMMA YearInvariance == ReportingSpec => [](LedgeredOK /\ YearOK)
<1>1. ReportingInit => YearOK
  BY YearStart
<1>2. ReportingOK /\ LedgeredOK /\ YearOK /\ [ReportingNext]_reportingVars => YearOK'
  BY YearStep
<1> QED
  BY <1>1, <1>2, LedgeredInvariance, PTL DEF ReportingSpec

(* insights_report.py, _latest_numeric and _prior_year: what a report has  *)
(* computed rests on no number that its audit knew to be superseded, a     *)
(* change compares numbers a year apart, and no later number was known -   *)
(* whatever a harvest commits between the audit, the two SELECTs and the   *)
(* commit of the report.                                                   *)
THEOREM MetricsAreYearsApart == ReportingSpec => []NewestYearApart
<1>1. ASSUME LedgeredOK, YearOK PROVE NewestYearApart
  <2> SUFFICES ASSUME report.pc = "reported", NEW i \in Metrics(disk) \ Known
               PROVE  YearApart(disk.rows[i], disk, Known)
    BY DEF NewestYearApart, Known
  <2>1. CommittedApart(Known)
    BY <1>1 DEF LedgeredOK, ReportOK, YearOK, Audited, ApartOK
  <2>2. i \in 1 .. Len(disk.rows) /\ disk.rows[i].type = "derived_metric"
    BY DEF Metrics, RowsOf
  <2> QED
    BY <2>1, <2>2 DEF CommittedApart, Apart
<1> QED
  BY <1>1, YearInvariance, PTL
=============================================================================
