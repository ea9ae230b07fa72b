-------------------------- MODULE UniversityEvidence --------------------------
(***************************************************************************)
(* The commands harvest-universities and report-universities               *)
(* (university_reports.py, cli.py).  The first loads four sources in one   *)
(* transaction between two audits; the second audits and reads, one SELECT *)
(* after the other, what it reports.                                       *)
(*                                                                         *)
(* Of a response the model keeps the institutions it covers, whether it    *)
(* can be read, and whether a number in it is missing.                     *)
(***************************************************************************)
EXTENDS EvidenceAudit

CONSTANTS
  Loader,     \* the session of harvest-universities
  Viewer,     \* that of report-universities, which writes nothing
  Partners,   \* the configured institutions
  Answers     \* for each feed, the responses it may give

VARIABLES
  load,       \* where harvest-universities is
  view        \* where report-universities is, and what it has read

ASSUME UniversityAssumption ==
  /\ Loader \in Sessions \cap Auditors /\ Loader \notin Swallowers
  /\ Viewer \in Auditors \ Sessions
  /\ Partners # {}

(* In the order of their ingestion. *)
Feeds == <<"completions", "crosswalk", "pseo", "scorecard">>

LoadOff == [pc |-> "off", feed |-> 1, response |-> None, todo |-> {}]

LoadNew == [LoadOff EXCEPT !.pc = "new"]

ViewOff ==
  [pc |-> "off", awards |-> {}, outcomes |-> {}, mappings |-> {}, coverage |-> {}, head |-> 0]

ViewNew == [ViewOff EXCEPT !.pc = "new"]

Feed == Feeds[load.feed]

(* The observation or mapping that a normalizer reads for an institution.  *)
KeyOf(feed, p) == <<feed, p>>

(* Mutant: a response that covers some institutions is good enough. *)
CoversSome(response) == response.covers # {}

CoversPartners(response) == response.covers = Partners

----------------------------------------------------------------------------
LoadStarts ==
  /\ load.pc = "new"
  /\ audit[Loader].pc = "valid"
  /\ load' = [load EXCEPT !.pc = "fetching"]
  /\ UNCHANGED auditVars

(* What PSEO and Scorecard answer is looked at before it is ingested.      *)
LoadFetches ==
  /\ load.pc = "fetching"
  /\ \E response \in Answers[Feed] :
       /\ Feed = "pseo" => response.readable
       /\ load' = [load EXCEPT !.pc = "recording", !.response = response]
  /\ UNCHANGED auditVars

LoadRecords ==
  /\ load.pc = "recording"
  /\ AddSourceArtifact(Loader, [feed |-> Feed])
  /\ load' = [load EXCEPT !.pc = "normalizing"]
  /\ UNCHANGED audit

(* The normalizers raise on what they cannot read; that of Scorecard also  *)
(* refuses a response that does not cover every institution.               *)
LoadNormalizes ==
  /\ load.pc = "normalizing" /\ session[Loader].pc = "idle"
  /\ load.response.readable
  /\ Feed = "scorecard" => CoversPartners(load.response)
  /\ load' = [load EXCEPT !.pc = "adding",
                          !.todo = IF Feed = "pseo" THEN {} ELSE load.response.covers]
  /\ UNCHANGED auditVars

LoadAdds ==
  /\ load.pc = "adding" /\ load.todo # {}
  /\ LET p == CHOOSE q \in load.todo : TRUE
         artifact == RowsOf(Seen(Loader), {"source_artifact"})
         recorded == {CHOOSE a \in artifact : \A b \in artifact : b <= a}
     IN  /\ IF Feed = "crosswalk"
              THEN AddTaxonomyMapping(Loader, KeyOf(Feed, p), recorded, [feed |-> Feed])
              ELSE AddObservation(Loader, KeyOf(Feed, p), recorded,
                                  [metric |-> Feed, period |-> p, value |-> load.response.value])
         /\ load' = [load EXCEPT !.todo = @ \ {p}]
  /\ UNCHANGED audit

(* The completions are compared with the partners once they are recorded.  *)
LoadEndsFeed ==
  /\ load.pc = "adding" /\ load.todo = {} /\ session[Loader].pc = "idle"
  /\ Feed = "completions" => CoversPartners(load.response)
  /\ load.feed < Len(Feeds)
  /\ load' = [load EXCEPT !.pc = "fetching", !.feed = @ + 1, !.response = None]
  /\ UNCHANGED auditVars

(* require_audit once more, inside the transaction. *)
LoadAuditsAgain ==
  /\ load.pc = "adding" /\ load.todo = {} /\ session[Loader].pc = "idle"
  /\ load.feed = Len(Feeds)
  /\ AuditAgain(Loader)
  /\ load' = [load EXCEPT !.pc = "audited", !.response = None]

(* Mutant: the audit before the load is taken to be enough. *)
LoadCommitsAtOnce ==
  /\ load.pc = "audited"
  /\ Commit(Loader)
  /\ load' = [LoadOff EXCEPT !.pc = "loaded"]
  /\ UNCHANGED audit

LoadCommits ==
  /\ load.pc = "audited"
  /\ audit[Loader].pc = "valid"
  /\ Commit(Loader)
  /\ load' = [LoadOff EXCEPT !.pc = "loaded"]
  /\ UNCHANGED audit

(* Mutant: the command commits what it has when a source fails. *)
LoadKeepsPart ==
  /\ load.pc \notin {"off", "loaded", "failed"}
  /\ IF session[Loader].pc = "idle" /\ lock = Loader THEN Commit(Loader) ELSE UNCHANGED vars
  /\ load' = [LoadOff EXCEPT !.pc = "failed"]
  /\ UNCHANGED audit

(* An audit that refuses, a source that fails, a response that is not      *)
(* recognized, a flush that fails: the session is left without a commit.   *)
LoadFails ==
  /\ load.pc \notin {"off", "loaded", "failed"}
  /\ AuditLeaves(Loader)
  /\ load' = [LoadOff EXCEPT !.pc = "failed"]

LoadStep ==
  \/ LoadStarts \/ LoadFetches \/ LoadRecords \/ LoadNormalizes \/ LoadAdds
  \/ LoadEndsFeed \/ LoadAuditsAgain \/ LoadCommits \/ LoadFails

----------------------------------------------------------------------------
NewestOf(db, metric) ==
  {i \in RowsOf(db, {"observation"}) :
     /\ db.rows[i].says.metric = metric
     /\ \A j \in VersionsOf(db, "observation", db.rows[i].key) :
          db.rows[j].version <= db.rows[i].version}

ViewReadsAwards ==
  /\ view.pc = "new"
  /\ audit[Viewer].pc = "valid"
  /\ view' = [view EXCEPT !.pc = "awards", !.awards = NewestOf(disk, "completions")]
  /\ UNCHANGED auditVars

ViewReadsOutcomes ==
  /\ view.pc = "awards"
  /\ view' = [view EXCEPT !.pc = "outcomes", !.outcomes = NewestOf(disk, "scorecard")]
  /\ UNCHANGED auditVars

ViewReadsMappings ==
  /\ view.pc = "outcomes"
  /\ view' = [view EXCEPT !.pc = "mappings", !.mappings = RowsOf(disk, {"taxonomy_mapping"})]
  /\ UNCHANGED auditVars

(* The last coverage list of PSEO that was retrieved. *)
ViewReadsCoverage ==
  /\ view.pc = "mappings"
  /\ LET lists == {i \in RowsOf(disk, {"source_artifact"}) : disk.rows[i].says.feed = "pseo"}
     IN  view' = [view EXCEPT !.pc = "coverage",
                              !.coverage = {i \in lists : \A j \in lists : j <= i}]
  /\ UNCHANGED auditVars

(* Mutant: the head that the audit has verified. *)
HeadOfAudit == audit[Viewer].head

(* verify_ledger(session).head_hash, when everything else has been read.   *)
HeadNow == Len(disk.events)

ViewReadsHead ==
  /\ view.pc = "coverage"
  /\ view' = [view EXCEPT !.pc = "reported", !.head = HeadNow]
  /\ UNCHANGED auditVars

ViewStep ==
  \/ ViewReadsAwards \/ ViewReadsOutcomes \/ ViewReadsMappings \/ ViewReadsCoverage
  \/ ViewReadsHead

----------------------------------------------------------------------------
Loaded(feed, db) == \E i \in RowsOf(db, {"source_artifact"}) : db.rows[i].says.feed = feed

Covered(feed, type, db) ==
  \A p \in Partners : \E i \in RowsOf(db, {type}) : db.rows[i].key = KeyOf(feed, p)

WholeLoad(db) ==
  (\E n \in 1 .. Len(Feeds) : Loaded(Feeds[n], db)) =>
    /\ \A n \in 1 .. Len(Feeds) : Loaded(Feeds[n], db)
    /\ Covered("completions", "observation", db)
    /\ Covered("scorecard", "observation", db)

(* A load of the universities is committed as a whole - four sources, and  *)
(* of completions and outcomes every institution - or not at all, whatever *)
(* of it fails and when.                                                   *)
LoadedWhole == WholeLoad(disk)

(* "Refusing university operation with unaudited evidence"                 *)
(* (university_reports.py:57): what the command commits, and all that it   *)
(* builds on, has its events, though rows were committed between the first *)
(* audit and the transaction.                                              *)
CommitsOnlyAudited ==
  [][load.pc # "loaded" /\ load'.pc = "loaded" => RowsLedgered(disk')]_<<auditVars, load>>

(* The head hash of the report vouches for all that it cites: the event of *)
(* every row it has read is under it.  (What has no event is exempt; no    *)
(* session that goes on without one writes what this report reads.)        *)
HeadCoversReport ==
  view.pc = "reported" =>
    \A i \in view.awards \cup view.outcomes \cup view.mappings \cup view.coverage :
      \A n \in 1 .. Len(disk.events) : disk.events[n].body.entity = i => n <= view.head
=============================================================================
