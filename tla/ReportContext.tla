---------------------------- MODULE ReportContext ----------------------------
(***************************************************************************)
(* The context that a report is written from (reporting.py, epistemics.py, *)
(* and the MCP tools that trace a claim): an audit, and for each claim     *)
(* asked for its evidence, the artifacts under it, its challenges and its  *)
(* effective status, each read by a SELECT of its own.                     *)
(***************************************************************************)
EXTENDS EvidenceAudit

CONSTANTS
  Reader,   \* the session of the builder, which writes nothing
  Asked     \* the claims asked for, in order

VARIABLE
  context   \* where the builder is and what it has read of the claims so far

ASSUME ReaderAssumption == Reader \in Auditors \ Sessions

Untraced ==
  [evidence |-> {}, todo |-> {}, supports |-> {}, artifacts |-> {}, challenges |-> {},
   status |-> None]

ContextOff == [pc |-> "off", trace |-> Untraced, traces |-> <<>>]

ContextNew == [ContextOff EXCEPT !.pc = "new"]

ChallengesOf(db, c) == {i \in RowsOf(db, {"challenge"}) : c \in db.rows[i].refs}

LastVersions(db, found) ==
  {i \in found : \A j \in found : db.rows[j].key = db.rows[i].key =>
                                    db.rows[j].version <= db.rows[i].version}

(* Mutant: a challenge once open keeps the claim contested. *)
StatusOfAnyVersion(db, c) ==
  IF \E i \in ChallengesOf(db, c) : db.rows[i].says.status = "open"
    THEN "contested" ELSE db.rows[c].says.status

(* effective_status: the last version of a challenge decides. *)
EffectiveStatus(db, c) ==
  IF \E i \in LastVersions(db, ChallengesOf(db, c)) : db.rows[i].says.status = "open"
    THEN "contested" ELSE db.rows[c].says.status

EvidenceOf(db, c) ==
  UNION {db.rows[e].refs \ {c} : e \in {f \in RowsOf(db, {"evidence_edge"}) :
                                          c \in db.rows[f].refs}}

OfType(db, found, type) == found \cap RowsOf(db, {type})

(* Mutant: the artifacts of the observations that are evidence themselves. *)
DirectArtifacts(db, evidence) ==
  OfType(db, evidence, "source_artifact")
    \cup UNION {db.rows[o].refs : o \in OfType(db, evidence, "observation")}

(* The artifacts that are evidence, or whose observations are evidence or  *)
(* inputs of a metric that is.                                             *)
ArtifactsUnder(db, evidence) ==
  LET inputs == UNION {db.rows[m].refs : m \in OfType(db, evidence, "derived_metric")}
      observations == OfType(db, evidence \cup inputs, "observation")
  IN  OfType(db, evidence, "source_artifact") \cup UNION {db.rows[o].refs : o \in observations}

----------------------------------------------------------------------------
Claim == Asked[Len(context.traces) + 1]

TraceTo(pc, trace) ==
  /\ context' = [context EXCEPT !.pc = pc, !.trace = trace]
  /\ UNCHANGED auditVars

AtNextClaim ==
  /\ \/ context.pc = "new" /\ audit[Reader].pc = "valid"
     \/ context.pc = "next"
  /\ Len(context.traces) < Len(Asked)

(* KeyError: the builder returns nothing. *)
ContextMissesClaim ==
  /\ AtNextClaim
  /\ Claim \notin RowsOf(disk, {"claim"})
  /\ context' = [ContextOff EXCEPT !.pc = "failed"]
  /\ UNCHANGED auditVars

(* The edges of the claim; the claims among its evidence come next. *)
ContextReadsEdges ==
  /\ AtNextClaim
  /\ Claim \in RowsOf(disk, {"claim"})
  /\ LET evidence == EvidenceOf(disk, Claim)
     IN  TraceTo("evidence", [Untraced EXCEPT !.evidence = evidence,
                                              !.todo = OfType(disk, evidence, "claim")])

ContextReadsSupport ==
  /\ context.pc = "evidence" /\ context.trace.todo # {}
  /\ \E c \in context.trace.todo :
       TraceTo("evidence", [context.trace EXCEPT
         !.todo = @ \ {c}, !.supports = @ \cup {<<c, EffectiveStatus(disk, c)>>}])

ContextGetsArtifacts ==
  /\ context.pc = "evidence" /\ context.trace.todo = {}
  /\ TraceTo("artifacts", [context.trace EXCEPT
       !.artifacts = ArtifactsUnder(disk, context.trace.evidence)])

ContextListsChallenges ==
  /\ context.pc = "artifacts"
  /\ TraceTo("challenges", [context.trace EXCEPT !.challenges = ChallengesOf(disk, Claim)])

ContextReadsStatus ==
  /\ context.pc = "challenges"
  /\ context' = [context EXCEPT !.pc = "next", !.trace = Untraced,
       !.traces = Append(@, [context.trace EXCEPT !.status = EffectiveStatus(disk, Claim)])]
  /\ UNCHANGED auditVars

ContextStep ==
  \/ ContextMissesClaim \/ ContextReadsEdges \/ ContextReadsSupport
  \/ ContextGetsArtifacts \/ ContextListsChallenges \/ ContextReadsStatus

----------------------------------------------------------------------------
(* What a claim is shown to be agrees with the challenges shown with it. *)
ShownHonestly(trace, claim, db) ==
  LET Open(i) == db.rows[i].says.status = "open"
  IN  /\ \A i \in trace.challenges \cap LastVersions(db, ChallengesOf(db, claim)) :
           Open(i) => trace.status = "contested"
      /\ trace.status = "contested" =>
           \/ db.rows[claim].says.status = "contested"
           \/ \E i \in LastVersions(db, trace.challenges) : Open(i)
           \/ ChallengesOf(db, claim) # trace.challenges

(* No report strengthens a claim that is under challenge, nor weakens one  *)
(* that is not: a claim shown with an open challenge that still stands is  *)
(* shown contested, and one shown contested was asserted to be or is shown *)
(* with an open challenge, unless a challenge came in while it was being   *)
(* read (reporting.py:44 "Surface open challenges and material caveats").  *)
ContextHonest ==
  \A n \in 1 .. Len(context.traces) : ShownHonestly(context.traces[n], Asked[n], disk)

(* The observations of the evidence, and those that its metrics rest on.   *)
RestsOn(trace, db) ==
  {o \in RowsOf(db, {"observation"}) :
     \/ o \in trace.evidence
     \/ \E m \in trace.evidence \cap RowsOf(db, {"derived_metric"}) : o \in db.rows[m].refs}

(* Every claim in the context comes with the sources of all numbers it     *)
(* rests on, those of its metrics' inputs included.                        *)
SourcesTraced ==
  \A n \in 1 .. Len(context.traces) :
    \A o \in RestsOn(context.traces[n], disk) : disk.rows[o].refs \subseteq context.traces[n].artifacts
=============================================================================
