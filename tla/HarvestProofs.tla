--------------------------- MODULE HarvestProofs ---------------------------
(***************************************************************************)
(* Proofs about Harvest, for any plan, any number of harvests on one       *)
(* database and directory, and any number of rows: a harvest uses the      *)
(* database as EvidenceLedger says a session does, no committed row names  *)
(* a file that is not there, an observation cites what it was read in, and *)
(* a harvest has committed what it reports.                                *)
(***************************************************************************)
EXTENDS Harvest, LedgerProofs, FiniteSetTheorems

Artifacts(db) == RowsOf(db, {"source_artifact"})

WithContent == {"storing", "replacing", "recording", "recorded", "observing"}

RunStates == WithContent \cup {"fetching", "reported", "aborted", "dead"}

Results == [status: {"ok", "error", "skipped"}, observations: Nat, own: BOOLEAN]

Tasks == [unit: Nat \ {0}, total: Nat, errors: Nat, own: BOOLEAN]

Runs == [pc: RunStates, results: Seq(Results), task: Tasks,
         content: Contents \cup {None}, todo: Seq(Keys)]

(* The types of run: what a harvest has in hand is a content, and what it  *)
(* is about to record are keys.                                            *)
Typed(r) == r \in Runs /\ (r.pc \in WithContent => r.content \in Contents)

(* The files of the artifacts are there. *)
FilesThere(db) == \A i \in Artifacts(db) : files[db.rows[i].says] = "good"

(* The observations cite artifacts that say what they were read in. *)
Cites(db) ==
  \A i \in ObservationRows(db) : \A a \in db.rows[i].refs :
    a \in Artifacts(db) /\ db.rows[a].says = db.rows[i].says

Sourced(db) == FilesThere(db) /\ Cites(db)

LastArtifact(db, i) == i \in Artifacts(db) /\ \A j \in Artifacts(db) : j <= i

(* The last artifact of the harvest's transaction is the one in hand. *)
InHand(h) ==
  /\ lock = h
  /\ \E i : LastArtifact(work[h], i) /\ work[h].rows[i].says = run[h].content

(* A row that is about to be inserted. *)
ReadyOK(h) ==
  LET row == session[h].row
  IN  /\ row.type = "source_artifact" => files[row.says] = "good"
      /\ row.type = "observation" =>
           /\ lock = h
           /\ \A a \in row.refs :
                a \in Artifacts(work[h]) /\ work[h].rows[a].says = row.says

(* Where a harvest is says what its session has done. *)
HarvestOK(h) ==
  /\ Typed(run[h])
  /\ Sourced(work[h])
  /\ session[h].pc = "ready" => ReadyOK(h)
  /\ run[h].pc = "recording" => files[run[h].content] = "good"
  /\ run[h].pc = "recorded" =>
       \/ session[h].pc = "broken"
       \/ /\ session[h].pc = "ready"
          /\ session[h].row.type = "source_artifact"
          /\ session[h].row.says = run[h].content
       \/ session[h].pc # "ready" /\ InHand(h)
  /\ run[h].pc = "observing" =>
       \/ session[h].pc = "broken"
       \/ /\ session[h].pc = "ready" => session[h].row.type = "observation"
          /\ InHand(h)

Shared ==
  /\ Inv
  /\ files = [c \in Contents |-> files[c]]
  /\ run = [h \in Sessions |-> run[h]]
  /\ Sourced(disk)

HInv == Shared /\ \A h \in Sessions : HarvestOK(h)

----------------------------------------------------------------------------
LEMMA EmptySourced == Sourced(Empty)
<1>1. Artifacts(Empty) = {} /\ ObservationRows(Empty) = {}
  BY DEF Empty, Artifacts, ObservationRows, RowsOf
<1> QED
  BY <1>1 DEF Sourced, FilesThere, Cites

LEMMA HInvStart == HarvestInit => HInv
<1> SUFFICES ASSUME HarvestInit
             PROVE  HInv
  OBVIOUS
<1>1. Inv /\ disk = Empty /\ work = [h \in Sessions |-> Empty]
  BY InvStart DEF HarvestInit, Init
<1>2. Shared
  BY <1>1, EmptySourced DEF Shared, HarvestInit
<1>3. ASSUME NEW h \in Sessions
      PROVE  HarvestOK(h)
  <2>1. run[h] = NewRun /\ session[h].pc = "idle" /\ work[h] = Empty
    BY <1>1 DEF HarvestInit, Init
  <2>2. NewRun.pc = "fetching"
    BY DEF NewRun
  <2>3. Fresh \in Tasks
    BY DEF Fresh, Tasks
  <2>4. NewRun \in Runs
    <3> HIDE DEF Fresh, Tasks, Results
    <3> QED  BY <2>3 DEF NewRun, Runs, RunStates
  <2> QED
    BY <2>1, <2>2, <2>4, EmptySourced DEF HarvestOK, Typed, WithContent
<1> QED
  BY <1>2, <1>3 DEF HInv

(* What a harvest does leaves the others where they are. *)
LEMMA OthersUndisturbed ==
  ASSUME Inv, NEW t \in Sessions, HarvestOK(t), lock' = t <=> lock = t,
         work'[t] = work[t], session'[t] = session[t], run'[t] = run[t],
         \A c \in Contents : files[c] = "good" => files'[c] = "good"
  PROVE  HarvestOK(t)'
<1>1. /\ \A i \in Artifacts(work[t]) : work[t].rows[i].says \in Contents
      /\ session[t].pc = "ready" => session[t].row.says \in Contents
  <2>1. IsDatabase(work[t]) /\ (session[t].pc = "ready" => session[t].row \in Row)
    BY DEF Inv, SessionOK, Sound
  <2>2. \A i \in 1 .. Len(work[t].rows) : work[t].rows[i] \in Row
    BY <2>1, DatabaseFacts
  <2> QED
    BY <2>1, <2>2, RowFacts DEF Artifacts, RowsOf
<1>2. Typed(run[t])'
  BY DEF HarvestOK
<1>3. Sourced(work[t])'
  BY <1>1 DEF HarvestOK, Sourced, FilesThere, Cites, Artifacts, ObservationRows, RowsOf
<1>4. (session[t].pc = "ready" => ReadyOK(t))'
  BY <1>1 DEF HarvestOK, ReadyOK, Artifacts, RowsOf
<1>5. InHand(t) => InHand(t)'
  BY DEF InHand, LastArtifact, Artifacts, RowsOf
<1>6. (run[t].pc = "recording" => files[run[t].content] = "good")'
  BY DEF HarvestOK, Typed, WithContent
<1> QED
  BY <1>2, <1>3, <1>4, <1>5, <1>6 DEF HarvestOK

(* What a step of h needs to keep the invariant. *)
LEMMA OneHarvestSteps ==
  ASSUME HInv, NEW h \in Sessions, Inv',
         \A t \in Sessions \ {h} : lock' = t <=> lock = t,
         \A t \in Sessions \ {h} : work'[t] = work[t],
         \A t \in Sessions \ {h} : session'[t] = session[t],
         NEW new, run' = [run EXCEPT ![h] = new],
         files' = [c \in Contents |-> files'[c]],
         \A c \in Contents : files[c] = "good" => files'[c] = "good",
         Sourced(disk)',
         HarvestOK(h)'
  PROVE  HInv'
<1>1. run' = [t \in Sessions |-> run'[t]] /\ \A t \in Sessions \ {h} : run'[t] = run[t]
  BY DEF HInv, Shared
<1>2. Shared'
  BY <1>1 DEF Shared
<1>3. ASSUME NEW t \in Sessions \ {h}
      PROVE  HarvestOK(t)'
  <2>1. HarvestOK(t) /\ Inv /\ t \in Sessions
    BY DEF HInv, Shared
  <2>2. /\ lock' = t <=> lock = t
        /\ work'[t] = work[t] /\ session'[t] = session[t] /\ run'[t] = run[t]
    BY <1>1
  <2> QED
    BY <2>1, <2>2, OthersUndisturbed
<1> QED
  BY <1>2, <1>3 DEF HInv

----------------------------------------------------------------------------
(* What a session does leaves the other sessions where they are. *)
LEMMA SessionFrame ==
  ASSUME Inv, NEW h \in Sessions,
         RepositoryCall(h) \/ SessionStep(h) \/ UNCHANGED vars
  PROVE  /\ \A t \in Sessions \ {h} : lock' = t <=> lock = t
         /\ \A t \in Sessions \ {h} : work'[t] = work[t]
         /\ \A t \in Sessions \ {h} : session'[t] = session[t]
<1>1. CASE RepositoryCall(h)
  <2>1. PICK row : Prepare(h, row)
    BY <1>1
    DEF RepositoryCall, AddSourceArtifact, AddEvidence, AddClaim, AddObservation,
        AddDerivedMetric, AddTaxonomyMapping, AddChallenge, ReviseChallenge, AddUnversioned,
        AddVersioned
  <2> QED
    BY <2>1, GotoFrame DEF Prepare
<1>2. CASE Insert(h)
  <2>1. \A t \in Sessions \ {h} : session'[t] = session[t]
    BY <1>2 DEF Insert, Goto, Inv, DatabaseOK
  <2>2. \A t \in Sessions \ {h} : work'[t] = work[t]
    BY <1>2 DEF Insert, Inv, DatabaseOK
  <2> QED
    BY <1>2, <2>1, <2>2, ConstantsAssumption DEF Insert
<1>3. CASE AppendEvent(h) \/ AppendRaises(h)
  BY <1>3 DEF AppendEvent, AppendRaises, Goto, Inv, DatabaseOK
<1>4. CASE FlushFails(h) \/ Close(h)
  BY <1>4, ConstantsAssumption DEF FlushFails, Close, Discard, Goto, Inv, DatabaseOK
<1>5. CASE Commit(h)
  BY <1>5, ConstantsAssumption DEF Commit, Inv, DatabaseOK
<1>6. CASE UNCHANGED vars
  BY <1>6 DEF vars
<1> QED
  BY <1>1, <1>2, <1>3, <1>4, <1>5, <1>6 DEF SessionStep

(* A harvest moves on without its session. *)
LEMMA RunMoves ==
  ASSUME HInv, NEW h \in Sessions, NEW new, Typed(new),
         run' = [run EXCEPT ![h] = new], UNCHANGED vars,
         files' = [c \in Contents |-> files'[c]],
         \A c \in Contents : files[c] = "good" => files'[c] = "good",
         new.pc = "recording" => files'[new.content] = "good",
         new.pc # "recorded",
         new.pc = "observing" =>
           new.content = run[h].content /\ session[h].pc # "ready" /\ InHand(h)
  PROVE  HInv'
<1>1. Inv /\ Inv' /\ HarvestOK(h)
  BY InvStep DEF HInv, Shared
<1>2. disk' = disk /\ lock' = lock /\ work' = work /\ session' = session
  BY DEF vars
<1>3. run'[h] = new
  BY DEF HInv, Shared
<1>4. \A db : IsDatabase(db) => \A i \in Artifacts(db) : db.rows[i].says \in Contents
  <2> SUFFICES ASSUME NEW db, IsDatabase(db), NEW i \in Artifacts(db)
               PROVE  db.rows[i].says \in Contents
    OBVIOUS
  <2>1. db.rows[i] \in Row
    BY DatabaseFacts DEF Artifacts, RowsOf
  <2> QED
    BY <2>1, RowFacts
<1>5. IsDatabase(disk) /\ IsDatabase(work[h])
  BY <1>1 DEF Inv, DatabaseOK, SessionOK, Sound
<1>6. Sourced(disk)' /\ Sourced(work[h])'
  <2>1. Sourced(disk) /\ Sourced(work[h])
    BY DEF HInv, Shared, HarvestOK
  <2>2. Sourced(disk)'
    BY <1>2, <1>4, <1>5, <2>1
    DEF Sourced, FilesThere, Cites, Artifacts, ObservationRows, RowsOf
  <2>3. Sourced(work[h])'
    BY <1>2, <1>4, <1>5, <2>1
    DEF Sourced, FilesThere, Cites, Artifacts, ObservationRows, RowsOf
  <2> QED
    BY <2>2, <2>3
<1>7. (session[h].pc = "ready" => ReadyOK(h))'
  <2>1. session[h].pc = "ready" => session[h].row.says \in Contents
    BY <1>1, RowFacts DEF Inv, SessionOK
  <2> QED
    BY <1>1, <1>2, <2>1 DEF HarvestOK, ReadyOK, Artifacts, RowsOf
<1>8. InHand(h) /\ new.content = run[h].content => InHand(h)'
  BY <1>2, <1>3 DEF InHand, LastArtifact, Artifacts, RowsOf
<1>9. HarvestOK(h)'
  BY <1>2, <1>3, <1>6, <1>7, <1>8 DEF HarvestOK
<1>10. UNCHANGED vars => \A t \in Sessions \ {h} :
         (lock' = t <=> lock = t) /\ work'[t] = work[t] /\ session'[t] = session[t]
  BY DEF vars
<1> QED
  BY <1>1, <1>2, <1>6, <1>9, <1>10, OneHarvestSteps DEF HInv, Shared

(* A harvest moves on with a step of its session.                          *)
LEMMA SessionMoves ==
  ASSUME HInv, NEW h \in Sessions, RepositoryCall(h) \/ SessionStep(h),
         NEW new, run' = [run EXCEPT ![h] = new], files' = files,
         Sourced(disk)', HarvestOK(h)'
  PROVE  HInv'
<1>1. Inv /\ Inv'
  BY InvStep DEF HInv, Shared, Next
<1>2. files' = [c \in Contents |-> files'[c]]
  BY DEF HInv, Shared
<1>3. /\ \A t \in Sessions \ {h} : lock' = t <=> lock = t
      /\ \A t \in Sessions \ {h} : work'[t] = work[t]
      /\ \A t \in Sessions \ {h} : session'[t] = session[t]
  BY <1>1, SessionFrame
<1> QED
  BY <1>1, <1>2, <1>3, OneHarvestSteps

LEMMA SourcedStays ==
  ASSUME HInv, NEW h \in Sessions, files' = files, disk' = disk,
         work'[h].rows = work[h].rows
  PROVE  Sourced(disk)' /\ Sourced(work[h])'
<1>1. Sourced(disk) /\ Sourced(work[h])
  BY DEF HInv, Shared, HarvestOK
<1>2. Sourced(disk)'
  BY <1>1 DEF Sourced, FilesThere, Cites, Artifacts, ObservationRows, RowsOf
<1>3. Sourced(work[h])'
  BY <1>1 DEF Sourced, FilesThere, Cites, Artifacts, ObservationRows, RowsOf
<1> QED
  BY <1>2, <1>3

LEMMA CloseMoves ==
  ASSUME HInv, NEW h \in Sessions, NEW new, Typed(new), new.pc \notin WithContent,
         run' = [run EXCEPT ![h] = new], files' = files, CloseSession(h)
  PROVE  HInv'
<1>1. CASE UNCHANGED vars
  <2>1. files' = [c \in Contents |-> files'[c]]
    BY DEF HInv, Shared
  <2> QED
    BY <1>1, <2>1, RunMoves DEF WithContent
<1>2. CASE Close(h)
  <2>1. disk' = disk /\ work'[h] = Empty /\ session'[h].pc = "idle"
    BY <1>2 DEF Close, Discard, HInv, Shared, Inv, DatabaseOK
  <2>2. run'[h] = new
    BY DEF HInv, Shared
  <2>3. Sourced(disk)' /\ Sourced(work[h])'
    BY <2>1, EmptySourced
    DEF HInv, Shared, Sourced, FilesThere, Cites, Artifacts, ObservationRows, RowsOf
  <2>4. HarvestOK(h)'
    BY <2>1, <2>2, <2>3 DEF HarvestOK, WithContent
  <2> QED
    BY <1>2, <2>3, <2>4, SessionMoves DEF SessionStep
<1> QED
  BY <1>1, <1>2 DEF CloseSession

(* later has the rows of db and one more. *)
OneMore(later, db) ==
  /\ Len(db.rows) \in Nat
  /\ Len(later.rows) = Len(db.rows) + 1
  /\ \A i \in 1 .. Len(db.rows) : later.rows[i] = db.rows[i]

LEMMA RowsWithOne ==
  ASSUME NEW db, NEW later, OneMore(later, db), NEW types, NEW i
  PROVE  i \in RowsOf(later, types) <=>
           \/ i \in RowsOf(db, types)
           \/ i = Len(db.rows) + 1 /\ later.rows[i].type \in types
<1> DEFINE n == Len(db.rows)
<1>1. i \in RowsOf(later, types) <=> i \in 1 .. n + 1 /\ later.rows[i].type \in types
  BY DEF RowsOf, OneMore
<1>2. i \in RowsOf(db, types) <=> i \in 1 .. n /\ later.rows[i].type \in types
  BY DEF RowsOf, OneMore
<1>3. i \in 1 .. n + 1 <=> i \in 1 .. n \/ i = n + 1
  BY DEF OneMore
<1>. QED
  BY <1>1, <1>2, <1>3

(* What is inserted is sourced, and is the artifact in hand or cites it.   *)
LEMMA InsertMoves ==
  ASSUME HInv, NEW h \in Sessions, Insert(h), files' = files, run' = run
  PROVE  HInv'
<1> DEFINE db == Seen(h)
           n == Len(db.rows)
           row == session[h].row
           rows == work'[h].rows
<1>1. /\ session[h].pc = "ready" /\ session'[h].pc = "inserted"
      /\ lock' = h /\ disk' = disk
      /\ rows = Append(db.rows, row)
  BY DEF Insert, Goto, HInv, Shared, Inv, DatabaseOK, SessionOK
<1>2. row \in Row /\ IsDatabase(db)
  BY <1>1, SeenSound DEF HInv, Shared, Inv, SessionOK
<1>3. /\ n \in Nat /\ Len(db.rows) = n /\ Len(rows) = n + 1 /\ rows[n + 1] = row
      /\ \A i \in 1 .. n : rows[i] = db.rows[i]
  BY <1>1, <1>2, DatabaseFacts
<1>4. HarvestOK(h) /\ ReadyOK(h) /\ Sourced(db)
  BY <1>1 DEF HInv, Shared, HarvestOK, Seen
<1>5. lock = h => db = work[h]
  BY DEF Seen
<1> HIDE DEF db, n, row
<1>6. /\ Artifacts(work'[h]) =
           Artifacts(db) \cup (IF row.type = "source_artifact" THEN {n + 1} ELSE {})
      /\ ObservationRows(work'[h]) =
           ObservationRows(db) \cup (IF row.type = "observation" THEN {n + 1} ELSE {})
  <2>1. OneMore(work'[h], db) /\ work'[h].rows[n + 1] = row /\ Len(db.rows) = n
    BY <1>3 DEF OneMore
  <2> QED
    BY <2>1, RowsWithOne DEF Artifacts, ObservationRows
<1>7. \A i : i \in Artifacts(db) \/ i \in ObservationRows(db) => i \in 1 .. n
  BY <1>3 DEF Artifacts, ObservationRows, RowsOf
<1>8. FilesThere(work'[h])
  BY <1>3, <1>4, <1>6, <1>7 DEF FilesThere, Sourced, ReadyOK, row
<1>9. Cites(work'[h])
  <2> SUFFICES ASSUME NEW i \in ObservationRows(work'[h]), NEW a \in rows[i].refs
               PROVE  a \in Artifacts(work'[h]) /\ rows[a].says = rows[i].says
    BY DEF Cites
  <2>1. CASE i \in ObservationRows(db)
    <3>1. a \in Artifacts(db) /\ db.rows[a].says = db.rows[i].says
      BY <1>3, <1>4, <1>7, <2>1 DEF Cites, Sourced
    <3> QED
      BY <1>3, <1>6, <1>7, <2>1, <3>1
  <2>2. CASE i = n + 1 /\ row.type = "observation"
    <3>1. a \in Artifacts(db) /\ db.rows[a].says = row.says
      BY <1>3, <1>4, <1>5, <2>2 DEF ReadyOK, row
    <3> QED
      BY <1>3, <1>6, <1>7, <2>2, <3>1
  <2> QED
    BY <1>6, <2>1, <2>2
<1>10. ASSUME run[h].pc \in {"recorded", "observing"}
       PROVE  \E i : LastArtifact(work'[h], i) /\ rows[i].says = run[h].content
  <2>1. CASE run[h].pc = "recorded"
    <3>1. row.type = "source_artifact" /\ row.says = run[h].content
      BY <1>1, <1>4, <2>1 DEF HarvestOK, row
    <3>2. LastArtifact(work'[h], n + 1)
      BY <1>3, <1>6, <1>7, <3>1 DEF LastArtifact
    <3> QED
      BY <1>3, <3>1, <3>2
  <2>2. CASE run[h].pc = "observing"
    <3>1. row.type = "observation" /\ InHand(h)
      BY <1>1, <1>4, <2>2 DEF HarvestOK, row
    <3>2. PICK i : LastArtifact(db, i) /\ db.rows[i].says = run[h].content
      BY <1>5, <3>1 DEF InHand
    <3>3. LastArtifact(work'[h], i)
      BY <1>6, <3>1, <3>2 DEF LastArtifact
    <3>4. rows[i] = db.rows[i]
      BY <1>3, <1>7, <3>2 DEF LastArtifact
    <3> QED
      BY <3>2, <3>3, <3>4
  <2> QED
    BY <1>10, <2>1, <2>2
<1>11. Sourced(work[h])'
  BY <1>8, <1>9
  DEF Sourced, FilesThere, Cites, Artifacts, ObservationRows, RowsOf
<1>12. HarvestOK(h)'
  <2>1. run[h].pc \in {"recorded", "observing"} => InHand(h)'
    BY <1>1, <1>10 DEF InHand, LastArtifact, Artifacts, RowsOf
  <2> QED
    BY <1>1, <1>4, <1>11, <2>1 DEF HarvestOK
<1>13. Sourced(disk)'
  BY <1>1 DEF HInv, Shared, Sourced, FilesThere, Cites, Artifacts, ObservationRows, RowsOf
<1>14. run' = [run EXCEPT ![h] = run[h]]
  BY DEF HInv, Shared
<1> QED
  BY <1>12, <1>13, <1>14, SessionMoves DEF SessionStep

LEMMA AppendEventMoves ==
  ASSUME HInv, NEW h \in Sessions, AppendEvent(h), files' = files, run' = run
  PROVE  HInv'
<1>1. /\ session[h].pc = "inserted" /\ session'[h].pc = "idle"
      /\ lock' = lock /\ disk' = disk /\ work'[h].rows = work[h].rows
  BY DEF AppendEvent, Goto, HInv, Shared, Inv, DatabaseOK, SessionOK, Sound, IsDatabase
<1>2. HarvestOK(h)
  BY DEF HInv
<1>3. Sourced(disk)' /\ Sourced(work[h])'
  BY <1>1, SourcedStays
<1>4. InHand(h) => InHand(h)'
  BY <1>1 DEF InHand, LastArtifact, Artifacts, RowsOf
<1>5. HarvestOK(h)'
  BY <1>1, <1>2, <1>3, <1>4 DEF HarvestOK
<1>6. run' = [run EXCEPT ![h] = run[h]]
  BY DEF HInv, Shared
<1> QED
  BY <1>3, <1>5, <1>6, SessionMoves DEF SessionStep

LEMMA FlushFailsMoves ==
  ASSUME HInv, NEW h \in Sessions, FlushFails(h), files' = files, run' = run
  PROVE  HInv'
<1>1. session'[h].pc = "broken" /\ disk' = disk /\ work'[h] = Empty
  BY DEF FlushFails, Goto, Discard, HInv, Shared, Inv, DatabaseOK, SessionOK
<1>2. HarvestOK(h)
  BY DEF HInv
<1>3. Sourced(disk)' /\ Sourced(work[h])'
  BY <1>1, EmptySourced
  DEF HInv, Shared, Sourced, FilesThere, Cites, Artifacts, ObservationRows, RowsOf
<1>4. HarvestOK(h)'
  BY <1>1, <1>2, <1>3 DEF HarvestOK
<1>5. run' = [run EXCEPT ![h] = run[h]]
  BY DEF HInv, Shared
<1> QED
  BY <1>3, <1>4, <1>5, SessionMoves DEF SessionStep

----------------------------------------------------------------------------
(* The moves of run. *)
LEMMA RunFacts ==
  ASSUME HInv, NEW h \in Sessions
  PROVE  /\ Typed(run[h])
         /\ run[h] = [pc |-> run[h].pc, results |-> run[h].results, task |-> run[h].task,
                      content |-> run[h].content, todo |-> run[h].todo]
         /\ run[h].pc \in RunStates /\ run[h].results \in Seq(Results) /\ run[h].task \in Tasks
         /\ run[h].content \in Contents \cup {None} /\ run[h].todo \in Seq(Keys)
<1>1. Typed(run[h])
  BY DEF HInv, HarvestOK
<1> HIDE DEF Results, Tasks, RunStates
<1> QED
  BY <1>1 DEF Typed, Runs

LEMMA ToMoves ==
  ASSUME HInv, NEW h \in Sessions, NEW pc \in RunStates, To(h, pc),
         pc \in WithContent => run[h].content \in Contents
  PROVE  \E new :
           /\ Typed(new) /\ run' = [run EXCEPT ![h] = new]
           /\ new.pc = pc /\ new.content = run[h].content
<1> DEFINE new == [run[h] EXCEPT !.pc = pc]
<1>1. run' = [run EXCEPT ![h] = new]
  BY DEF To
<1>2. new.pc = pc /\ new.content = run[h].content /\ new \in Runs
  <2> HIDE DEF Results, Tasks, RunStates
  <2> QED  BY RunFacts DEF Typed, Runs
<1> HIDE DEF new
<1> QED
  BY <1>1, <1>2 DEF Typed

LEMMA NextUnitMoves ==
  ASSUME HInv, NEW h \in Sessions, NEW task \in Tasks, NextUnit(h, task)
  PROVE  \E new : Typed(new) /\ run' = [run EXCEPT ![h] = new] /\ new.pc = "fetching"
<1> DEFINE next == [task EXCEPT !.unit = @ + 1]
           new == [run[h] EXCEPT !.pc = "fetching", !.todo = <<>>, !.content = None,
                                 !.task = next]
<1>1. run' = [run EXCEPT ![h] = new]
  BY DEF NextUnit, HInv, Shared
<1>2. next \in Tasks
  BY DEF Tasks
<1> HIDE DEF next
<1>3. new.pc = "fetching" /\ new \in Runs
  <2>1. "fetching" \in RunStates /\ <<>> \in Seq(Keys)
    BY DEF RunStates
  <2> HIDE DEF Results, Tasks, RunStates
  <2> QED  BY <1>2, <2>1, RunFacts DEF Typed, Runs
<1> HIDE DEF new
<1>4. Typed(new)
  BY <1>3 DEF Typed, WithContent
<1> QED
  BY <1>1, <1>3, <1>4

LEMMA UnitEnds ==
  ASSUME HInv, NEW h \in Sessions,
         \/ NextUnit(h, run[h].task)
         \/ \E own \in BOOLEAN : UnitFails(h, own)
         \/ UnitDone(h) /\ run[h].content \in Contents
  PROVE  \E new : Typed(new) /\ run' = [run EXCEPT ![h] = new] /\ new.pc = "fetching"
<1>1. run[h].task \in Tasks
  BY RunFacts
<1>2. CASE NextUnit(h, run[h].task)
  BY <1>1, <1>2, NextUnitMoves
<1>3. ASSUME NEW own \in BOOLEAN, UnitFails(h, own)
      PROVE  \E new : Typed(new) /\ run' = [run EXCEPT ![h] = new] /\ new.pc = "fetching"
  <2> DEFINE now == run[h].task.own \/ own
             task == [run[h].task EXCEPT !.errors = @ + 1, !.own = now]
  <2>1. now \in BOOLEAN
    OBVIOUS
  <2>2. NextUnit(h, task)
    BY <1>3, Zenon DEF UnitFails
  <2> HIDE DEF now
  <2>3. task \in Tasks
    <3>1. \A was \in Tasks, b \in BOOLEAN :
            /\ [was EXCEPT !.errors = @ + 1] \in Tasks
            /\ [was EXCEPT !.own = b] \in Tasks
      BY DEF Tasks
    <3>2. task = [[run[h].task EXCEPT !.errors = @ + 1] EXCEPT !.own = now]
      BY <1>1 DEF Tasks
    <3> QED
      BY <1>1, <2>1, <3>1, <3>2
  <2> HIDE DEF task
  <2> QED
    BY <2>2, <2>3, NextUnitMoves
<1>4. CASE UnitDone(h) /\ run[h].content \in Contents
  <2> DEFINE task == [run[h].task EXCEPT !.total = @ + Len(ReadsFrom[run[h].content])]
  <2>1. Len(ReadsFrom[run[h].content]) \in Nat
    BY <1>4, PlanAssumption
  <2>2. task \in Tasks
    BY <1>1, <2>1 DEF Tasks
  <2>3. NextUnit(h, task)
    BY <1>4 DEF UnitDone
  <2> HIDE DEF task
  <2> QED
    BY <2>2, <2>3, NextUnitMoves
<1> QED
  BY <1>2, <1>3, <1>4

----------------------------------------------------------------------------
(* The steps of a harvest without its session: each that ends a unit of a  *)
(* task, and the others.                                                   *)
LEMMA FetchingAgain ==
  ASSUME HInv, NEW h \in Sessions, UNCHANGED <<vars, files>>,
         NEW new, Typed(new), run' = [run EXCEPT ![h] = new], new.pc = "fetching"
  PROVE  HInv'
<1>1. files' = [c \in Contents |-> files'[c]]
  BY DEF HInv, Shared
<1> QED
  BY <1>1, RunMoves

LEMMA UnitSteps ==
  ASSUME HInv, NEW h \in Sessions,
         \/ FetchNothing(h) \/ FetchFails(h) \/ FindCorrupt(h) \/ StoreFails(h)
         \/ Ingested(h) \/ CaughtBroken(h)
         \/ Normalize(h) /\ run[h].content \in Unreadable
  PROVE  HInv'
<1>1. UNCHANGED <<vars, files>>
  BY DEF FetchNothing, FetchFails, FindCorrupt, StoreFails, Ingested, CaughtBroken, Normalize
<1>2. \/ NextUnit(h, run[h].task)
      \/ \E own \in BOOLEAN : UnitFails(h, own)
      \/ UnitDone(h) /\ run[h].content \in Contents
  <2>1. CASE FetchNothing(h)
    BY <2>1 DEF FetchNothing
  <2>2. CASE FetchFails(h) \/ FindCorrupt(h) \/ StoreFails(h)
    BY <2>2 DEF FetchFails, FindCorrupt, StoreFails
  <2>3. CASE Ingested(h)
    BY <2>3, RunFacts DEF Ingested, At, Typed, WithContent
  <2>4. CASE CaughtBroken(h)
    <3>1. (~At(h, "recording")) \in BOOLEAN
      OBVIOUS
    <3> QED
      BY <2>4, <3>1, Zenon DEF CaughtBroken
  <2>5. CASE Normalize(h) /\ run[h].content \in Unreadable
    BY <2>5 DEF Normalize
  <2> QED
    BY <2>1, <2>2, <2>3, <2>4, <2>5
<1> QED
  BY <1>1, <1>2, UnitEnds, FetchingAgain

(* A task that ends has a result. *)
LEMMA TaskResult ==
  ASSUME NEW task \in Tasks
  PROVE  /\ [status |-> Status(task), observations |-> task.total, own |-> task.own] \in Results
         /\ [status |-> Status(task), observations |-> task.total, own |-> task.own].observations
              = task.total
<1> DEFINE status == Status(task)
           total == task.total
           own == task.own
<1>1. status \in {"ok", "error", "skipped"} /\ total \in Nat /\ own \in BOOLEAN
  BY DEF Status, Tasks
<1> HIDE DEF status, total, own
<1>2. [status |-> status, observations |-> total, own |-> own] \in Results
  BY <1>1 DEF Results
<1> QED
  BY <1>2 DEF status, total, own

LEMMA TaskEndsStep ==
  ASSUME HInv, NEW h \in Sessions, TaskEnds(h)
  PROVE  HInv'
<1> DEFINE task == run[h].task
           result == [status |-> Status(task), observations |-> task.total, own |-> task.own]
           new == [run[h] EXCEPT !.results = Append(@, result), !.task = Fresh]
<1>1. run' = [run EXCEPT ![h] = new] /\ UNCHANGED <<vars, files>> /\ run[h].pc = "fetching"
  BY DEF TaskEnds, At, HInv, Shared
<1>2. task \in Tasks /\ Fresh \in Tasks
  <2>1. Fresh \in Tasks
    BY DEF Fresh, Tasks
  <2> QED
    BY <2>1, RunFacts
<1>5. result \in Results
  BY <1>2, TaskResult
<1> HIDE DEF task
<1> HIDE DEF result
<1>6. new \in Runs /\ new.pc = "fetching"
  <2> HIDE DEF Results, Tasks, RunStates, Fresh
  <2>1. run[h].results \in Seq(Results)
    BY RunFacts
  <2>2. Append(run[h].results, result) \in Seq(Results)
    BY <1>5, <2>1
  <2> QED
    BY <1>1, <1>2, <2>2, RunFacts DEF Typed, Runs
<1> HIDE DEF new
<1>7. Typed(new)
  BY <1>6 DEF Typed, WithContent
<1> QED
  BY <1>1, <1>6, <1>7, FetchingAgain

LEMMA FetchStep ==
  ASSUME HInv, NEW h \in Sessions, Fetch(h)
  PROVE  HInv'
<1>1. PICK c \in Units(h)[run[h].task.unit] :
        run' = [run EXCEPT ![h].pc = "storing", ![h].content = c]
  BY DEF Fetch
<1>2. c \in Contents
  <2>1. run[h].results \in Seq(Results) /\ run[h].task \in Tasks
    BY RunFacts
  <2>2. Len(run[h].results) \in Nat /\ run[h].task.unit \in Nat \ {0}
    <3>1. Len(run[h].results) \in Nat
      <4> HIDE DEF Results
      <4> QED  BY <2>1
    <3> QED
      BY <2>1, <3>1 DEF Tasks
  <2>3. /\ Len(run[h].results) + 1 \in 1 .. Len(Plan)
        /\ run[h].task.unit \in 1 .. Len(Units(h))
    <3>1. Len(run[h].results) < Len(Plan) /\ run[h].task.unit <= Len(Units(h))
      BY DEF Fetch, Requesting
    <3>2. Len(run[h].results) + 1 \in 1 .. Len(Plan)
      BY <2>2, <3>1, PlanAssumption
    <3>3. Units(h) \in Seq(SUBSET Contents)
      BY <3>2, PlanAssumption DEF Units
    <3> QED
      BY <2>2, <3>1, <3>2, <3>3
  <2>4. Units(h) \in Seq(SUBSET Contents)
    BY <2>3, PlanAssumption DEF Units
  <2> QED
    BY <2>3, <2>4
<1> DEFINE new == [run[h] EXCEPT !.pc = "storing", !.content = c]
<1>3. run' = [run EXCEPT ![h] = new]
  BY <1>1 DEF HInv, Shared
<1>4. new \in Runs /\ new.pc = "storing" /\ new.content = c
  <2>1. "storing" \in RunStates
    BY DEF RunStates, WithContent
  <2> HIDE DEF Results, Tasks, RunStates
  <2> QED  BY <1>2, <2>1, RunFacts DEF Typed, Runs
<1> HIDE DEF new
<1>5. Typed(new)
  BY <1>2, <1>4 DEF Typed
<1>6. UNCHANGED vars /\ files' = files /\ files' = [x \in Contents |-> files'[x]]
  BY DEF Fetch, HInv, Shared
<1> QED
  BY <1>3, <1>4, <1>5, <1>6, RunMoves

LEMMA StoreSteps ==
  ASSUME HInv, NEW h \in Sessions, FindStored(h) \/ FindAbsent(h) \/ ReplaceFile(h)
  PROVE  HInv'
<1> DEFINE content == run[h].content
<1>1. content \in Contents
  BY RunFacts DEF FindStored, FindAbsent, ReplaceFile, At, Typed, WithContent
<1>2. UNCHANGED vars
  BY DEF FindStored, FindAbsent, ReplaceFile
<1>3. /\ files' = [c \in Contents |-> files'[c]]
      /\ \A c \in Contents : files[c] = "good" => files'[c] = "good"
  BY <1>1 DEF FindStored, FindAbsent, ReplaceFile, HInv, Shared
<1>4. PICK pc \in {"recording", "replacing"} :
        To(h, pc) /\ (pc = "recording" => files'[content] = "good")
  <2>1. CASE FindStored(h)
    BY <2>1 DEF FindStored, AlreadyStored
  <2>2. CASE FindAbsent(h)
    BY <2>2 DEF FindAbsent
  <2>3. CASE ReplaceFile(h)
    BY <1>1, <2>3 DEF ReplaceFile, HInv, Shared
  <2> QED
    BY <2>1, <2>2, <2>3
<1>5. PICK new : /\ Typed(new) /\ run' = [run EXCEPT ![h] = new]
                 /\ new.pc = pc /\ new.content = content
  <2>1. pc \in RunStates
    BY DEF RunStates, WithContent
  <2> QED
    BY <1>1, <1>4, <2>1, ToMoves
<1> QED
  BY <1>2, <1>3, <1>4, <1>5, RunMoves

(* The artifact is recorded and the normalizer has read it.                *)
LEMMA NormalizeStep ==
  ASSUME HInv, NEW h \in Sessions, Normalize(h)
  PROVE  HInv'
<1>1. CASE run[h].content \in Unreadable
  BY <1>1, UnitSteps
<1>2. CASE run[h].content \notin Unreadable
  <2> DEFINE new == [run[h] EXCEPT !.pc = "observing", !.todo = ReadsFrom[run[h].content]]
  <2>1. /\ run' = [run EXCEPT ![h] = new] /\ UNCHANGED vars /\ files' = files
        /\ run[h].pc = "recorded" /\ session[h].pc = "idle"
    BY <1>2 DEF Normalize, At, HInv, Shared
  <2>2. run[h].content \in Contents
    BY <2>1, RunFacts DEF Typed, WithContent
  <2>3. ReadsFrom[run[h].content] \in Seq(Keys)
    BY <2>2, PlanAssumption
  <2>4. new \in Runs /\ new.pc = "observing" /\ new.content = run[h].content
    <3>1. "observing" \in RunStates
      BY DEF RunStates, WithContent
    <3> HIDE DEF Results, Tasks, RunStates
    <3> QED  BY <2>3, <3>1, RunFacts DEF Typed, Runs
  <2> HIDE DEF new
  <2>5. Typed(new)
    BY <2>2, <2>4 DEF Typed
  <2>6. InHand(h)
    BY <2>1 DEF HInv, HarvestOK
  <2>7. files' = [c \in Contents |-> files'[c]]
    BY <2>1 DEF HInv, Shared
  <2> QED
    BY <2>1, <2>4, <2>5, <2>6, <2>7, RunMoves
<1> QED
  BY <1>1, <1>2

----------------------------------------------------------------------------
(* The steps of a harvest with a step of its session. *)
LEMMA PrepareMoves ==
  ASSUME HInv, NEW h \in Sessions, RepositoryCall(h), NEW row, Prepare(h, row),
         files' = files, NEW new, Typed(new), run' = [run EXCEPT ![h] = new],
         \/ /\ new.pc = "recorded" /\ new.content = row.says
            /\ row.type = "source_artifact" /\ files[row.says] = "good"
         \/ /\ new.pc = "observing" /\ new.content = run[h].content /\ InHand(h)
            /\ row.type = "observation"
            /\ \A a \in row.refs :
                 a \in Artifacts(work[h]) /\ work[h].rows[a].says = row.says
  PROVE  HInv'
<1>1. /\ session'[h].pc = "ready" /\ session'[h].row = row
      /\ disk' = disk /\ lock' = lock /\ work' = work
  BY DEF Prepare, HInv, Shared, Inv, DatabaseOK
<1>2. run'[h] = new
  BY DEF HInv, Shared
<1>3. Sourced(disk)' /\ Sourced(work[h])'
  BY <1>1, SourcedStays
<1>4. ReadyOK(h)'
  BY <1>1 DEF ReadyOK, InHand, Artifacts, RowsOf
<1>5. new.content = run[h].content /\ InHand(h) => InHand(h)'
  BY <1>1, <1>2 DEF InHand, LastArtifact, Artifacts, RowsOf
<1>6. HarvestOK(h)'
  BY <1>1, <1>2, <1>3, <1>4, <1>5 DEF HarvestOK
<1> QED
  BY <1>3, <1>6, SessionMoves

LEMMA RecordStep ==
  ASSUME HInv, NEW h \in Sessions, Record(h)
  PROVE  HInv'
<1> DEFINE content == run[h].content
           row == FirstVersion("source_artifact", None, {}, content)
<1>1. /\ run[h].pc = "recording" /\ To(h, "recorded") /\ files' = files
      /\ AddSourceArtifact(h, content) /\ Prepare(h, row)
  BY DEF Record, At, AddSourceArtifact, AddUnversioned
<1>2. content \in Contents /\ files[content] = "good"
  BY <1>1, RunFacts DEF Typed, WithContent, HInv, HarvestOK
<1>3. RepositoryCall(h)
  BY <1>1, <1>2 DEF RepositoryCall
<1>4. PICK new : /\ Typed(new) /\ run' = [run EXCEPT ![h] = new]
                 /\ new.pc = "recorded" /\ new.content = content
  <2>1. "recorded" \in RunStates
    BY DEF RunStates, WithContent
  <2> QED
    BY <1>1, <1>2, <2>1, ToMoves
<1>5. row.type = "source_artifact" /\ row.says = content
  BY DEF FirstVersion
<1> HIDE DEF row
<1>6. /\ new.pc = "recorded" /\ new.content = row.says
      /\ row.type = "source_artifact" /\ files[row.says] = "good"
  BY <1>2, <1>4, <1>5
<1> QED
  BY <1>1, <1>3, <1>4, <1>6, PrepareMoves

LEMMA ObserveCalls ==
  ASSUME HInv, NEW h \in Sessions, Observe(h)
  PROVE  RepositoryCall(h)
<1> DEFINE content == run[h].content
           key == Head(run[h].todo)
           refs == {RecordedArtifact(h)}
<1>1. /\ run[h].pc = "observing" /\ run[h].todo # <<>>
      /\ AddObservation(h, key, refs, content)
      /\ ValidRefs(Seen(h), "observation", refs) /\ Len(Seen(h).rows) < MaxRows
  BY DEF Observe, At, AddObservation, AddVersioned, Prepare
<1>2. content \in Contents
  BY <1>1, RunFacts DEF Typed, WithContent
<1>3. key \in Keys
  <2>1. run[h].todo \in Seq(Keys)
    BY RunFacts
  <2> QED
    BY <1>1, <2>1
<1> HIDE DEF refs, key, content
<1>4. refs \in SUBSET (1 .. MaxRows)
  <2>1. "observation" \in Types
    BY DEF Types, Revisable
  <2>2. refs \in SUBSET (1 .. Len(Seen(h).rows)) /\ Len(Seen(h).rows) \in Nat
    BY <1>1, <2>1, ValidRefsEarlier, SeenSound DEF HInv, Shared
  <2> QED
    BY <1>1, <2>2, ConstantsAssumption
<1> QED
  BY <1>1, <1>2, <1>3, <1>4 DEF RepositoryCall

LEMMA ObserveStep ==
  ASSUME HInv, NEW h \in Sessions, Observe(h)
  PROVE  HInv'
<1> DEFINE content == run[h].content
           key == Head(run[h].todo)
           refs == {RecordedArtifact(h)}
           row == NextVersionOf(Seen(h), "observation", key, refs, content)
<1>1. /\ run[h].pc = "observing" /\ run[h].todo # <<>> /\ session[h].pc = "idle"
      /\ AddObservation(h, key, refs, content) /\ files' = files
      /\ ValidRefs(Seen(h), "observation", refs) /\ Prepare(h, row)
      /\ run' = [run EXCEPT ![h].todo = Tail(@)]
  BY DEF Observe, At, AddObservation, AddVersioned, Prepare
<1>2. content \in Contents /\ key \in Keys /\ Tail(run[h].todo) \in Seq(Keys)
  <2>1. content \in Contents
    BY <1>1, RunFacts DEF Typed, WithContent
  <2>2. run[h].todo \in Seq(Keys)
    BY RunFacts
  <2> QED
    BY <1>1, <2>1, <2>2
<1>3. InHand(h)
  BY <1>1 DEF HInv, HarvestOK
<1>4. Seen(h) = work[h]
  BY <1>3 DEF InHand, Seen
<1>5. LastArtifact(work[h], RecordedArtifact(h)) /\ work[h].rows[RecordedArtifact(h)].says = content
  <2>1. PICK i : LastArtifact(work[h], i) /\ work[h].rows[i].says = content
    BY <1>3 DEF InHand
  <2>2. \A j \in Artifacts(work[h]) : j \in Nat
    BY DEF Artifacts, RowsOf
  <2>3. LastArtifact(work[h], RecordedArtifact(h))
    BY <1>4, <2>1 DEF RecordedArtifact, LastArtifact, Artifacts
  <2>4. RecordedArtifact(h) = i
    BY <2>1, <2>2, <2>3 DEF LastArtifact
  <2> QED
    BY <2>1, <2>3, <2>4
<1>6. row.type = "observation" /\ row.refs = refs /\ row.says = content
  <2>1. FirstVersion("observation", key, refs, content) =
          [type |-> "observation", key |-> key, version |-> 1, supersedes |-> None,
           refs |-> refs, says |-> content]
    BY DEF FirstVersion
  <2> HIDE DEF refs, key, content
  <2> QED
    BY <2>1 DEF NextVersionOf
<1>7. RepositoryCall(h)
  BY ObserveCalls
<1> DEFINE new == [run[h] EXCEPT !.todo = Tail(@)]
<1>8. run' = [run EXCEPT ![h] = new]
  BY <1>1 DEF HInv, Shared
<1>9. Typed(new) /\ new.pc = "observing" /\ new.content = content
  <2>1. new \in Runs /\ new.pc = "observing" /\ new.content = content
    <3> HIDE DEF Results, Tasks, RunStates
    <3> QED  BY <1>1, <1>2, RunFacts DEF Typed, Runs
  <2> HIDE DEF new
  <2> QED
    BY <1>2, <2>1 DEF Typed
<1>10. \A a \in row.refs : a \in Artifacts(work[h]) /\ work[h].rows[a].says = row.says
  <2> HIDE DEF row
  <2> QED  BY <1>5, <1>6 DEF LastArtifact
<1> HIDE DEF new, row
<1> QED
  BY <1>1, <1>3, <1>6, <1>7, <1>8, <1>9, <1>10, PrepareMoves

(* The event could not be written: the row stays, and the unit has failed. *)
LEMMA CaughtEventStep ==
  ASSUME HInv, NEW h \in Sessions, CaughtEvent(h)
  PROVE  HInv'
<1>1. AppendRaises(h) /\ UnitFails(h, TRUE) /\ files' = files
  BY DEF CaughtEvent
<1>2. PICK new : Typed(new) /\ run' = [run EXCEPT ![h] = new] /\ new.pc = "fetching"
  BY <1>1, UnitEnds
<1>3. run'[h] = new /\ session'[h].pc # "ready" /\ disk' = disk /\ work' = work
  BY <1>1, <1>2
  DEF AppendRaises, AfterException, Goto, HInv, Shared, Inv, DatabaseOK, SessionOK
<1>4. Sourced(disk)' /\ Sourced(work[h])'
  BY <1>1, <1>3, SourcedStays
<1>5. HarvestOK(h)'
  BY <1>2, <1>3, <1>4 DEF HarvestOK
<1> QED
  BY <1>1, <1>2, <1>4, <1>5, SessionMoves DEF SessionStep

LEMMA ReportStep ==
  ASSUME HInv, NEW h \in Sessions, Report(h)
  PROVE  HInv'
<1>1. /\ session[h].pc = "idle" /\ To(h, "reported") /\ files' = files
      /\ IF lock = h THEN Commit(h) ELSE UNCHANGED vars
  BY DEF Report
<1>2. PICK new : Typed(new) /\ run' = [run EXCEPT ![h] = new] /\ new.pc = "reported"
  <2>1. "reported" \in RunStates /\ "reported" \notin WithContent
    BY DEF RunStates, WithContent
  <2> QED
    BY <1>1, <2>1, ToMoves
<1>3. CASE Commit(h)
  <2>1. /\ run'[h] = new /\ session'[h].pc = "idle"
        /\ disk' = work[h] /\ work'[h] = Empty
    BY <1>1, <1>2, <1>3 DEF Commit, HInv, Shared, Inv, DatabaseOK
  <2>2. Sourced(disk)' /\ Sourced(work[h])'
    BY <1>1, <2>1, EmptySourced
    DEF HInv, HarvestOK, Sourced, FilesThere, Cites, Artifacts, ObservationRows, RowsOf
  <2>3. HarvestOK(h)'
    BY <1>2, <2>1, <2>2 DEF HarvestOK
  <2> QED
    BY <1>1, <1>2, <1>3, <2>2, <2>3, SessionMoves DEF SessionStep
<1>4. CASE UNCHANGED vars
  <2>1. files' = [c \in Contents |-> files'[c]]
    BY <1>1 DEF HInv, Shared
  <2> QED
    BY <1>1, <1>2, <1>4, <2>1, RunMoves
<1> QED
  BY <1>1, <1>3, <1>4

LEMMA EndSteps ==
  ASSUME HInv, NEW h \in Sessions, FetchBreaks(h) \/ CommitRaises(h) \/ Die(h)
  PROVE  HInv'
<1>1. PICK pc \in {"aborted", "dead"} : To(h, pc)
  BY DEF FetchBreaks, CommitRaises, Die
<1>2. CloseSession(h) /\ files' = files
  BY DEF FetchBreaks, CommitRaises, Die
<1>3. pc \in RunStates /\ pc \notin WithContent
  BY DEF RunStates, WithContent
<1>4. PICK new : Typed(new) /\ run' = [run EXCEPT ![h] = new] /\ new.pc = pc
  BY <1>1, <1>3, ToMoves
<1> QED
  BY <1>2, <1>3, <1>4, CloseMoves

LEMMA HInvStep ==
  ASSUME HInv, [HarvestNext]_harvestVars
  PROVE  HInv'
<1>1. ASSUME NEW h \in Sessions, HarvestStep(h)
      PROVE  HInv'
  <2>1. CASE Flush(h)
    BY <2>1, InsertMoves, AppendEventMoves, FlushFailsMoves DEF Flush
  <2> QED
    BY <1>1, <2>1, FetchStep, UnitSteps, StoreSteps, RecordStep, NormalizeStep, ObserveStep,
       TaskEndsStep, CaughtEventStep, ReportStep, EndSteps
    DEF HarvestStep
<1>2. CASE UNCHANGED harvestVars
  <2>1. /\ UNCHANGED vars /\ files' = files /\ run' = run
        /\ disk' = disk /\ lock' = lock /\ work' = work /\ session' = session
    BY <1>2 DEF harvestVars, vars
  <2>2. Sourced(disk)'
    BY <2>1
    DEF HInv, Shared, Sourced, FilesThere, Cites, Artifacts, ObservationRows, RowsOf
  <2>3. Shared'
    BY <2>1, <2>2, InvStep DEF HInv, Shared
  <2>4. ASSUME NEW t \in Sessions
        PROVE  HarvestOK(t)'
    BY <2>1, OthersUndisturbed DEF HInv, Shared
  <2> QED
    BY <2>3, <2>4 DEF HInv
<1> QED
  BY <1>1, <1>2 DEF HarvestNext

(* Every step of a harvest is a step of its session, or of none.           *)
LEMMA SessionOf ==
  ASSUME HInv, NEW h \in Sessions, HarvestStep(h)
  PROVE  RepositoryCall(h) \/ SessionStep(h) \/ UNCHANGED vars
<1>1. CASE Flush(h) \/ CaughtEvent(h)
  BY <1>1 DEF Flush, CaughtEvent, SessionStep
<1>2. CASE Report(h)
  BY <1>2 DEF Report, SessionStep
<1>3. CASE FetchBreaks(h) \/ CommitRaises(h) \/ Die(h)
  BY <1>3 DEF FetchBreaks, CommitRaises, Die, CloseSession, SessionStep
<1>4. CASE Record(h)
  <2>1. run[h].content \in Contents
    BY <1>4, RunFacts DEF Record, At, Typed, WithContent
  <2> QED
    BY <1>4, <2>1 DEF Record, RepositoryCall
<1>5. CASE Observe(h)
  BY <1>5, ObserveCalls
<1>6. CASE \/ Fetch(h) \/ FetchNothing(h) \/ FetchFails(h) \/ FindStored(h)
           \/ FindCorrupt(h) \/ FindAbsent(h) \/ ReplaceFile(h) \/ StoreFails(h)
           \/ Normalize(h) \/ Ingested(h) \/ TaskEnds(h) \/ CaughtBroken(h)
  BY <1>6
  DEF Fetch, FetchNothing, FetchFails, FindStored, FindCorrupt, FindAbsent, ReplaceFile,
      StoreFails, Normalize, Ingested, TaskEnds, CaughtBroken
<1> QED
  BY <1>1, <1>2, <1>3, <1>4, <1>5, <1>6 DEF HarvestStep

LEMMA LedgerStep ==
  ASSUME HInv, [HarvestNext]_harvestVars
  PROVE  [Next]_vars
<1>1. ASSUME NEW h \in Sessions, HarvestStep(h)
      PROVE  [Next]_vars
  BY <1>1, SessionOf DEF Next
<1>2. CASE UNCHANGED harvestVars
  BY <1>2 DEF harvestVars, vars
<1> QED
  BY <1>1, <1>2 DEF HarvestNext

LEMMA HarvestInvariance == HarvestSpec => []HInv
BY HInvStart, HInvStep, PTL DEF HarvestSpec

----------------------------------------------------------------------------
(* The running sums of the observations of a harvest's results. *)
IsSum(results, sum) ==
  sum = [n \in 0 .. Len(results) |-> IF n = 0 THEN 0 ELSE sum[n - 1] + results[n].observations]

(* There is one such function, and its last value is the total. *)
Summed(results) ==
  /\ results \in Seq(Results) /\ Total(results) \in Nat
  /\ \E sum : IsSum(results, sum)
  /\ \A sum : IsSum(results, sum) => sum[Len(results)] = Total(results)

LEMMA SumOfNone == Summed(<<>>) /\ Total(<<>>) = 0
<1>1. IsSum(<<>>, [n \in 0 .. 0 |-> 0])
  BY DEF IsSum
<1>2. \A sum : IsSum(<<>>, sum) => sum[0] = 0
  BY DEF IsSum
<1>3. \E sum : IsSum(<<>>, sum)
  BY <1>1
<1>4. Total(<<>>) = (CHOOSE sum : IsSum(<<>>, sum))[Len(<<>>)]
  BY DEF Total, IsSum
<1>5. Len(<<>>) = 0 /\ <<>> \in Seq(Results)
  OBVIOUS
<1>6. Total(<<>>) = 0
  BY <1>2, <1>3, <1>4, <1>5
<1> QED
  BY <1>2, <1>3, <1>5, <1>6 DEF Summed

LEMMA SumOfOneMore ==
  ASSUME NEW results, Summed(results), NEW result \in Results
  PROVE  /\ Summed(Append(results, result))
         /\ Total(Append(results, result)) = Total(results) + result.observations
<1> DEFINE n == Len(results)
           more == Append(results, result)
           new == result.observations
<1>1. /\ results \in Seq(Results) /\ n \in Nat /\ new \in Nat /\ Total(results) \in Nat
      /\ more \in Seq(Results) /\ Len(more) = n + 1 /\ more[n + 1] = result
      /\ \A i \in 1 .. n : more[i] = results[i]
  <2>1. new \in Nat
    BY DEF Results
  <2> HIDE DEF Results, new
  <2> QED
    BY <2>1 DEF Summed
<1> HIDE DEF more, new, n
<1>2. ASSUME NEW sum, IsSum(more, sum)
      PROVE  sum[n + 1] = Total(results) + new
  <2> DEFINE part == [i \in 0 .. n |-> sum[i]]
  <2>1. \A i \in 0 .. n + 1 :
          sum[i] = IF i = 0 THEN 0 ELSE sum[i - 1] + more[i].observations
    BY <1>1, <1>2 DEF IsSum
  <2>2. sum[n + 1] = sum[n] + new
    <3>1. n + 1 \in 0 .. n + 1 /\ n + 1 # 0 /\ n + 1 - 1 = n
      BY <1>1
    <3>2. sum[n + 1] = sum[n] + more[n + 1].observations
      BY <1>1, <2>1, <3>1
    <3> QED
      BY <1>1, <3>2 DEF new
  <2>3. part = [i \in 0 .. n |-> IF i = 0 THEN 0 ELSE part[i - 1] + results[i].observations]
    <3>1. ASSUME NEW i \in 0 .. n
          PROVE  part[i] = IF i = 0 THEN 0 ELSE part[i - 1] + results[i].observations
      <4>1. CASE i = 0
        BY <1>1, <2>1, <4>1
      <4>2. CASE i # 0
        <5>1. i \in 1 .. n /\ i \in 0 .. n + 1 /\ i - 1 \in 0 .. n
          BY <1>1, <4>2
        <5>2. sum[i] = sum[i - 1] + more[i].observations
          BY <2>1, <4>2, <5>1
        <5> QED
          BY <1>1, <4>2, <5>1, <5>2
      <4> QED
        BY <4>1, <4>2
    <3> QED
      BY <3>1
  <2>4. IsSum(results, part)
    BY <2>3 DEF IsSum, n
  <2>5. sum[n] = Total(results)
    BY <1>1, <2>4 DEF Summed, n
  <2> QED
    BY <2>2, <2>5
<1>3. \E sum : IsSum(more, sum)
  <2>1. PICK sum : IsSum(results, sum)
    BY DEF Summed
  <2>2. sum = [i \in 0 .. n |-> IF i = 0 THEN 0 ELSE sum[i - 1] + results[i].observations]
    BY <2>1 DEF IsSum, n
  <2> DEFINE whole == [i \in 0 .. n + 1 |-> IF i = n + 1 THEN sum[n] + new ELSE sum[i]]
  <2>3. ASSUME NEW i \in 0 .. n + 1
        PROVE  whole[i] = IF i = 0 THEN 0 ELSE whole[i - 1] + more[i].observations
    <3>1. CASE i = 0
      BY <1>1, <2>2, <3>1
    <3>2. CASE i = n + 1
      BY <1>1, <3>2 DEF new
    <3>3. CASE i \in 1 .. n
      <4>1. i - 1 \in 0 .. n /\ i \in 0 .. n /\ i # 0
        BY <1>1, <3>3
      <4>2. sum[i] = sum[i - 1] + results[i].observations
        BY <2>2, <4>1
      <4> QED
        BY <1>1, <3>3, <4>1, <4>2
    <3> QED
      BY <1>1, <3>1, <3>2, <3>3
  <2>4. IsSum(more, whole)
    BY <1>1, <2>3 DEF IsSum
  <2> QED
    BY <2>4
<1>4. Total(more) = (CHOOSE sum : IsSum(more, sum))[Len(more)]
  BY DEF Total, IsSum
<1>5. Total(more) = Total(results) + new
  BY <1>1, <1>2, <1>3, <1>4
<1>6. Summed(more)
  BY <1>1, <1>2, <1>3, <1>5 DEF Summed
<1> QED
  BY <1>5, <1>6 DEF more, new

(* The observations that are in a database. *)
Count(db) == Cardinality(ObservationRows(db))

LEMMA CountIsNat ==
  ASSUME NEW db, Len(db.rows) \in Nat
  PROVE  IsFiniteSet(ObservationRows(db)) /\ Count(db) \in Nat
<1>1. ObservationRows(db) \in SUBSET (1 .. Len(db.rows))
  BY DEF ObservationRows, RowsOf
<1>2. IsFiniteSet(1 .. Len(db.rows))
  BY FS_Interval
<1>3. IsFiniteSet(ObservationRows(db))
  BY <1>1, <1>2, FS_Subset
<1> QED
  BY <1>3, FS_CardinalityType DEF Count

LEMMA CountOneMore ==
  ASSUME NEW later, NEW db, OneMore(later, db)
  PROVE  Count(later) = IF later.rows[Len(db.rows) + 1].type = "observation"
                          THEN Count(db) + 1 ELSE Count(db)
<1> DEFINE n == Len(db.rows)
<1>1. n \in Nat /\ IsFiniteSet(ObservationRows(db))
  BY CountIsNat DEF OneMore
<1>2. \A i : i \in ObservationRows(later) <=>
               \/ i \in ObservationRows(db)
               \/ i = n + 1 /\ later.rows[n + 1].type = "observation"
  BY RowsWithOne DEF ObservationRows
<1>3. n + 1 \notin ObservationRows(db)
  BY <1>1 DEF ObservationRows, RowsOf
<1>4. CASE later.rows[n + 1].type = "observation"
  <2>1. ObservationRows(later) = ObservationRows(db) \cup {n + 1}
    BY <1>2, <1>4
  <2> QED
    BY <1>1, <1>3, <1>4, <2>1, FS_AddElement DEF Count
<1>5. CASE later.rows[n + 1].type # "observation"
  <2>1. ObservationRows(later) = ObservationRows(db)
    BY <1>2, <1>5
  <2> QED
    BY <1>5, <2>1 DEF Count
<1> QED
  BY <1>4, <1>5

(* The observations of the content in hand that a harvest has gone through *)
(* so far, and the one among them that is not inserted yet.                *)
Begun(h) ==
  IF At(h, "observing") THEN Len(ReadsFrom[run[h].content]) - Len(run[h].todo) ELSE 0

Pending(h) == IF At(h, "observing") /\ session[h].pc = "ready" THEN 1 ELSE 0

Claimed(h) == Total(run[h].results) + run[h].task.total + Begun(h)

(* The harvest may still commit. *)
Alive(h) == run[h].pc \notin {"reported", "aborted", "dead"} /\ session[h].pc # "broken"

(* A harvest has inserted what it has counted. *)
Counted(h) ==
  /\ Summed(run[h].results)
  /\ Alive(h) =>
       /\ Begun(h) \in Nat
       /\ Count(disk) + Claimed(h) <= Count(Seen(h)) + Pending(h)

(* A session at work works for a harvest that waits for it. *)
Waits(h) == session[h].pc \in {"ready", "inserted"} => run[h].pc \in {"recorded", "observing"}

CInv == HInv /\ \A h \in Sessions : Waits(h) /\ Counted(h)

LEMMA CountedStart == HarvestInit => CInv
<1> SUFFICES ASSUME HarvestInit
             PROVE  CInv
  OBVIOUS
<1>1. HInv
  BY HInvStart
<1>2. ASSUME NEW h \in Sessions
      PROVE  Counted(h)
  <2>1. /\ run[h].pc = "fetching" /\ run[h].results = <<>> /\ run[h].task.total = 0
        /\ lock = None
    BY <1>2 DEF HarvestInit, Init, NewRun, Fresh
  <2>2. Seen(h) = disk /\ Len(disk.rows) \in Nat
    <3>1. lock # h
      BY <2>1, ConstantsAssumption
    <3> QED
      BY <1>1, <3>1, DatabaseFacts DEF Seen, HInv, Shared, Inv, DatabaseOK, Sound
  <2>3. Count(disk) \in Nat
    BY <2>2, CountIsNat
  <2>4. Begun(h) = 0 /\ Claimed(h) = 0 /\ Pending(h) = 0
    BY <2>1, SumOfNone DEF Begun, Claimed, Pending, At
  <2> QED
    BY <2>1, <2>2, <2>3, <2>4, SumOfNone DEF Counted
<1>3. \A h \in Sessions : Waits(h)
  BY DEF HarvestInit, Init, Waits
<1> QED
  BY <1>1, <1>2, <1>3 DEF CInv

(* The quantities are integers. *)
LEMMA CountFacts ==
  ASSUME HInv, NEW h \in Sessions, Summed(run[h].results)
  PROVE  /\ Len(disk.rows) \in Nat /\ Count(disk) \in Nat
         /\ Len(Seen(h).rows) \in Nat /\ Count(Seen(h)) \in Nat
         /\ Total(run[h].results) \in Nat /\ run[h].task.total \in Nat
         /\ Begun(h) \in Int /\ Pending(h) \in {0, 1}
<1>1. Len(disk.rows) \in Nat /\ Len(Seen(h).rows) \in Nat
  <2>1. IsDatabase(disk) /\ IsDatabase(Seen(h))
    BY SeenSound DEF HInv, Shared, Inv, DatabaseOK, Sound
  <2> QED
    BY <2>1, DatabaseFacts
<1>2. run[h].task.total \in Nat
  <2>1. run[h].task \in Tasks
    BY RunFacts
  <2> QED
    BY <2>1 DEF Tasks
<1>3. Begun(h) \in Int
  <2>1. CASE At(h, "observing")
    <3>1. run[h].content \in Contents /\ run[h].todo \in Seq(Keys)
      BY <2>1, RunFacts DEF At, Typed, WithContent
    <3>2. Len(ReadsFrom[run[h].content]) \in Nat /\ Len(run[h].todo) \in Nat
      BY <3>1, PlanAssumption
    <3> QED
      BY <2>1, <3>2 DEF Begun
  <2> QED
    BY <2>1 DEF Begun
<1> QED
  BY <1>1, <1>2, <1>3, CountIsNat DEF Summed, Pending

(* What a step of a harvest leaves of its account. *)
LEMMA ToFields ==
  ASSUME HInv, NEW h \in Sessions, NEW pc, To(h, pc)
  PROVE  /\ run'[h].pc = pc /\ run'[h].results = run[h].results
         /\ run'[h].task = run[h].task
<1>1. run'[h] = [run[h] EXCEPT !.pc = pc]
  BY DEF To, HInv, Shared
<1> QED
  BY <1>1, RunFacts

LEMMA NextUnitFields ==
  ASSUME HInv, NEW h \in Sessions, NEW task, NextUnit(h, task)
  PROVE  /\ run'[h].pc = "fetching" /\ run'[h].results = run[h].results
         /\ run'[h].task = [task EXCEPT !.unit = @ + 1]
<1>1. run'[h] = [run[h] EXCEPT !.pc = "fetching", !.todo = <<>>, !.content = None,
                               !.task = [task EXCEPT !.unit = @ + 1]]
  BY DEF NextUnit, HInv, Shared
<1> QED
  BY <1>1, RunFacts

LEMMA UnitFailsFields ==
  ASSUME HInv, NEW h \in Sessions, NEW own, UnitFails(h, own)
  PROVE  /\ run'[h].pc = "fetching" /\ run'[h].results = run[h].results
         /\ run'[h].task.total = run[h].task.total
<1> DEFINE task == [run[h].task EXCEPT !.errors = @ + 1, !.own = @ \/ own]
<1>1. NextUnit(h, task)
  BY Zenon DEF UnitFails
<1>2. task.total = run[h].task.total /\ [task EXCEPT !.unit = @ + 1].total = task.total
  <2>1. run[h].task \in Tasks
    BY RunFacts
  <2>2. run[h].task = [unit |-> run[h].task.unit, total |-> run[h].task.total,
                       errors |-> run[h].task.errors, own |-> run[h].task.own]
    BY <2>1 DEF Tasks
  <2> QED
    BY <2>2
<1> HIDE DEF task
<1> QED
  BY <1>1, <1>2, NextUnitFields

(* The account of a harvest that goes on without a result. *)
LEMMA StillCounted ==
  ASSUME HInv, NEW h \in Sessions, Counted(h), disk' = disk,
         NEW more \in Nat, Count(Seen(h))' = Count(Seen(h)) + more,
         Alive(h)' => Alive(h),
         run'[h].results = run[h].results,
         Alive(h)' =>
           /\ Begun(h)' \in Nat /\ run'[h].task.total \in Nat /\ Pending(h)' \in {0, 1}
           /\ run'[h].task.total + Begun(h)' + Pending(h) <=
                run[h].task.total + Begun(h) + Pending(h)' + more
  PROVE  Counted(h)'
<1>1. Summed(run[h].results) /\ Summed(run'[h].results)
  BY DEF Counted
<1>2. /\ Count(disk) \in Nat /\ Count(Seen(h)) \in Nat
      /\ Total(run[h].results) \in Nat /\ run[h].task.total \in Nat
      /\ Begun(h) \in Int /\ Pending(h) \in {0, 1}
  BY <1>1, CountFacts
<1>3. Count(disk)' = Count(disk) /\ Total(run'[h].results) = Total(run[h].results)
  BY DEF Count, ObservationRows, RowsOf
<1>4. ASSUME Alive(h)'
      PROVE  Count(disk)' + Claimed(h)' <= Count(Seen(h))' + Pending(h)'
  <2>1. Count(disk) + Claimed(h) <= Count(Seen(h)) + Pending(h)
    BY <1>4 DEF Counted
  <2>2. Claimed(h) = Total(run[h].results) + run[h].task.total + Begun(h)
    BY DEF Claimed
  <2>3. Claimed(h)' = Total(run[h].results) + run'[h].task.total + Begun(h)'
    BY <1>3 DEF Claimed
  <2> QED
    BY <1>2, <1>3, <1>4, <2>1, <2>2, <2>3
<1> QED
  BY <1>1, <1>4 DEF Counted

(* What a step without its session leaves of a harvest's account. *)
LEMMA SeenStays ==
  ASSUME NEW h, UNCHANGED vars
  PROVE  /\ disk' = disk /\ session' = session /\ lock' = lock /\ Count(Seen(h))' = Count(Seen(h))
  BY DEF vars, Seen, Count, ObservationRows, RowsOf

(* A harvest between two contents has begun nothing. *)
LEMMA NothingBegun ==
  ASSUME NEW h, ~At(h, "observing")
  PROVE  Begun(h) = 0 /\ Pending(h) = 0
  BY DEF Begun, Pending

(* The units of a task that end with nothing read. *)
LEMMA CountedUnits ==
  ASSUME HInv, NEW h \in Sessions, Counted(h),
         \/ Fetch(h) \/ FetchNothing(h) \/ FetchFails(h)
         \/ FindStored(h) \/ FindCorrupt(h) \/ FindAbsent(h) \/ ReplaceFile(h) \/ StoreFails(h)
         \/ Normalize(h) /\ run[h].content \in Unreadable
  PROVE  Counted(h)'
<1>1. UNCHANGED vars /\ ~At(h, "observing") /\ run[h].pc \notin {"reported", "aborted", "dead"}
  BY DEF Fetch, FetchNothing, FetchFails, FindStored, FindCorrupt, FindAbsent, ReplaceFile,
         StoreFails, Normalize, Requesting, At
<1>2. /\ run'[h].pc # "observing" /\ run'[h].results = run[h].results
      /\ run'[h].task.total = run[h].task.total
  <2>1. CASE Fetch(h)
    <3>1. PICK c : run'[h] = [run[h] EXCEPT !.pc = "storing", !.content = c]
      BY <2>1 DEF Fetch, HInv, Shared
    <3> QED
      BY <3>1, RunFacts
  <2>2. CASE FetchNothing(h)
    <3>1. run[h].task \in Tasks
      BY RunFacts
    <3>2. [run[h].task EXCEPT !.unit = @ + 1].total = run[h].task.total
      BY <3>1 DEF Tasks
    <3> QED
      BY <2>2, <3>2, NextUnitFields DEF FetchNothing
  <2>3. CASE \/ FetchFails(h) \/ FindCorrupt(h) \/ StoreFails(h)
             \/ Normalize(h) /\ run[h].content \in Unreadable
    <3>1. UnitFails(h, TRUE)
      BY <2>3 DEF FetchFails, FindCorrupt, StoreFails, Normalize
    <3> QED
      BY <3>1, UnitFailsFields
  <2>4. CASE FindStored(h) \/ FindAbsent(h) \/ ReplaceFile(h)
    <3>1. PICK pc \in {"recording", "replacing"} : To(h, pc)
      BY <2>4 DEF FindStored, FindAbsent, ReplaceFile
    <3> QED
      BY <3>1, ToFields
  <2> QED
    BY <2>1, <2>2, <2>3, <2>4
<1>3. Begun(h) = 0 /\ Pending(h) = 0 /\ Begun(h)' = 0 /\ Pending(h)' = 0
  BY <1>1, <1>2, NothingBegun DEF Begun, Pending, At
<1>4. run[h].task.total \in Nat /\ Count(Seen(h)) \in Nat
  BY CountFacts DEF Counted
<1>5. Alive(h)' => Alive(h)
  BY <1>1, SeenStays DEF Alive
<1>6. Count(Seen(h))' = Count(Seen(h)) + 0 /\ disk' = disk
  BY <1>1, <1>4, SeenStays
<1> QED
  BY <1>2, <1>3, <1>4, <1>5, <1>6, StillCounted

LEMMA CountedNormalize ==
  ASSUME HInv, NEW h \in Sessions, Counted(h), Normalize(h), run[h].content \notin Unreadable
  PROVE  Counted(h)'
<1> DEFINE content == run[h].content
<1>1. /\ run[h].pc = "recorded" /\ session[h].pc = "idle" /\ UNCHANGED vars
      /\ run' = [run EXCEPT ![h].pc = "observing", ![h].todo = ReadsFrom[content]]
  BY DEF Normalize, At
<1>2. content \in Contents
  BY <1>1, RunFacts DEF Typed, WithContent
<1>3. /\ run'[h].pc = "observing" /\ run'[h].results = run[h].results
      /\ run'[h].task = run[h].task
      /\ run'[h].content = content /\ run'[h].todo = ReadsFrom[content]
  <2>1. run'[h] = [run[h] EXCEPT !.pc = "observing", !.todo = ReadsFrom[content]]
    BY <1>1 DEF HInv, Shared
  <2> QED
    BY <2>1, RunFacts
<1>4. Len(ReadsFrom[content]) \in Nat
  BY <1>2, PlanAssumption
<1>5. Begun(h) = 0 /\ Pending(h) = 0
  BY <1>1, NothingBegun DEF At
<1>6. Begun(h)' = 0 /\ Pending(h)' = 0
  BY <1>1, <1>3, <1>4, SeenStays DEF Begun, Pending, At
<1>7. run[h].task.total \in Nat /\ Count(Seen(h)) \in Nat
  BY CountFacts DEF Counted
<1>8. Alive(h)
  BY <1>1 DEF Alive
<1>9. Count(Seen(h))' = Count(Seen(h)) + 0 /\ disk' = disk
  BY <1>1, <1>7, SeenStays
<1> QED
  BY <1>3, <1>5, <1>6, <1>7, <1>8, <1>9, StillCounted

(* What is ingested counts as the task's. *)
LEMMA CountedIngested ==
  ASSUME HInv, NEW h \in Sessions, Counted(h), Ingested(h)
  PROVE  Counted(h)'
<1> DEFINE content == run[h].content
           read == Len(ReadsFrom[content])
           task == [run[h].task EXCEPT !.total = @ + read]
<1>1. /\ run[h].pc = "observing" /\ run[h].todo = <<>> /\ session[h].pc = "idle"
      /\ UNCHANGED vars /\ NextUnit(h, task)
  BY DEF Ingested, UnitDone, At
<1>2. content \in Contents
  BY <1>1, RunFacts DEF Typed, WithContent
<1>3. read \in Nat
  BY <1>2, PlanAssumption
<1>4. run[h].task.total \in Nat /\ Count(Seen(h)) \in Nat
  BY CountFacts DEF Counted
<1>5. Begun(h) = read /\ Pending(h) = 0
  BY <1>1, <1>3 DEF Begun, Pending, At
<1> HIDE DEF read
<1>6. /\ run'[h].pc = "fetching" /\ run'[h].results = run[h].results
      /\ run'[h].task.total = run[h].task.total + read
  <2>1. run[h].task \in Tasks
    BY RunFacts
  <2>2. [task EXCEPT !.unit = @ + 1].total = run[h].task.total + read
    BY <2>1 DEF Tasks
  <2> HIDE DEF task
  <2> QED
    BY <1>1, <2>2, NextUnitFields
<1>7. Begun(h)' = 0 /\ Pending(h)' = 0
  BY <1>6 DEF Begun, Pending, At
<1>8. Alive(h)
  BY <1>1 DEF Alive
<1>9. Count(Seen(h))' = Count(Seen(h)) + 0 /\ disk' = disk
  BY <1>1, <1>4, SeenStays
<1>10. run'[h].task.total \in Nat
  BY <1>3, <1>4, <1>6
<1> QED
  BY <1>3, <1>4, <1>5, <1>6, <1>7, <1>8, <1>9, <1>10, StillCounted

(* A task that ends becomes a result. *)
LEMMA CountedTaskEnds ==
  ASSUME HInv, NEW h \in Sessions, Counted(h), TaskEnds(h)
  PROVE  Counted(h)'
<1> DEFINE task == run[h].task
           result == [status |-> Status(task), observations |-> task.total, own |-> task.own]
<1>1. /\ run' = [run EXCEPT ![h].results = Append(@, result), ![h].task = Fresh]
      /\ UNCHANGED vars /\ run[h].pc = "fetching"
  BY DEF TaskEnds, At
<1>2. result \in Results /\ result.observations = task.total
  <2>1. task \in Tasks
    BY RunFacts
  <2> HIDE DEF task
  <2> QED
    BY <2>1, TaskResult
<1> HIDE DEF result
<1>4. /\ run'[h].pc = "fetching" /\ run'[h].results = Append(run[h].results, result)
      /\ run'[h].task.total = 0
  <2>1. run'[h] = [run[h] EXCEPT !.results = Append(@, result), !.task = Fresh]
    BY <1>1 DEF HInv, Shared
  <2>2. Fresh.total = 0
    BY DEF Fresh
  <2> HIDE DEF task
  <2> QED
    BY <1>1, <2>1, <2>2, RunFacts
<1>5. /\ Summed(run'[h].results)
      /\ Total(run'[h].results) = Total(run[h].results) + task.total
  <2>1. Summed(run[h].results)
    BY DEF Counted
  <2> QED
    BY <1>2, <1>4, <2>1, SumOfOneMore
<1>6. /\ Begun(h) = 0 /\ Pending(h) = 0 /\ Begun(h)' = 0 /\ Pending(h)' = 0
      /\ (Alive(h)' => Alive(h))
  BY <1>1, <1>4, SeenStays DEF Begun, Pending, At, Alive
<1>7. /\ Count(disk) \in Nat /\ Count(Seen(h)) \in Nat
      /\ Total(run[h].results) \in Nat /\ task.total \in Nat
  BY CountFacts DEF Counted
<1>8. Count(Seen(h))' = Count(Seen(h)) /\ Count(disk)' = Count(disk)
  BY <1>1, SeenStays DEF Count, ObservationRows, RowsOf
<1>9. Claimed(h)' = Claimed(h)
  <2>1. Claimed(h) = Total(run[h].results) + task.total + 0
    BY <1>6 DEF Claimed
  <2>2. Claimed(h)' = (Total(run[h].results) + task.total) + 0 + 0
    BY <1>4, <1>5, <1>6 DEF Claimed
  <2> QED
    BY <1>7, <2>1, <2>2
<1> QED
  BY <1>5, <1>6, <1>8, <1>9 DEF Counted

(* What the calls of the repository leave. *)
LEMMA PrepareLeaves ==
  ASSUME HInv, NEW h \in Sessions, NEW row, Prepare(h, row)
  PROVE  /\ session[h].pc = "idle" /\ session'[h].pc = "ready"
         /\ disk' = disk /\ Count(Seen(h))' = Count(Seen(h))
<1>1. disk' = disk /\ work' = work /\ lock' = lock
  BY DEF Prepare
<1>2. session[h].pc = "idle" /\ session'[h].pc = "ready"
  BY DEF Prepare, HInv, Shared, Inv, DatabaseOK
<1>3. Count(Seen(h))' = Count(Seen(h))
  BY <1>1 DEF Seen, Count, ObservationRows, RowsOf
<1> QED
  BY <1>1, <1>2, <1>3

LEMMA CountedRecord ==
  ASSUME HInv, NEW h \in Sessions, Counted(h), Record(h)
  PROVE  Counted(h)'
<1>1. PICK row : Prepare(h, row)
  BY DEF Record, AddSourceArtifact, AddUnversioned
<1>2. /\ session[h].pc = "idle" /\ session'[h].pc = "ready"
      /\ disk' = disk /\ Count(Seen(h))' = Count(Seen(h))
  BY <1>1, PrepareLeaves
<1>3. /\ run[h].pc = "recording" /\ run'[h].pc = "recorded"
      /\ run'[h].results = run[h].results /\ run'[h].task = run[h].task
  BY ToFields DEF Record, At
<1>4. Begun(h) = 0 /\ Pending(h) = 0 /\ Begun(h)' = 0 /\ Pending(h)' = 0
  BY <1>3 DEF Begun, Pending, At
<1>5. run[h].task.total \in Nat /\ Count(Seen(h)) \in Nat
  BY CountFacts DEF Counted
<1>6. Alive(h)
  BY <1>2, <1>3 DEF Alive
<1>7. Count(Seen(h))' = Count(Seen(h)) + 0
  BY <1>2, <1>5
<1> QED
  BY <1>2, <1>3, <1>4, <1>5, <1>6, <1>7, StillCounted

(* An observation that is begun waits for its flush. *)
LEMMA CountedObserve ==
  ASSUME HInv, NEW h \in Sessions, Counted(h), Observe(h)
  PROVE  Counted(h)'
<1> DEFINE content == run[h].content
<1>1. PICK row : Prepare(h, row)
  BY DEF Observe, AddObservation, AddVersioned
<1>2. /\ session[h].pc = "idle" /\ session'[h].pc = "ready"
      /\ disk' = disk /\ Count(Seen(h))' = Count(Seen(h))
  BY <1>1, PrepareLeaves
<1>3. /\ run[h].pc = "observing" /\ run[h].todo # <<>>
      /\ run' = [run EXCEPT ![h].todo = Tail(@)]
  BY DEF Observe, At
<1>4. /\ run'[h].pc = "observing" /\ run'[h].content = content
      /\ run'[h].todo = Tail(run[h].todo)
      /\ run'[h].results = run[h].results /\ run'[h].task = run[h].task
  <2> DEFINE rest == Tail(run[h].todo)
  <2>1. run'[h] = [run[h] EXCEPT !.todo = rest]
    BY <1>3 DEF HInv, Shared
  <2> HIDE DEF rest
  <2>2. run'[h] = [pc |-> run[h].pc, results |-> run[h].results, task |-> run[h].task,
                   content |-> content, todo |-> rest]
    BY <2>1, RunFacts
  <2> QED
    BY <1>3, <2>2 DEF rest
<1>5. Len(run[h].todo) \in Nat \ {0} /\ Len(Tail(run[h].todo)) = Len(run[h].todo) - 1
  <2>1. run[h].todo \in Seq(Keys)
    BY RunFacts
  <2> QED
    BY <1>3, <2>1
<1>6. Len(ReadsFrom[content]) \in Nat
  <2>1. content \in Contents
    BY <1>3, RunFacts DEF Typed, WithContent
  <2> QED
    BY <2>1, PlanAssumption
<1>7. /\ Begun(h)' = Begun(h) + 1 /\ Begun(h) \in Int
      /\ Pending(h) = 0 /\ Pending(h)' = 1
  <2>1. Begun(h) = Len(ReadsFrom[content]) - Len(run[h].todo)
    BY <1>3 DEF Begun, At
  <2>2. Begun(h)' = Len(ReadsFrom[content]) - (Len(run[h].todo) - 1)
    BY <1>4, <1>5 DEF Begun, At
  <2>3. Pending(h) = 0 /\ Pending(h)' = 1
    BY <1>2, <1>3, <1>4 DEF Pending, At
  <2> QED
    BY <1>5, <1>6, <2>1, <2>2, <2>3
<1>8. run[h].task.total \in Nat /\ Count(Seen(h)) \in Nat
  BY CountFacts DEF Counted
<1>9. Alive(h) /\ Begun(h) \in Nat
  BY <1>2, <1>3 DEF Alive, Counted
<1>10. Count(Seen(h))' = Count(Seen(h)) + 0
  BY <1>2, <1>8
<1> QED
  BY <1>2, <1>4, <1>7, <1>8, <1>9, <1>10, StillCounted

(* The event of an observation could not be written: the observation is in *)
(* the transaction and the harvest no longer counts it.                    *)
LEMMA CountedCaughtEvent ==
  ASSUME HInv, NEW h \in Sessions, Waits(h), Counted(h), CaughtEvent(h)
  PROVE  Counted(h)'
<1>1. AppendRaises(h) /\ UnitFails(h, TRUE)
  BY DEF CaughtEvent
<1>2. /\ session[h].pc = "inserted" /\ disk' = disk /\ work' = work /\ lock' = lock
  BY <1>1 DEF AppendRaises
<1>3. Count(Seen(h))' = Count(Seen(h))
  BY <1>2 DEF Seen, Count, ObservationRows, RowsOf
<1>4. /\ run'[h].pc = "fetching" /\ run'[h].results = run[h].results
      /\ run'[h].task.total = run[h].task.total
  BY <1>1, UnitFailsFields
<1>5. run[h].task.total \in Nat /\ Count(Seen(h)) \in Nat /\ Begun(h) \in Int
  BY CountFacts DEF Counted
<1>6. Pending(h) = 0 /\ Pending(h)' = 0 /\ Begun(h)' = 0
  BY <1>2, <1>4 DEF Pending, Begun, At
<1>7. Alive(h) /\ Begun(h) \in Nat
  BY <1>2 DEF Waits, Alive, Counted
<1>8. Count(Seen(h))' = Count(Seen(h)) + 0
  BY <1>3, <1>5
<1> QED
  BY <1>2, <1>4, <1>5, <1>6, <1>7, <1>8, StillCounted

(* A flush inserts the observation that is pending. *)
LEMMA CountedInsert ==
  ASSUME HInv, NEW h \in Sessions, Waits(h), Counted(h), Insert(h), run' = run
  PROVE  Counted(h)'
<1> DEFINE db == Seen(h)
           row == session[h].row
<1>1. /\ session[h].pc = "ready" /\ session'[h].pc = "inserted"
      /\ lock' = h /\ disk' = disk
      /\ work'[h].rows = Append(db.rows, row)
  BY DEF Insert, Goto, HInv, Shared, Inv, DatabaseOK, SessionOK
<1>2. row \in Row /\ IsDatabase(db)
  BY <1>1, SeenSound DEF HInv, Shared, Inv, SessionOK
<1>3. OneMore(work'[h], db) /\ work'[h].rows[Len(db.rows) + 1] = row
  <2>1. db.rows \in Seq(Row)
    BY <1>2 DEF IsDatabase
  <2> HIDE DEF db, row
  <2> QED
    BY <1>1, <1>2, <2>1, DatabaseFacts DEF OneMore
<1>4. At(h, "observing") => row.type = "observation"
  <2>1. HarvestOK(h)
    BY DEF HInv
  <2> QED
    BY <1>1, <2>1 DEF HarvestOK, At
<1>5. Count(work'[h]) = IF row.type = "observation" THEN Count(db) + 1 ELSE Count(db)
  BY <1>3, CountOneMore
<1>6. Count(Seen(h))' = Count(work'[h])
  BY <1>1 DEF Seen, Count, ObservationRows, RowsOf
<1>7. run[h].task.total \in Nat /\ Count(db) \in Nat /\ Begun(h) \in Int
  BY CountFacts DEF Counted
<1> DEFINE more == IF row.type = "observation" THEN 1 ELSE 0
<1>8. more \in Nat /\ Count(Seen(h))' = Count(db) + more
  BY <1>5, <1>6, <1>7
<1>9. Alive(h) /\ Begun(h) \in Nat
  BY <1>1 DEF Waits, Alive, Counted
<1>10. /\ Begun(h)' = Begun(h) /\ Pending(h)' = 0
       /\ Pending(h) = IF At(h, "observing") THEN 1 ELSE 0
  BY <1>1 DEF Begun, Pending, At
<1>11. Pending(h) <= more /\ Pending(h) \in {0, 1}
  BY <1>4, <1>10
<1> HIDE DEF more, db
<1> QED
  BY <1>1, <1>7, <1>8, <1>9, <1>10, <1>11, StillCounted DEF db

LEMMA CountedAppendEvent ==
  ASSUME HInv, NEW h \in Sessions, Waits(h), Counted(h), AppendEvent(h), run' = run
  PROVE  Counted(h)'
<1>1. /\ session[h].pc = "inserted" /\ session'[h].pc = "idle"
      /\ lock' = lock /\ disk' = disk /\ work'[h].rows = work[h].rows
  BY DEF AppendEvent, Goto, HInv, Shared, Inv, DatabaseOK, SessionOK, Sound, IsDatabase
<1>2. Count(Seen(h))' = Count(Seen(h))
  BY <1>1 DEF Seen, Count, ObservationRows, RowsOf
<1>3. run[h].task.total \in Nat /\ Count(Seen(h)) \in Nat /\ Begun(h) \in Int
  BY CountFacts DEF Counted
<1>4. Alive(h) /\ Begun(h) \in Nat
  BY <1>1 DEF Waits, Alive, Counted
<1>5. Begun(h)' = Begun(h) /\ Pending(h)' = 0 /\ Pending(h) = 0
  BY <1>1 DEF Begun, Pending, At
<1>6. Count(Seen(h))' = Count(Seen(h)) + 0
  BY <1>2, <1>3
<1> QED
  BY <1>1, <1>3, <1>4, <1>5, <1>6, StillCounted

(* A harvest that can no longer commit has nothing to account for. *)
LEMMA CountedEnds ==
  ASSUME HInv, NEW h \in Sessions, Counted(h),
         \/ FetchBreaks(h) \/ Report(h) \/ CommitRaises(h) \/ Die(h) \/ CaughtBroken(h)
         \/ FlushFails(h) /\ run' = run
  PROVE  Counted(h)'
<1>1. run'[h].results = run[h].results /\ ~Alive(h)'
  <2>1. CASE FetchBreaks(h) \/ Report(h) \/ CommitRaises(h) \/ Die(h)
    <3>1. PICK pc \in {"reported", "aborted", "dead"} : To(h, pc)
      BY <2>1 DEF FetchBreaks, Report, CommitRaises, Die
    <3> QED
      BY <3>1, ToFields DEF Alive
  <2>2. CASE CaughtBroken(h)
    <3>1. session'[h].pc = "broken"
      BY <2>2 DEF CaughtBroken, vars
    <3>2. PICK own : UnitFails(h, own)
      BY <2>2, Zenon DEF CaughtBroken
    <3> QED
      BY <3>1, <3>2, UnitFailsFields DEF Alive
  <2>3. CASE FlushFails(h) /\ run' = run
    <3>1. session'[h].pc = "broken"
      BY <2>3 DEF FlushFails, Goto, Discard, HInv, Shared, Inv, DatabaseOK, SessionOK
    <3> QED
      BY <2>3, <3>1 DEF Alive
  <2> QED
    BY <2>1, <2>2, <2>3
<1>2. Summed(run[h].results)
  BY DEF Counted
<1> QED
  BY <1>1, <1>2 DEF Counted

LEMMA CountedOwn ==
  ASSUME HInv, NEW h \in Sessions, Waits(h), Counted(h), HarvestStep(h)
  PROVE  Counted(h)'
<1>1. CASE Flush(h)
  BY <1>1, CountedInsert, CountedAppendEvent, CountedEnds DEF Flush
<1>2. CASE Normalize(h)
  BY <1>2, CountedNormalize, CountedUnits
<1> QED
  BY <1>1, <1>2, CountedUnits, CountedIngested, CountedTaskEnds, CountedRecord, CountedObserve,
     CountedCaughtEvent, CountedEnds
  DEF HarvestStep

LEMMA WaitsOwn ==
  ASSUME HInv, NEW h \in Sessions, Waits(h), HarvestStep(h)
  PROVE  Waits(h)'
<1>1. CASE \/ Fetch(h) \/ FetchNothing(h) \/ FetchFails(h) \/ FindStored(h)
           \/ FindCorrupt(h) \/ FindAbsent(h) \/ ReplaceFile(h) \/ StoreFails(h)
           \/ Normalize(h) \/ Ingested(h) \/ TaskEnds(h) \/ CaughtBroken(h)
  <2>1. UNCHANGED vars /\ session[h].pc \notin {"ready", "inserted"}
    BY <1>1
    DEF Fetch, FetchNothing, FetchFails, FindStored, FindCorrupt, FindAbsent, ReplaceFile,
        StoreFails, Normalize, Ingested, TaskEnds, CaughtBroken, Requesting, At, Waits
  <2> QED
    BY <2>1 DEF Waits, vars
<1>2. CASE Record(h) \/ Observe(h)
  <2>1. CASE Record(h)
    BY <2>1, ToFields DEF Record, Waits
  <2>2. CASE Observe(h)
    <3>1. run'[h] = [run[h] EXCEPT !.todo = Tail(@)] /\ run[h].pc = "observing"
      BY <2>2 DEF Observe, At, HInv, Shared
    <3>2. run'[h].pc = "observing"
      BY <3>1, RunFacts
    <3> QED
      BY <3>2 DEF Waits
  <2> QED
    BY <1>2, <2>1, <2>2
<1>3. CASE CaughtEvent(h)
  <2>1. session'[h].pc = "idle"
    BY <1>3, PlanAssumption
    DEF CaughtEvent, AppendRaises, Goto, AfterException, HInv, Shared, Inv, DatabaseOK, SessionOK
  <2> QED
    BY <2>1 DEF Waits
<1>4. CASE FetchBreaks(h) \/ CommitRaises(h) \/ Die(h)
  <2>1. CloseSession(h)
    BY <1>4 DEF FetchBreaks, CommitRaises, Die
  <2>2. session'[h].pc \notin {"ready", "inserted"}
    BY <2>1 DEF CloseSession, Close, vars, HInv, Shared, Inv, DatabaseOK
  <2> QED
    BY <2>2 DEF Waits
<1>5. CASE Report(h)
  BY <1>5 DEF Report, Commit, vars, Waits
<1>6. CASE Flush(h)
  <2>1. /\ run' = run /\ session[h].pc \in {"ready", "inserted"}
        /\ session'[h].pc \in {"inserted", "idle", "broken"}
    BY <1>6
    DEF Flush, Insert, AppendEvent, FlushFails, Goto, Discard, HInv, Shared, Inv, DatabaseOK,
        SessionOK
  <2> QED
    BY <2>1 DEF Waits
<1> QED
  BY <1>1, <1>2, <1>3, <1>4, <1>5, <1>6 DEF HarvestStep

(* What a harvest does to another: it commits, when the other has nothing  *)
(* in a transaction of its own.                                            *)
LEMMA RunFrame ==
  ASSUME HInv, NEW h \in Sessions, NEW t \in Sessions \ {h}, HarvestStep(h)
  PROVE  run'[t] = run[t]
<1>1. /\ \A pc : To(h, pc) => run'[t] = run[t]
      /\ \A task : NextUnit(h, task) => run'[t] = run[t]
  BY DEF To, NextUnit, HInv, Shared
<1>2. /\ \A own : UnitFails(h, own) => run'[t] = run[t]
      /\ UnitDone(h) => run'[t] = run[t]
  BY <1>1, Zenon DEF UnitFails, UnitDone
<1>3. CASE FetchNothing(h) \/ Ingested(h)
  BY <1>1, <1>2, <1>3 DEF FetchNothing, Ingested
<1>4. CASE FetchFails(h) \/ FindCorrupt(h) \/ StoreFails(h) \/ CaughtEvent(h) \/ CaughtBroken(h)
  <2>1. PICK own : UnitFails(h, own)
    BY <1>4, Zenon DEF FetchFails, FindCorrupt, StoreFails, CaughtEvent, CaughtBroken
  <2> QED
    BY <1>2, <2>1
<1>5. CASE \/ FetchBreaks(h) \/ FindStored(h) \/ FindAbsent(h) \/ ReplaceFile(h)
           \/ Record(h) \/ Report(h) \/ CommitRaises(h) \/ Die(h)
  BY <1>1, <1>5
  DEF FetchBreaks, FindStored, FindAbsent, ReplaceFile, Record, Report, CommitRaises, Die
<1>6. CASE Fetch(h) \/ Observe(h)
  BY <1>6 DEF Fetch, Observe, HInv, Shared
<1>7. CASE Normalize(h)
  BY <1>2, <1>7 DEF Normalize, HInv, Shared
<1>8. CASE TaskEnds(h)
  <2>1. PICK result : run' = [run EXCEPT ![h].results = Append(@, result), ![h].task = Fresh]
    BY <1>8 DEF TaskEnds
  <2> QED
    BY <2>1 DEF HInv, Shared
<1>9. CASE Flush(h)
  BY <1>9 DEF Flush
<1> QED
  BY <1>3, <1>4, <1>5, <1>6, <1>7, <1>8, <1>9 DEF HarvestStep

LEMMA OthersCounted ==
  ASSUME HInv, NEW h \in Sessions, NEW t \in Sessions \ {h}, Waits(t), Counted(t),
         HarvestStep(h)
  PROVE  Waits(t)' /\ Counted(t)'
<1>1. RepositoryCall(h) \/ SessionStep(h) \/ UNCHANGED vars
  BY SessionOf
<1>2. (lock' = t <=> lock = t) /\ work'[t] = work[t] /\ session'[t] = session[t]
  BY <1>1, SessionFrame DEF HInv, Shared
<1>3. run'[t] = run[t]
  BY RunFrame
<1>4. disk' = disk \/ lock # t
  <2>1. CASE RepositoryCall(h)
    BY <2>1
    DEF RepositoryCall, AddSourceArtifact, AddEvidence, AddClaim, AddObservation,
        AddDerivedMetric, AddTaxonomyMapping, AddChallenge, ReviseChallenge, AddUnversioned,
        AddVersioned, Prepare
  <2>2. CASE SessionStep(h)
    BY <2>2 DEF SessionStep, Insert, AppendEvent, AppendRaises, FlushFails, Discard, Close, Commit
  <2>3. CASE UNCHANGED vars
    BY <2>3 DEF vars
  <2> QED
    BY <1>1, <2>1, <2>2, <2>3
<1>5. /\ Begun(t)' = Begun(t) /\ Pending(t)' = Pending(t) /\ Claimed(t)' = Claimed(t)
      /\ Alive(t)' <=> Alive(t)
  BY <1>2, <1>3 DEF Begun, Pending, Claimed, Alive, At
<1>6. Waits(t)' /\ Summed(run[t].results)'
  BY <1>2, <1>3 DEF Waits, Counted
<1>7. CASE disk' = disk
  <2>1. Count(disk)' = Count(disk) /\ Count(Seen(t))' = Count(Seen(t))
    BY <1>2, <1>7 DEF Seen, Count, ObservationRows, RowsOf
  <2> QED
    BY <1>5, <1>6, <2>1 DEF Counted
<1>8. CASE lock # t
  <2>1. Seen(t) = disk /\ Seen(t)' = disk'
    BY <1>2, <1>8 DEF Seen
  <2>2. Count(disk)' \in Nat
    <3>1. HInv'
      BY HInvStep DEF HarvestNext
    <3>2. IsDatabase(disk)'
      BY <3>1 DEF HInv, Shared, Inv, DatabaseOK, Sound
    <3>3. IsDatabase(disk')
      BY <3>2 DEF IsDatabase
    <3>4. Len(disk'.rows) \in Nat
      BY <3>3, DatabaseFacts
    <3>5. Count(disk') \in Nat
      BY <3>4, CountIsNat
    <3> QED
      BY <3>5 DEF Count, ObservationRows, RowsOf
  <2>3. /\ Count(disk) \in Nat /\ Total(run[t].results) \in Nat
        /\ run[t].task.total \in Nat /\ Begun(t) \in Int /\ Pending(t) \in {0, 1}
    BY CountFacts DEF Counted
  <2>4. ASSUME Alive(t)'
        PROVE  Begun(t)' \in Nat /\ Count(disk)' + Claimed(t)' <= Count(disk)' + Pending(t)'
    <3>1. Begun(t) \in Nat /\ Count(disk) + Claimed(t) <= Count(disk) + Pending(t)
      BY <1>5, <2>1, <2>4 DEF Counted
    <3>2. Claimed(t) \in Int
      BY <2>3 DEF Claimed
    <3> QED
      BY <1>5, <2>2, <2>3, <3>1, <3>2
  <2>5. Count(Seen(t))' = Count(disk)'
    BY <2>1 DEF Count, ObservationRows, RowsOf
  <2> QED
    BY <1>6, <2>4, <2>5 DEF Counted
<1> QED
  BY <1>4, <1>7, <1>8

LEMMA CountedInvariance == HarvestSpec => []CInv
<1>1. ASSUME CInv, [HarvestNext]_harvestVars
      PROVE  CInv'
  <2>1. HInv'
    BY <1>1, HInvStep DEF CInv
  <2>2. ASSUME NEW h \in Sessions, HarvestStep(h), NEW t \in Sessions
        PROVE  Waits(t)' /\ Counted(t)'
    BY <1>1, <2>2, CountedOwn, WaitsOwn, OthersCounted DEF CInv
  <2>3. ASSUME UNCHANGED harvestVars, NEW t \in Sessions
        PROVE  Waits(t)' /\ Counted(t)'
    <3>1. disk' = disk /\ lock' = lock /\ work' = work /\ session' = session /\ run' = run
      BY <2>3 DEF harvestVars
    <3>2. Waits(t) /\ Counted(t)
      BY <1>1 DEF CInv
    <3> QED
      BY <3>1, <3>2
      DEF Waits, Counted, Alive, Begun, Pending, Claimed, At, Count, Seen, ObservationRows, RowsOf
  <2> QED
    BY <1>1, <2>1, <2>2, <2>3 DEF CInv, HarvestNext
<1> QED
  BY <1>1, CountedStart, PTL DEF HarvestSpec

(* The one step that makes a report of a harvest that was at its plan. *)
LEMMA OnlyReport ==
  ASSUME HInv, NEW h \in Sessions, HarvestStep(h), At(h, "fetching"), run'[h].pc = "reported"
  PROVE  Report(h)
<1>1. \A pc : To(h, pc) => run'[h].pc = pc
  BY ToFields
<1>2. /\ \A task : NextUnit(h, task) => run'[h].pc = "fetching"
      /\ \A own : UnitFails(h, own) => run'[h].pc = "fetching"
  BY NextUnitFields, UnitFailsFields
<1>3. ~FetchNothing(h)
  BY <1>2 DEF FetchNothing
<1>4. ~(FetchFails(h) \/ CaughtEvent(h))
  BY <1>2 DEF FetchFails, CaughtEvent
<1>5. ~(FetchBreaks(h) \/ CommitRaises(h) \/ Die(h))
  BY <1>1 DEF FetchBreaks, CommitRaises, Die
<1>6. ~Fetch(h)
  <2> SUFFICES ASSUME Fetch(h)
               PROVE  FALSE
    OBVIOUS
  <2>1. PICK c : run'[h] = [run[h] EXCEPT !.pc = "storing", !.content = c]
    BY DEF Fetch, HInv, Shared
  <2> QED
    BY <2>1, RunFacts
<1>7. ~TaskEnds(h)
  <2> SUFFICES ASSUME TaskEnds(h)
               PROVE  FALSE
    OBVIOUS
  <2>1. PICK result : run'[h] = [run[h] EXCEPT !.results = Append(@, result), !.task = Fresh]
    BY DEF TaskEnds, HInv, Shared
  <2> QED
    BY <2>1, RunFacts DEF At
<1>8. ~Flush(h)
  BY DEF Flush, At
<1>9. ~(\/ FindStored(h) \/ FindCorrupt(h) \/ FindAbsent(h) \/ ReplaceFile(h)
        \/ StoreFails(h) \/ Record(h) \/ Normalize(h) \/ Observe(h) \/ Ingested(h)
        \/ CaughtBroken(h))
  BY DEF FindStored, FindCorrupt, FindAbsent, ReplaceFile, StoreFails, Record, Normalize,
         Observe, Ingested, CaughtBroken, At
<1> QED
  BY <1>3, <1>4, <1>5, <1>6, <1>7, <1>8, <1>9 DEF HarvestStep

----------------------------------------------------------------------------
(* Harvests use the database as sessions of EvidenceLedger: whatever is    *)
(* proved of these holds of harvests.                                      *)
THEOREM HarvestsKeepToLedger == HarvestSpec => Spec
<1>1. HarvestInit => Init
  BY DEF HarvestInit
<1> QED
  BY <1>1, HarvestInvariance, LedgerStep, PTL DEF HarvestSpec, Spec

(* No committed row names a file that is not there or holds something      *)
(* else, however harvests interleave, fail and die.                        *)
THEOREM FilesBeforeRows == HarvestSpec => []StoredBeforeRecorded
<1>1. HInv => StoredBeforeRecorded
  BY DEF HInv, Shared, Sourced, FilesThere, StoredBeforeRecorded, Artifacts
<1> QED
  BY <1>1, HarvestInvariance, PTL

(* A committed observation cites artifacts of the content it was read in.  *)
THEOREM ObservationsCiteSource == HarvestSpec => []CitesItsSource
<1>1. HInv => CitesItsSource
  BY DEF HInv, Shared, Sourced, Cites, CitesItsSource
<1> QED
  BY <1>1, HarvestInvariance, PTL

(* The ledger that harvests write verifies.                                *)
THEOREM HarvestedLedgerVerifies == HarvestSpec => [](ChainVerifies /\ OneLineage)
BY HarvestsKeepToLedger, ChainAlwaysVerifies, LineageHolds, PTL

(* A harvest that reports has committed the observations it reports        *)
(* (harvest.py): those of units that failed half-way come on top.          *)
THEOREM ReportedHarvestsCommitted == HarvestSpec => ReportedAreCommitted
<1>1. ASSUME CInv, [HarvestNext]_harvestVars, NEW h \in Sessions,
             At(h, "fetching"), run'[h].pc = "reported"
      PROVE  Cardinality(ObservationRows(disk')) >=
               Cardinality(ObservationRows(disk)) + Total(run[h].results)
  <2>1. PICK t \in Sessions : HarvestStep(t)
    BY <1>1 DEF harvestVars, HarvestNext, At
  <2>2. t = h
    BY <1>1, <2>1, RunFrame DEF CInv, At
  <2>3. Report(h)
    BY <1>1, <2>1, <2>2, OnlyReport DEF CInv
  <2>4. session[h].pc = "idle" /\ disk' = Seen(h)
    BY <2>3, ConstantsAssumption DEF Report, Commit, vars, Seen
  <2>5. Count(disk) + Total(run[h].results) <= Count(Seen(h))
    <3>1. /\ Count(disk) + Claimed(h) <= Count(Seen(h)) + Pending(h)
          /\ Summed(run[h].results)
      BY <1>1, <2>4 DEF CInv, Counted, Alive, At
    <3>2. Pending(h) = 0 /\ Begun(h) = 0
      BY <1>1, NothingBegun DEF At
    <3>3. /\ Count(disk) \in Nat /\ Count(Seen(h)) \in Nat
          /\ Total(run[h].results) \in Nat /\ run[h].task.total \in Nat
      BY <1>1, <3>1, CountFacts DEF CInv
    <3> QED
      BY <3>1, <3>2, <3>3 DEF Claimed
  <2>6. Count(Seen(h)) \in Nat /\ Count(disk) \in Nat /\ Total(run[h].results) \in Nat
    BY <1>1, CountFacts DEF CInv, Counted
  <2> QED
    BY <2>4, <2>5, <2>6 DEF Count
<1>2. CInv /\ [HarvestNext]_harvestVars =>
        [\A h \in Sessions :
           At(h, "fetching") /\ run'[h].pc = "reported" =>
             Cardinality(ObservationRows(disk')) >=
               Cardinality(ObservationRows(disk)) + Total(run[h].results)]_harvestVars
  BY <1>1
<1> QED
  BY <1>2, CountedInvariance, PTL DEF HarvestSpec, ReportedAreCommitted
=============================================================================
