------------------------------ MODULE Harvest ------------------------------
(***************************************************************************)
(* A harvest command (cli.py, harvest.py, ingestion.py, artifact_store.py) *)
(* works through its plan of tasks: it fetches what each task asks for, a  *)
(* BLS task in one request and a QWI task in one per quarter, stores the   *)
(* content as a file named by its hash, records the file and what the      *)
(* normalizer reads in it, all in one session, and commits at the end.     *)
(*                                                                         *)
(* The sessions of EvidenceLedger are the harvests here, of the same plan, *)
(* on one database and one artifact directory, at once or one after the    *)
(* other.                                                                  *)
(***************************************************************************)
EXTENDS EvidenceLedger

CONSTANTS
  Plan,       \* the tasks: of each, the contents a request may be answered with;
              \* a task whose connector is not configured makes no request
  ReadsFrom,  \* for each content, the keys of its observations
  Unreadable  \* the contents that the normalizer refuses

VARIABLES
  files,      \* the artifact directory: what is found at the path of a content
  run         \* where each harvest is

harvestVars == <<disk, lock, work, session, files, run>>

ASSUME PlanAssumption ==
  /\ Swallowers = Sessions
  /\ Plan \in Seq(Seq(SUBSET Contents))
  /\ ReadsFrom \in [Contents -> Seq(Keys)]
  /\ \A c \in Contents \ Unreadable : ReadsFrom[c] # <<>>

Fresh == [unit |-> 1, total |-> 0, errors |-> 0, own |-> FALSE]

NewRun ==
  [pc |-> "fetching", results |-> <<>>, task |-> Fresh, content |-> None, todo |-> <<>>]

HarvestInit ==
  /\ Init
  /\ files \in [Contents -> {"absent", "good", "corrupt"}]
  /\ run = [h \in Sessions |-> NewRun]

(* Mutant: a file that is there is taken to hold what its name says. *)
TrustsWhatIsThere(c) == files[c] # "absent"

(* ArtifactStore.put finds the content stored already. *)
AlreadyStored(c) == files[c] = "good"

Units(h) == Plan[Len(run[h].results) + 1]

At(h, pc) == run[h].pc = pc

Requesting(h) ==
  /\ At(h, "fetching")
  /\ Len(run[h].results) < Len(Plan)
  /\ run[h].task.unit <= Len(Units(h))

To(h, pc) == run' = [run EXCEPT ![h].pc = pc]

NextUnit(h, task) ==
  run' = [run EXCEPT ![h].pc = "fetching", ![h].todo = <<>>, ![h].content = None,
                     ![h].task = [task EXCEPT !.unit = @ + 1]]

(* own is a history variable: the task met a failure of its own, and not   *)
(* only that of a session an earlier task has broken.                      *)
UnitFails(h, own) ==
  NextUnit(h, [run[h].task EXCEPT !.errors = @ + 1, !.own = @ \/ own])

UnitDone(h) == NextUnit(h, [run[h].task EXCEPT !.total = @ + Len(ReadsFrom[run[h].content])])

CloseSession(h) ==
  IF session[h].pc # "idle" \/ lock = h THEN Close(h) ELSE UNCHANGED vars

----------------------------------------------------------------------------
Fetch(h) ==
  /\ Requesting(h)
  /\ \E c \in Units(h)[run[h].task.unit] :
       run' = [run EXCEPT ![h].pc = "storing", ![h].content = c]
  /\ UNCHANGED <<vars, files>>

(* The source has no data for the series or the quarter. *)
FetchNothing(h) ==
  /\ Requesting(h)
  /\ NextUnit(h, run[h].task)
  /\ UNCHANGED <<vars, files>>

(* An HTTP status, a body that is not JSON, a quota: SourceFetchError. *)
FetchFails(h) ==
  /\ Requesting(h)
  /\ UnitFails(h, TRUE)
  /\ UNCHANGED <<vars, files>>

(* A connection that is refused or times out: what client.get raises is    *)
(* neither SourceFetchError nor ValueError, and leaves run and harvest.    *)
FetchBreaks(h) ==
  /\ Requesting(h)
  /\ To(h, "aborted")
  /\ CloseSession(h)
  /\ UNCHANGED files

(* ArtifactStore.put looks what is at the path, and writes a temporary     *)
(* file that it then renames.                                              *)
FindStored(h) ==
  /\ At(h, "storing")
  /\ AlreadyStored(run[h].content)
  /\ To(h, "recording")
  /\ UNCHANGED <<vars, files>>

FindCorrupt(h) ==
  /\ At(h, "storing")
  /\ ~AlreadyStored(run[h].content) /\ files[run[h].content] # "absent"
  /\ UnitFails(h, TRUE)
  /\ UNCHANGED <<vars, files>>

FindAbsent(h) ==
  /\ At(h, "storing")
  /\ files[run[h].content] = "absent"
  /\ To(h, "replacing")
  /\ UNCHANGED <<vars, files>>

ReplaceFile(h) ==
  /\ At(h, "replacing")
  /\ files' = [files EXCEPT ![run[h].content] = "good"]
  /\ To(h, "recording")
  /\ UNCHANGED vars

(* The disk is full. *)
StoreFails(h) ==
  /\ At(h, "replacing")
  /\ UnitFails(h, TRUE)
  /\ UNCHANGED <<vars, files>>

Record(h) ==
  /\ At(h, "recording")
  /\ AddSourceArtifact(h, run[h].content)
  /\ To(h, "recorded")
  /\ UNCHANGED files

Normalize(h) ==
  /\ At(h, "recorded") /\ session[h].pc = "idle"
  /\ IF run[h].content \in Unreadable
       THEN UnitFails(h, TRUE)
       ELSE run' = [run EXCEPT ![h].pc = "observing", ![h].todo = ReadsFrom[run[h].content]]
  /\ UNCHANGED <<vars, files>>

(* Mutant: every observation cites the first artifact of the run. *)
FirstArtifact(h) ==
  CHOOSE i \in RowsOf(Seen(h), {"source_artifact"}) :
    \A j \in RowsOf(Seen(h), {"source_artifact"}) : i <= j

(* The artifact that this ingest has recorded. *)
RecordedArtifact(h) ==
  CHOOSE i \in RowsOf(Seen(h), {"source_artifact"}) :
    \A j \in RowsOf(Seen(h), {"source_artifact"}) : j <= i

Observe(h) ==
  /\ At(h, "observing") /\ run[h].todo # <<>>
  /\ AddObservation(h, Head(run[h].todo), {RecordedArtifact(h)}, run[h].content)
  /\ run' = [run EXCEPT ![h].todo = Tail(@)]
  /\ UNCHANGED files

Ingested(h) ==
  /\ At(h, "observing") /\ run[h].todo = <<>> /\ session[h].pc = "idle"
  /\ UnitDone(h)
  /\ UNCHANGED <<vars, files>>

(* except Exception: of the event that could not be written ...            *)
CaughtEvent(h) ==
  /\ AppendRaises(h)
  /\ UnitFails(h, TRUE)
  /\ UNCHANGED files

(* ... of a flush that failed, or of a session that an earlier failure     *)
(* left unusable.                                                          *)
CaughtBroken(h) ==
  /\ run[h].pc \in {"recording", "recorded", "observing"}
  /\ session[h].pc = "broken"
  /\ UnitFails(h, ~At(h, "recording"))
  /\ UNCHANGED <<vars, files>>

Status(task) ==
  CASE task.total > 0 -> "ok"
    [] task.total = 0 /\ task.errors > 0 -> "error"
    [] OTHER -> "skipped"

TaskEnds(h) ==
  /\ At(h, "fetching")
  /\ Len(run[h].results) < Len(Plan)
  /\ run[h].task.unit > Len(Units(h))
  /\ LET task == run[h].task
         result == [status |-> Status(task), observations |-> task.total, own |-> task.own]
     IN  run' = [run EXCEPT ![h].results = Append(@, result), ![h].task = Fresh]
  /\ UNCHANGED <<vars, files>>

----------------------------------------------------------------------------
PlanDone(h) == At(h, "fetching") /\ Len(run[h].results) = Len(Plan)

(* Mutant: the report is printed and the session closed without a commit. *)
ReportUncommitted(h) ==
  /\ PlanDone(h) /\ session[h].pc = "idle"
  /\ CloseSession(h)
  /\ To(h, "reported")
  /\ UNCHANGED files

(* session.commit(), and the report is printed. *)
Report(h) ==
  /\ PlanDone(h) /\ session[h].pc = "idle"
  /\ IF lock = h THEN Commit(h) ELSE UNCHANGED vars
  /\ To(h, "reported")
  /\ UNCHANGED files

(* The commit raises: the session was left broken, or a reader of the      *)
(* database does not let go of it for 5 s.                                 *)
CommitRaises(h) ==
  /\ PlanDone(h)
  /\ session[h].pc = "broken" \/ lock = h
  /\ To(h, "aborted")
  /\ CloseSession(h)
  /\ UNCHANGED files

(* The process is killed. *)
Die(h) ==
  /\ run[h].pc \notin {"reported", "aborted", "dead"}
  /\ To(h, "dead")
  /\ CloseSession(h)
  /\ UNCHANGED files

(* The session's own steps between two calls of the repository. *)
Flush(h) ==
  /\ Insert(h) \/ AppendEvent(h) \/ FlushFails(h)
  /\ UNCHANGED <<files, run>>

HarvestStep(h) ==
  \/ Fetch(h) \/ FetchNothing(h) \/ FetchFails(h) \/ FetchBreaks(h)
  \/ FindStored(h) \/ FindCorrupt(h) \/ FindAbsent(h) \/ ReplaceFile(h) \/ StoreFails(h)
  \/ Record(h) \/ Normalize(h) \/ Observe(h) \/ Ingested(h) \/ TaskEnds(h)
  \/ CaughtEvent(h) \/ CaughtBroken(h)
  \/ Report(h) \/ CommitRaises(h) \/ Die(h) \/ Flush(h)

HarvestNext == \E h \in Sessions : HarvestStep(h)

HarvestSpec == HarvestInit /\ [][HarvestNext]_harvestVars

----------------------------------------------------------------------------
ObservationRows(db) == RowsOf(db, {"observation"})

Total(results) == LET sum[n \in 0 .. Len(results)] ==
                        IF n = 0 THEN 0 ELSE sum[n - 1] + results[n].observations
                  IN  sum[Len(results)]

(* The database never cites a file that is not there or holds something    *)
(* else (specs/001, FR-002: content-addressed artifacts), though harvests  *)
(* share the directory, die between its steps and find files corrupted.    *)
StoredBeforeRecorded ==
  \A i \in RowsOf(disk, {"source_artifact"}) : files[disk.rows[i].says] = "good"

(* An observation cites the artifact it was read in, however the           *)
(* artifacts, observations and failures of the requests follow each other. *)
CitesItsSource ==
  \A i \in ObservationRows(disk) :
    \A a \in disk.rows[i].refs : disk.rows[a].says = disk.rows[i].says

(* A harvest that reports has committed the observations it reports.       *)
ReportedAreCommitted ==
  [][\A h \in Sessions :
       At(h, "fetching") /\ run'[h].pc = "reported" =>
         Cardinality(ObservationRows(disk')) >=
           Cardinality(ObservationRows(disk)) + Total(run[h].results)]_harvestVars

(* HarvestRunner (harvest.py:161): "Each task is independent: a failure in *)
(* one does not abort the rest."  Unless it is killed, a harvest gets      *)
(* through its plan, and a task it reports as an error failed by itself.   *)
TasksIndependent ==
  \A h \in Sessions :
    /\ ~At(h, "aborted")
    /\ \A t \in 1 .. Len(run[h].results) :
         run[h].results[t].status = "error" => run[h].results[t].own

(* HarvestRunner (harvest.py:162): "The runner is idempotent - re-running  *)
(* with the same tasks will reuse content-addressed artifacts and skip     *)
(* duplicate observations."                                                *)
NoDuplicateObservations ==
  \A i, j \in ObservationRows(disk) :
    disk.rows[i].key = disk.rows[j].key /\ disk.rows[i].version + 1 = disk.rows[j].version =>
      disk.rows[i].says # disk.rows[j].says
=============================================================================
