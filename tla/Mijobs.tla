------------------------------- MODULE Mijobs -------------------------------
(***************************************************************************)
(* What is done with the evidence once it is fetched or stored: a process  *)
(* of mijobs normalizes the editions of a source (SourceFiles), runs one   *)
(* of the commands that audit and report (Reporting), or answers the calls *)
(* of the MCP server's calculators (Calculators), which share no table.    *)
(***************************************************************************)
EXTENDS Reporting, SourceFiles, Calculators

VARIABLE
  process   \* "normalizer", "command" or "calculator"

mijobsVars == <<reportingVars, archive, calculatorVars, process>>

(* Nobody writes to or reads from the evidence database. *)
NoCommand ==
  /\ disk = Empty /\ lock = None
  /\ work = [s \in Sessions |-> Empty]
  /\ session = [s \in Sessions |-> [pc |-> "idle", row |-> NoRow]]
  /\ audit = [a \in Auditors |-> NewAudit]
  /\ report = ReportOff /\ load = LoadOff /\ view = ViewOff /\ context = ContextOff
  /\ written = 0

MijobsInit ==
  /\ process \in {"normalizer", "command", "calculator"}
  /\ IF process = "command" THEN ReportingInit ELSE NoCommand
  /\ IF process = "normalizer" THEN ArchiveInit ELSE archive = NoArchive
  /\ CalculatorsInit

MijobsNext ==
  \/ process = "command" /\ ReportingNext /\ UNCHANGED <<archive, calculatorVars, process>>
  \/ process = "normalizer" /\ Ingest /\ UNCHANGED <<reportingVars, calculatorVars, process>>
  \/ process = "calculator" /\ CalculatorsNext /\ UNCHANGED <<reportingVars, archive, process>>

MijobsSpec == MijobsInit /\ [][MijobsNext]_mijobsVars
=============================================================================
