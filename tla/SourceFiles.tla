----------------------------- MODULE SourceFiles -----------------------------
(***************************************************************************)
(* What the normalizers (sources/ *.py, university_reports.py) make of the *)
(* files they are given, edition after edition, and what is current in the *)
(* database then.  Each normalizer is a record: the layout it opens, the   *)
(* fields it needs, those it puts into the key of an observation and those *)
(* that it reads as values.  Every value is an observation of its own, and *)
(* the last one of a key is the current one (repository.py, versions).     *)
(*                                                                         *)
(* A file has fields and rows; a row may lack fields.  A text is a number, *)
(* Marker - any of ".", "-", "*", "#", "N/A", ... - or Blank.              *)
(***************************************************************************)
EXTENDS Tables

CONSTANTS
  Files,        \* for each normalizer, the files that it may be given
  Years,        \* the collection years, releases or projections of editions
  Wanted,       \* the institutions that are harvested
  Programs,     \* the CIP codes of six digits, less 99.0000
  Marker, Blank, NoNumber,
  MaxEditions   \* bound of the files that are ingested

VARIABLE
  archive       \* the normalizer that runs, how many files it was given, what
                \* is current; history variables: what the files state of each
                \* of their cells, and the last file that was accepted

(* IPEDS: one CSV member in a ZIP, or a CSV.                               *)
Ipeds ==
  [layout |-> "csv", dated |-> TRUE, wanted |-> TRUE, number |-> "read", indexed |-> FALSE]

Normalizer(base, needs, key, values) ==
  [layout |-> base.layout, dated |-> base.dated, wanted |-> base.wanted, number |-> base.number,
   indexed |-> base.indexed, needs |-> needs, key |-> key, values |-> values]

(* Mutant: the observations of first and second majors share a key.        *)
CompletionsOfPrograms ==
  Normalizer(Ipeds, {"UNITID", "CIPCODE", "AWLEVEL", "CTOTALT"}, {"UNITID", "CIPCODE", "AWLEVEL"},
             {"CTOTALT"})

(* MAJORNUM is part of the key where the file has it. *)
Completions ==
  Normalizer(Ipeds, {"UNITID", "CIPCODE", "AWLEVEL", "CTOTALT"},
             {"UNITID", "CIPCODE", "AWLEVEL", "MAJORNUM"}, {"CTOTALT"})

AnnualEnrollment ==
  Normalizer(Ipeds, {"UNITID", "EFFYLEV", "EFYTOTLT"}, {"UNITID", "EFFYLEV"}, {"EFYTOTLT"})

FallEnrollment ==
  Normalizer(Ipeds, {"UNITID", "EFALEVEL", "EFTOTLT"}, {"UNITID", "EFALEVEL"}, {"EFTOTLT"})

(* An observation that there is such an institution: its number is one.    *)
Directory ==
  Normalizer([Ipeds EXCEPT !.wanted = FALSE, !.number = "one"], {"UNITID", "INSTNM", "STABBR"},
             {"UNITID"}, {"active_record"})

(* A mapping of codes, whatever its number of rows. *)
Crosswalk ==
  Normalizer([Ipeds EXCEPT !.wanted = FALSE, !.dated = FALSE, !.number = "none"],
             {"CIP2020Code", "SOC2018Code"}, {"CIP2020Code", "SOC2018Code"}, {"related"})

Json == [Ipeds EXCEPT !.layout = "json", !.wanted = FALSE]

Ratings ==
  Normalizer(Json, {"onetsoc_code", "element_id", "element_name", "scale_id", "data_value"},
             {"onetsoc_code", "element_id", "scale_id"}, {"data_value"})

(* The place of a row is in its key, so a skill may be current twice.  The *)
(* key has the example in lower case: a text here is one without case.     *)
SoftwareSkills ==
  Normalizer([Json EXCEPT !.number = "none", !.indexed = TRUE],
             {"onetsoc_code", "workplace_example", "element_id", "element_name"},
             {"onetsoc_code", "workplace_example", "element_id"}, {"workplace_example"})

Series ==
  Normalizer([Json EXCEPT !.dated = FALSE], {"seriesID", "year"}, {"seriesID", "year", "period"},
             {"value"})

(* Refused unless every row is about a partner and every partner has one. *)
Scorecard ==
  Normalizer([Json EXCEPT !.dated = FALSE], {"id", "earnings", "completion"},
             {"id"}, {"earnings", "completion"})

(* QWI: all other columns are dimensions, and part of the key. *)
Indicators ==
  Normalizer([Json EXCEPT !.layout = "tabular", !.dated = FALSE], {"geography", "Emp", "HirA"}, {},
             {"Emp", "HirA"})

Workbook == [Json EXCEPT !.layout = "workbook"]

Projections ==
  Normalizer(Workbook, {"code", "title", "base", "projected", "openings"}, {"code"},
             {"base", "projected", "openings", "change", "pct_change"})

WageSnapshot ==
  Normalizer(Workbook, {"code", "title", "employment"}, {"code"},
             {"employment", "employment_prse", "hourly_mean", "hourly_median", "annual_mean",
              "annual_median"})

Normalizers ==
  [completions |-> Completions, enrollment |-> AnnualEnrollment, fall |-> FallEnrollment,
   directory |-> Directory, crosswalk |-> Crosswalk, ratings |-> Ratings,
   software |-> SoftwareSkills, series |-> Series, scorecard |-> Scorecard,
   indicators |-> Indicators, projections |-> Projections, wages |-> WageSnapshot]

ASSUME FilesAssumption ==
  /\ MaxEditions \in Nat
  /\ NoNumber \notin Int /\ Marker \notin Int /\ Blank \notin Int
  /\ DOMAIN Files \subseteq DOMAIN Normalizers
  /\ \A source \in DOMAIN Files : \A file \in Files[source] : Len(file.rows) \in Nat

----------------------------------------------------------------------------
(* A field that a row lacks is blank: DictReader fills it, an array of     *)
(* cells ends before it, a JSON object is asked with a default.            *)
Filled(file, row) == [f \in file.fields |-> IF f \in DOMAIN row THEN row[f] ELSE Blank]

Refused(source, file) ==
  LET needs == Normalizers[source].needs
      lacking == {n \in 1 .. Len(file.rows) : ~(needs \subseteq DOMAIN file.rows[n])}
      uneven == {n \in 1 .. Len(file.rows) : DOMAIN file.rows[n] # file.fields}
      layout == Normalizers[source].layout
  IN  \/ ~file.sound
      \/ layout = "csv" /\ (file.rows = <<>> \/ ~(needs \subseteq file.fields))
      \/ layout = "workbook" /\ ~(needs \subseteq file.fields)
      \/ layout = "json" /\ lacking # {}
      \/ layout = "tabular" /\ (uneven # {} \/ lacking # {})
      \/ /\ source = "scorecard"
         /\ \/ {file.rows[n]["id"] : n \in 1 .. Len(file.rows)} # Wanted
            \/ \E n \in 1 .. Len(file.rows), f \in {"earnings", "completion"} : file.rows[n][f] = Marker

(* The rows that are passed over: other institutions, codes left out.      *)
Skipped(source, row) ==
  \/ Normalizers[source].wanted /\ row["UNITID"] \notin Wanted
  \/ /\ source = "crosswalk"
     /\ \E f \in {"CIP2020Code", "SOC2018Code"} : row[f] \in {Blank, "unmatched"}
  \/ Normalizers[source].layout = "workbook" /\ Blank \in {row["code"], row["title"]}

(* The cells of a workbook that are passed over. *)
Read(source, row) ==
  {v \in Normalizers[source].values :
     Normalizers[source].layout = "workbook" => v \in DOMAIN row /\ row[v] # Blank}

(* _decimal_or_none, _decimal, Decimal: what is no number is none. *)
Number(source, text) ==
  CASE Normalizers[source].number = "one" -> 1
    [] Normalizers[source].number = "none" -> NoNumber
    [] OTHER -> IF text \in {Marker, Blank} THEN NoNumber ELSE text

KeyFields(source, row) ==
  IF Normalizers[source].layout = "tabular"
    THEN DOMAIN row \ Normalizers[source].values
    ELSE Normalizers[source].key \cap DOMAIN row

(* What tells an observation from all others of the source. *)
KeyOfCell(source, year, row, n, v) ==
  [year |-> IF Normalizers[source].dated THEN year ELSE NoNumber,
   of |-> Restrict(row, KeyFields(source, row)), value |-> v,
   index |-> IF Normalizers[source].indexed THEN n ELSE 0]

(* What tells the rows of a file apart, as those who publish it say: all   *)
(* other columns, such as titles, may change from edition to edition.      *)
RowIdentity ==
  [completions |-> {"UNITID", "CIPCODE", "AWLEVEL", "MAJORNUM"}, enrollment |-> {"UNITID", "EFFYLEV"},
   fall |-> {"UNITID", "EFALEVEL"}, directory |-> {"UNITID"},
   crosswalk |-> {"CIP2020Code", "SOC2018Code"}, ratings |-> {"onetsoc_code", "element_id", "scale_id"},
   software |-> {"onetsoc_code", "element_id", "workplace_example"},
   series |-> {"seriesID", "year", "period"}, scorecard |-> {"id"},
   projections |-> {"code"}, wages |-> {"code"}]

Identity(source, row) ==
  IF source = "indicators" THEN DOMAIN row \ {"Emp", "HirA"} ELSE RowIdentity[source] \cap DOMAIN row

(* Which cell of which file an observation is about, as its metadata says. *)
Cell(source, year, row, v) ==
  [year |-> IF Normalizers[source].dated THEN year ELSE NoNumber,
   of |-> Restrict(row, Identity(source, row)), value |-> v]

Text(row, v) == IF v \in DOMAIN row THEN row[v] ELSE Blank

(* The observations of row n, by key. *)
Recorded(source, year, file, n) ==
  LET row == Filled(file, file.rows[n])
      keys == {KeyOfCell(source, year, row, n, v) : v \in Read(source, row)}
  IN  IF Skipped(source, row) THEN <<>>
      ELSE [k \in keys |-> [cell |-> Cell(source, year, row, k.value),
                            number |-> Number(source, Text(row, k.value))]]

(* What row n says of its cells: a blank row or cell says nothing.         *)
Said(source, year, file, n) ==
  LET row == Filled(file, file.rows[n])
      cells == {Cell(source, year, row, v) : v \in Read(source, row)}
  IN  IF Skipped(source, row) THEN <<>>
      ELSE [c \in cells |-> Number(source, Text(row, c.value))]

Observations(source, year, file) == [n \in 1 .. Len(file.rows) |-> Recorded(source, year, file, n)]

Stated(source, year, file) ==
  Layered([n \in 1 .. Len(file.rows) |-> Said(source, year, file, n)], <<>>)

(* IPEDS: an institution has a row for each program, level and major, and  *)
(* for each level one of what its programs add up to.                      *)
ProgramRows(file, u) ==
  {n \in 1 .. Len(file.rows) :
     LET row == Filled(file, file.rows[n])
     IN  /\ row["UNITID"] = u /\ row["CIPCODE"] \in Programs
         /\ "MAJORNUM" \in DOMAIN row => row["MAJORNUM"] = "1"}

TotalRows(file, u) ==
  {n \in 1 .. Len(file.rows) :
     LET row == Filled(file, file.rows[n])
     IN  row["UNITID"] = u /\ row["CIPCODE"] = "all" /\ Text(row, "MAJORNUM") = "1"}

Level(file, n) == Filled(file, file.rows[n])["AWLEVEL"]

Counted(file, n) == Text(Filled(file, file.rows[n]), "CTOTALT")

OfLevelOf(file, n, u) == {m \in ProgramRows(file, u) : Level(file, m) = Level(file, n)}

(* First majors of one level are added up, never those of two. *)
AddsUp(file, n, u) ==
  LET programs == OfLevelOf(file, n, u)
  IN  (\A m \in programs : Counted(file, m) \in Int) =>
        Counted(file, n) = SumOf([m \in programs |-> Counted(file, m)])

TotalsAddUp(file) ==
  \A u \in Wanted : TotalRows(file, u) # {} =>
    /\ \A l, m \in ProgramRows(file, u) :
         /\ Filled(file, file.rows[l])["CIPCODE"] = Filled(file, file.rows[m])["CIPCODE"]
         /\ Level(file, l) = Level(file, m)
         => l = m
    /\ \A l, m \in TotalRows(file, u) : Level(file, l) = Level(file, m) => l = m
    /\ \A m \in ProgramRows(file, u) : Counted(file, m) \in Int \cup {Marker, Blank}
    /\ \A n \in TotalRows(file, u) : AddsUp(file, n, u)

ASSUME AwardsAssumption ==
  "completions" \in DOMAIN Files =>
    \A file \in Files["completions"] : ~Refused("completions", file) => TotalsAddUp(file)

NoArchive == [source |-> NoNumber, given |-> 0, current |-> <<>>, stated |-> <<>>, last |-> NoNumber]

ArchiveInit == archive \in {[NoArchive EXCEPT !.source = s] : s \in DOMAIN Files}

(* Ingestor.ingest: the observations of the rows, in their order; a file   *)
(* that is refused adds none.                                              *)
Ingest ==
  /\ archive.source # NoNumber
  /\ archive.given < MaxEditions
  /\ \E file \in Files[archive.source], year \in Years :
       archive' =
         IF Refused(archive.source, file) THEN [archive EXCEPT !.given = @ + 1]
         ELSE [archive EXCEPT
                 !.given = @ + 1,
                 !.current = Layered(Observations(archive.source, year, file), @),
                 !.stated = Over(Stated(archive.source, year, file), @),
                 !.last = [year |-> year, file |-> file]]

----------------------------------------------------------------------------
(* university_report: the awards of the programs of an institution.        *)
Major(cell) == IF "MAJORNUM" \in DOMAIN cell.of THEN cell.of["MAJORNUM"] ELSE "1"

(* Mutant: second majors too. *)
AnyMajors(u, year) ==
  {k \in DOMAIN archive.current :
     LET cell == archive.current[k].cell
     IN  cell.year = year /\ cell.of["UNITID"] = u /\ cell.of["CIPCODE"] \in Programs}

(* Of six-digit programs, the first majors. *)
FirstMajors(u, year) ==
  {k \in DOMAIN archive.current :
     LET cell == archive.current[k].cell
     IN  /\ cell.year = year /\ cell.of["UNITID"] = u
         /\ Major(cell) = "1"
         /\ cell.of["CIPCODE"] \in Programs}

(* total_first_major_awards, NoNumber where the status is insufficient_data. *)
TotalAwards(u, year) ==
  LET selected == FirstMajors(u, year)
      numbers == {archive.current[k].number : k \in selected}
  IN  IF selected = {} \/ NoNumber \in numbers THEN NoNumber
      ELSE SumOf([k \in selected |-> archive.current[k].number])

----------------------------------------------------------------------------
(* What is current of a cell is what the last edition that states it says, *)
(* as one number, or none where it says there is none: the keys of the     *)
(* normalizers keep the cells of a file apart and find the same cell in    *)
(* its next edition, provisional or final (docs/source-methodology.md:22). *)
CurrentIsLastEdition ==
  \A c \in DOMAIN archive.stated :
    {archive.current[k].number : k \in {l \in DOMAIN archive.current :
                                          archive.current[l].cell = c}} = {archive.stated[c]}

(* "Only first majors and six-digit program rows are summed; aggregate CIP *)
(* totals are excluded" (university_reports.py:156): the total that the    *)
(* report computes is the sum of those that the institution states itself, *)
(* one for each level, in the rows of all programs - if it states them for *)
(* all levels - and is none when a program's number is missing.            *)
AwardsCountedOnce ==
  archive.source = "completions" /\ archive.last # NoNumber =>
    LET file == archive.last.file
        year == archive.last.year
        stated == DOMAIN Stated("completions", year, file)
        Levels(rows) == {Level(file, n) : n \in rows}
    IN  \A u \in Wanted :
          /\ TotalRows(file, u) # {} /\ Levels(ProgramRows(file, u)) \subseteq Levels(TotalRows(file, u))
          /\ \A k \in FirstMajors(u, year) : archive.current[k].cell \in stated
          => TotalAwards(u, year) =
               IF /\ ProgramRows(file, u) # {}
                  /\ \A m \in ProgramRows(file, u) : Counted(file, m) \notin {Marker, Blank}
                 THEN SumOf([n \in TotalRows(file, u) |-> Counted(file, n)]) ELSE NoNumber
=============================================================================
