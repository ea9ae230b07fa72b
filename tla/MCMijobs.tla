------------------------------ MODULE MCMijobs ------------------------------
(* Small instances of the commands, the normalizers and the calculators. *)
EXTENDS Mijobs

CONSTANTS u1, u2   \* two institutions

(* A database with events for the rows in ids, and one with all of them. *)
WithEventsOf(rows, ids) ==
  LET bodies == [n \in 1 .. Len(ids) |-> Body(rows[ids[n]], ids[n])]
  IN  [rows |-> rows,
       events |-> [n \in 1 .. Len(ids) |->
         [sequence |-> n, body |-> bodies[n], previous |-> SubSeq(bodies, 1, n - 1),
          digest |-> SubSeq(bodies, 1, n)]]]

WithEvents(rows) == WithEventsOf(rows, [n \in 1 .. Len(rows) |-> n])

Artifact(feed) == FirstVersion("source_artifact", None, {}, [feed |-> feed])

Fact(metric, period, value) == [metric |-> metric, period |-> period, value |-> value]

Observation(metric, period, value) ==
  FirstVersion("observation", <<metric, period>>, {1}, Fact(metric, period, value))

(* Two periods to a year: the report is of the second one of year 2.  The  *)
(* last month has no number yet, and QWI lags.                             *)
TheSections == <<UnemploymentRateYoY, QwiEmployment>>

HarvestedRows ==
  <<Artifact("bls"), Observation("rate", 2, "number"), Observation("rate", 3, "number"),
    Observation("rate", 4, "number"), Observation("rate", 5, "none"),
    Observation("emp", 3, "number"),
    FirstVersion("derived_metric", <<"unemp_rate_yoy", 4>>, {2, 4},
                 [metric |-> "rate", change |-> TRUE, value |-> "number"])>>

(* The second one lost the event of an observation in an earlier harvest. *)
Harvested == {WithEvents(HarvestedRows), WithEventsOf(HarvestedRows, <<1, 2, 3, 4, 5, 7>>)}

(* A claim on a change, which rests on two sources and on another claim    *)
(* and is challenged, and one that is contested from the start; what else  *)
(* is asked for is no claim.                                               *)
Claimed ==
  WithEvents(<<Artifact("bls"), Artifact("bls2"), Observation("rate", 2, "number"),
             [Observation("rate", 4, "number") EXCEPT !.refs = {2}],
             FirstVersion("derived_metric", <<"unemp_rate_yoy", 4>>, {3, 4},
                          [metric |-> "rate", change |-> TRUE, value |-> "number"]),
             FirstVersion("claim", <<"unemp_rate_yoy", 4>>, {}, [status |-> "supported"]),
             FirstVersion("evidence_edge", None, {5, 6}, [relation |-> TRUE]),
             FirstVersion("challenge", <<"method", 1>>, {6}, [status |-> "open"]),
             FirstVersion("claim", <<"outlook", 4>>, {}, [status |-> "contested"])>>)

Institutions == {u1, u2}

Response(covers, value) == [covers |-> covers, readable |-> TRUE, value |-> value]

Unreadable == [covers |-> {}, readable |-> FALSE, value |-> "none"]

FeedAnswers ==
  [completions |-> {Response(Institutions, "number"), Response({u1}, "number")},
   crosswalk |-> {Response({u1}, "none")},
   pseo |-> {Response({}, "none"), Unreadable},
   scorecard |-> {Response(Institutions, "none"), Response({u2}, "number")}]

BeforeLoad == WithEvents(<<Artifact("bls")>>)

From(a, type, feed, u) ==
  FirstVersion(type, <<feed, u>>, {a},
               IF type = "observation" THEN Fact(feed, u, "number") ELSE [feed |-> feed])

AfterLoad ==
  WithEvents(<<Artifact("completions"), From(1, "observation", "completions", u1),
             From(1, "observation", "completions", u2), Artifact("crosswalk"),
             From(4, "taxonomy_mapping", "crosswalk", u1), Artifact("pseo"),
             Artifact("scorecard"), From(7, "observation", "scorecard", u1),
             From(7, "observation", "scorecard", u2)>>)

FoundBy ==
  [c \in AllCommands |->
     CASE c = "report" -> Harvested
       [] c = "context" -> {Claimed}
       [] c = "harvest-universities" -> {BeforeLoad}
       [] c = "report-universities" -> {AfterLoad}]

AllFound == UNION {FoundBy[c] : c \in AllCommands}

(* Revisions, the number of the last month, numbers that no event can      *)
(* hold, and what the universities' report reads.                          *)
NewFacts ==
  {Fact("rate", 2, "number"), Fact("rate", 4, "infinite"), Fact("rate", 5, "number"),
   Fact("emp", 3, "nan"), Fact("scorecard", u1, "number")}

(* Of what a harvest observes, one fact is enough beside a context, which  *)
(* reads no new observations, and those of its own beside the report of    *)
(* the universities.                                                       *)
FactsThatMatter ==
  LET row == session[Harvester].row
  IN  row.type = "observation" =>
        /\ context.pc # "off" => row.says = Fact("rate", 2, "number")
        /\ view.pc # "off" => row.says.metric = "scorecard"

Methods == {<<"method", 1>>, <<"scope", 1>>}

AskedClaims == <<6, 9, 1>>

----------------------------------------------------------------------------
Sound(fields, rows) == [sound |-> TRUE, fields |-> fields, rows |-> rows]

(* Two rows that differ in one of the fields that tell them apart, files   *)
(* of one row, without rows, with a short row or without a field, and one  *)
(* that cannot be opened.                                                  *)
Shapes(source, ids, others) ==
  LET values == Normalizers[source].values \ Normalizers[source].key
      fields == ids \cup values \cup others
      Line(id, text) == [f \in fields |-> CASE f \in values -> text
                                            [] f \in others -> "some"
                                            [] OTHER -> IF f = id THEN "u2" ELSE "u1"]
      base == Line("none", 1)
  IN  {[sound |-> FALSE, fields |-> fields, rows |-> <<base>>], Sound(fields, <<>>),
       Sound(fields \ {CHOOSE f \in Normalizers[source].needs : TRUE}, <<base>>)}
      \cup {Sound(fields, <<base, Line(f, text)>>) : f \in ids, text \in {2, Marker}}
      \cup {Sound(fields, <<[base EXCEPT ![f] = IF f \in values THEN text ELSE Blank], Line(f, 3)>>) :
              f \in ids \cup values, text \in {Marker, Blank}}
      \cup {Sound(fields, <<Restrict(base, fields \ {CHOOSE f \in fields : f \notin values}), base>>)}

Award(u, cip, level, major, n) ==
  [f \in {"UNITID", "CIPCODE", "AWLEVEL", "MAJORNUM", "CTOTALT"} |->
     CASE f = "UNITID" -> u [] f = "CIPCODE" -> cip [] f = "AWLEVEL" -> level
       [] f = "MAJORNUM" -> major [] f = "CTOTALT" -> n]

(* The rows of an institution: two programs of a family, one of them of    *)
(* two levels, their first and second majors, the row of the family and,   *)
(* for each level, that of all programs.                                   *)
AwardsOf(u, n, m) ==
  LET total == IF m = Marker THEN Marker ELSE n + m
  IN  <<Award(u, "11.01", "bachelor", "1", n), Award(u, "11.02", "bachelor", "1", m),
        Award(u, "11.02", "bachelor", "2", 1), Award(u, "11", "bachelor", "1", total),
        Award(u, "all", "bachelor", "1", total), Award(u, "all", "bachelor", "2", 1),
        Award(u, "11.01", "master", "1", 2), Award(u, "all", "master", "1", 2)>>

Awarded(rows) == Sound({"UNITID", "CIPCODE", "AWLEVEL", "MAJORNUM", "CTOTALT"}, rows)

CompletionsFiles ==
  {Awarded(AwardsOf("u1", n, m) \o AwardsOf("u3", 1, 1)) : n \in {1, 2}, m \in {0, 3, Marker}}
  \cup {Awarded(<<Award("u1", "11.01", "bachelor", "1", 2), Award("u2", "11.01", "bachelor", "1", 1)>>)}

TheFiles ==
  [completions |-> Shapes("completions", {"UNITID", "CIPCODE", "AWLEVEL", "MAJORNUM"}, {})
                     \cup CompletionsFiles,
   enrollment |-> Shapes("enrollment", {"UNITID", "EFFYLEV"}, {}),
   fall |-> Shapes("fall", {"UNITID", "EFALEVEL"}, {}),
   directory |-> Shapes("directory", {"UNITID"}, {"INSTNM", "STABBR"}),
   crosswalk |-> Shapes("crosswalk", {"CIP2020Code", "SOC2018Code"}, {}),
   ratings |-> Shapes("ratings", {"onetsoc_code", "element_id", "scale_id"}, {"element_name"}),
   software |-> Shapes("software", {"onetsoc_code", "element_id", "workplace_example"},
                       {"element_name"}),
   series |-> Shapes("series", {"seriesID", "year", "period"}, {}),
   scorecard |-> Shapes("scorecard", {"id"}, {}),
   indicators |-> Shapes("indicators", {"geography", "time", "industry"}, {}),
   projections |-> Shapes("projections", {"code"}, {"title"}),
   wages |-> Shapes("wages", {"code"}, {"title"})]

Both == {"u1", "u2"}

Six == {"11.01", "11.02"}

----------------------------------------------------------------------------
Metric(n, unit, basis) == [value |-> n, unit |-> unit, basis |-> basis]

Compared == {Metric(n, "people_per_year", "a") : n \in {-1, 0, 3}}

GapPayloads ==
  {[annual_openings |-> m, completions |-> n] : m \in Compared, n \in Compared}
  \cup {[annual_openings |-> Metric(3, "people_per_year", "a"), completions |-> m,
          other_known_supply |-> n] :
           m \in Compared, n \in {Metric(1, "people_per_year", "a"), Metric(1, "people_per_year", "b"),
                                   Metric(1, "ads", "a")}}
  \cup {[completions |-> m] : m \in Compared}

Assumed(seats, rate, counterfactual) ==
  [seats |-> seats, cost |-> 2, completion |-> rate, placement |-> 9, retention |-> rate,
   counterfactual |-> counterfactual]

PolicyPayloads ==
  {[gap |-> gap, low |-> Assumed(3, 5, c), base |-> Assumed(3, rate, 5), high |-> Assumed(seats, 10, 3)] :
     gap \in {0, 1, 9}, c \in {0, 5, 10}, rate \in {0, 5, 7, 11}, seats \in {3, 8}}
  \cup {[gap |-> 1, base |-> Assumed(3, 5, 0)]}

Completed(pairs) == [n \in DOMAIN pairs |-> [cip |-> pairs[n][1], awards |-> pairs[n][2]]]

Demands(pairs) == [n \in DOMAIN pairs |-> [soc |-> pairs[n][1], openings |-> pairs[n][2]]]

Edges(pairs) == [n \in DOMAIN pairs |-> [cip |-> pairs[n][1], soc |-> pairs[n][2]]]

Related(u, demand, crosswalk) ==
  [institution |-> u, completions |-> Completed(<<<<"p", 3>>, <<"q", 2>>, <<"p", 1>>>>),
   demand |-> Demands(demand), crosswalk |-> Edges(crosswalk)]

DegreePayloads ==
  {Related(u, demand, crosswalk) :
     u \in {1, 2},
     demand \in {<<<<"s", 9>>>>, <<<<"s", 1>>, <<"t", 2>>, <<"s", 4>>>>},
     crosswalk \in {<<<<"p", "s">>, <<"p", "t">>, <<"p", "s">>>>, <<<<"p", "s">>, <<"q", "s">>>>, <<<<"q", "x">>>>}}
  \cup {Related(u, <<<<"s", 9>>>>, <<>>) : u \in {1, 3}}

RetentionPayloads ==
  {[institution |-> 1, graduates |-> g, residents |-> r, matched |-> 5, out_migration |-> o] :
     g \in {0, 7}, r \in {10, 8, 3}, o \in {0, 4, 11}}

AttractionPayloads ==
  {[employment |-> e, establishments |-> t, wages |-> w, openings |-> n] :
     e \in {<<0, 3>>, <<2, 1>>, <<2, 3>>, <<2, 9>>, <<-1, 0>>}, t \in {<<0, 1>>, <<4, 5>>},
     w \in {<<>>, <<1, 0>>, <<9, 10>>, <<8, 10>>, <<1, 10>>}, n \in {0, 1, 1001, 5001}}

Point(id, key, version, month, value) ==
  [id |-> id, key |-> key, version |-> version, month |-> month, value |-> value,
   basis |-> "monthly", series |-> "s"]

(* A series of five months; and the same with an observation more: without *)
(* a number, revised, of the same month, after a gap, of another series.   *)
Plain == {Point(n, n, 1, n, "number") : n \in 1 .. 5}

SeriesPayloads ==
  {[limit |-> limit, rows |-> rows] :
     limit \in {3, 4, 6},
     rows \in {{}, Plain, Plain \cup {Point(6, 6, 1, 6, "none")},
              Plain \cup {Point(6, 5, 2, 5, "number")}, Plain \cup {Point(6, 5, 2, 5, "none")},
              Plain \cup {Point(6, 5, 2, 5, "nan")}, Plain \cup {Point(6, 6, 1, 2, "number")},
              Plain \cup {Point(6, 6, 1, 9, "number")},
              Plain \cup {[Point(6, 6, 1, 6, "number") EXCEPT !.series = "t"]},
              Plain \cup {[Point(6, 6, 1, 1, "number") EXCEPT !.basis = "annual"]}}}

ThePayloads ==
  [gap |-> GapPayloads, tightness |-> {[ads |-> n, people |-> m] : n \in {-1, 0, 2}, m \in {-1, 0, 1, 3}},
   policy |-> PolicyPayloads, degrees |-> DegreePayloads, retention |-> RetentionPayloads,
   attraction |-> AttractionPayloads, series |-> SeriesPayloads]
=============================================================================
