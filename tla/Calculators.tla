----------------------------- MODULE Calculators -----------------------------
(***************************************************************************)
(* The calculators that the MCP server offers (mcp_service.py): analytics  *)
(* on numbers that the caller supplies (analytics/gaps.py, policy.py and   *)
(* university.py) and the outlook on a series of observations              *)
(* (economic_context.py, outlook.py).  Each is an operator from the        *)
(* payload to the result, or to Refusal where it raises; each call is an   *)
(* action.  The caller keeps the pipeline and retention results and may    *)
(* pass them on to university_summary.                                     *)
(*                                                                         *)
(* People are counted in parts: a rate is a number from 0 to Whole, and    *)
(* whoever passes through k rates is counted in parts of Whole^k.          *)
(***************************************************************************)
EXTENDS Tables

CONSTANTS
  Payloads,     \* for each tool, what it may be asked
  Registered,   \* the candidate institutions, as numbers
  Refusal,      \* the result of a call that raises
  Whole,        \* the rate one
  Top,          \* the length of the lists of a summary (5)
  MinMonths, Recent, MaxSpan,  \* limits of an outlook (36, 24 and 30 months)
  MaxHeld       \* bound of the results that the caller keeps

VARIABLES
  answer,       \* the last call: tool, payload and result
  held          \* the results of balances and of retention that the caller has

calculatorVars == <<answer, held>>

NoAnswer == [tool |-> "none"]

ASSUME CalculatorsAssumption ==
  /\ {Whole, Top, MinMonths, Recent, MaxHeld} \subseteq Nat \ {0}
  /\ Recent <= MinMonths /\ MaxSpan >= Recent

(* What the server makes of the payloads (mcp_service.py): lists, and      *)
(* amounts, counted in the smallest part of one that a caller gives.       *)
IsList(list) == Len(list) \in Nat /\ DOMAIN list = 1 .. Len(list)

ASSUME PayloadsAssumption ==
  /\ \A p \in Payloads.policy :
       /\ "gap" \in DOMAIN p => p.gap \in Int
       /\ \A c \in DOMAIN p \ {"gap"} : \A amount \in DOMAIN p[c] : p[c][amount] \in Int
  /\ \A p \in Payloads.degrees :
       /\ IsList(p.completions) /\ IsList(p.demand) /\ IsList(p.crosswalk)
       /\ \A n \in DOMAIN p.completions : p.completions[n].awards \in Int
       /\ \A n \in DOMAIN p.demand : p.demand[n].openings \in Int
  /\ \A p \in Payloads.retention : {p.graduates, p.residents, p.out_migration} \subseteq Int
  /\ \A p \in Payloads.attraction : \A n \in 1 .. 2 : {p.employment[n], p.establishments[n]} \subseteq Int
  /\ \A p \in Payloads.series : IsFiniteSet(p.rows) /\ p.limit \in Nat /\ \A o \in p.rows : o.month \in Int

Share(people, rate) == (people * rate) \div Whole

----------------------------------------------------------------------------
(* gaps.py.  A payload has the metrics that are present; a basis is the    *)
(* geography, the period, and system, version and code of the taxonomy.    *)
Incompatible(p) ==
  \E c, d \in DOMAIN p : p[c].unit # "people_per_year" \/ p[c].basis # p[d].basis

TrainingPipelineGap(p) ==
  LET supply == SumOf([c \in DOMAIN p \ {"annual_openings"} |-> p[c].value])
      gap == p["annual_openings"].value - supply
  IN  IF \/ ~({"annual_openings", "completions"} \subseteq DOMAIN p)
         \/ Incompatible(p)
         \/ p["annual_openings"].value < 0 \/ p["completions"].value < 0
        THEN Refusal
        ELSE [known_supply |-> supply, gap |-> gap, shortage |-> gap > 0,
              completeness |-> Cardinality(DOMAIN p)]

MarketTightness(p) ==
  CASE p.ads < 0 \/ p.people < 0 -> Refusal
    [] p.ads = 0 /\ p.people >= 0 -> [interpretation |-> "undefined_no_postings"]
    [] OTHER -> [interpretation |-> CASE p.people = 0 -> "extremely_tight"
                                      [] p.people \in 1 .. p.ads - 1 -> "fewer_people_than_ads"
                                      [] OTHER -> "at_least_as_many_people"]

----------------------------------------------------------------------------
(* policy.py *)
Rates == {"completion", "placement", "retention", "counterfactual"}

Unreasonable(gap, a) ==
  \/ ~(Rates \cup {"seats", "cost"} \subseteq DOMAIN a)
  \/ gap < 0 \/ a.seats < 0 \/ a.cost < 0
  \/ \E r \in Rates : a[r] < 0 \/ a[r] > Whole

PolicyUnit == Whole * Whole * Whole * Whole

EvaluateTrainingPolicy(gap, a) ==
  LET completers == Share(a.seats * PolicyUnit, a.completion)
      placed == Share(completers, a.placement)
      retained == Share(placed, a.retention)
      net == Share(retained, Whole - a.counterfactual)
  IN  [completers |-> completers, placed |-> placed, retained |-> retained, net |-> net,
       residual |-> Max({0, gap * PolicyUnit - net}),
       closed |-> IF gap > 0 THEN Min({gap * PolicyUnit, net}) ELSE 0,
       cost |-> a.seats * a.cost]

Cases == {"low", "base", "high"}

TrainingScenario(p) ==
  IF \/ ~(Cases \cup {"gap"} \subseteq DOMAIN p)
     \/ \E c \in Cases : Unreasonable(p.gap, p[c])
    THEN Refusal
    ELSE [c \in Cases |-> EvaluateTrainingPolicy(p.gap, p[c])]

----------------------------------------------------------------------------
(* university.py: completions by program, openings by occupation, and the  *)
(* edges of the crosswalk, each a sequence in the order of the caller.     *)
Unanswerable(p) ==
  p.institution \notin Registered \/ <<>> \in {p.completions, p.demand, p.crosswalk}

(* The last demand for an occupation counts. *)
DemandBySoc(p) ==
  Layered([n \in DOMAIN p.demand |-> [soc \in {p.demand[n].soc} |-> p.demand[n].openings]], <<>>)

(* An occupation for each program and each of its edges, in their order,   *)
(* also where the crosswalk repeats one.                                   *)
MatchedOccupations(p) ==
  LET demand == DemandBySoc(p)
      places == {i \in (DOMAIN p.completions) \X (DOMAIN p.crosswalk) :
                   /\ p.crosswalk[i[2]].cip = p.completions[i[1]].cip
                   /\ p.crosswalk[i[2]].soc \in DOMAIN demand}
  IN  [i \in places |-> [cip |-> p.completions[i[1]].cip, soc |-> p.crosswalk[i[2]].soc,
                         openings |-> demand[p.crosswalk[i[2]].soc]]]

Awards(p, programs) == SumOf([n \in programs |-> p.completions[n].awards])

DegreeRelevance(p) ==
  LET occupations == MatchedOccupations(p)
      total == Awards(p, DOMAIN p.completions)
      matched == Awards(p, {n \in DOMAIN p.completions : \E i \in DOMAIN occupations : i[1] = n})
  IN  IF Unanswerable(p) THEN Refusal
      ELSE [total |-> total, matched |-> matched, unmatched |-> total - matched,
            occupations |-> occupations]

(* Mutant: without seen_socs. *)
OpeningsOfEdges(occupations) == SumOf([i \in DOMAIN occupations |-> occupations[i].openings])

(* Each occupation where it is seen first. *)
OpeningsMatched(occupations) ==
  LET Before(i, j) == i[1] < j[1] \/ (i[1] = j[1] /\ i[2] < j[2])
      Seen(i) == \E j \in DOMAIN occupations : Before(j, i) /\ occupations[j].soc = occupations[i].soc
  IN  SumOf([i \in {j \in DOMAIN occupations : ~Seen(j)} |-> occupations[i].openings])

PipelineBalance(p) ==
  LET openings == OpeningsMatched(MatchedOccupations(p))
      completions == Awards(p, DOMAIN p.completions)
      net == completions - openings
  IN  IF Unanswerable(p) THEN Refusal
      ELSE [institution |-> p.institution, completions |-> completions,
            openings |-> openings, net |-> net,
            surplus |-> Max({0, net}), deficit |-> Max({0, -net})]

RetentionRisk(p) ==
  LET all == p.graduates * Whole * Whole
      retained == Share(Share(all, p.residents), Whole - p.out_migration)
      AtLeast(tenths) == all > 0 /\ 10 * retained >= tenths * all
  IN  IF \/ p.institution \notin Registered \/ p.graduates < 0
         \/ \E rate \in {p.residents, p.matched, p.out_migration} : rate < 0 \/ rate > Whole
        THEN Refusal
        ELSE [institution |-> p.institution, graduates |-> all, retained |-> retained,
              leaving |-> all - retained,
              risk |-> CASE AtLeast(7) -> "low"
                         [] AtLeast(5) /\ ~AtLeast(7) -> "moderate"
                         [] AtLeast(3) /\ ~AtLeast(5) -> "elevated"
                         [] OTHER -> "high"]

(* The first of the results by size, then by identifier, greatest first.   *)
Largest(results, size) ==
  LET some == {n \in DOMAIN results : results[n][size] > 0}
      Before(m, n) ==
        \/ results[m][size] > results[n][size]
        \/ /\ results[m][size] = results[n][size]
           /\ \/ results[m].institution > results[n].institution
              \/ results[m].institution = results[n].institution /\ m < n
  IN  {results[n] : n \in {k \in some : Cardinality({m \in some : Before(m, k)}) < Top}}

WorkforceSummary(balances, retentions) ==
  LET Total(results, part) == SumOf([n \in DOMAIN results |-> results[n][part]])
  IN  IF DOMAIN balances = {} THEN Refusal
      ELSE [net |-> Total(balances, "completions") - Total(balances, "openings"),
            retained |-> Total(retentions, "retained"), graduates |-> Total(retentions, "graduates"),
            deficits |-> Largest(balances, "deficit"), surpluses |-> Largest(balances, "surplus")]

(* business_attraction_signal: the signals there are, in twentieths where  *)
(* they are constants, with weights in hundredths.                         *)
WageCompetitiveness(p) ==
  CASE p.wages = <<>> -> "insufficient_data"
    [] p.wages # <<>> /\ p.wages[2] <= 0 -> "unknown"
    [] OTHER -> CASE 100 * p.wages[1] >= 90 * p.wages[2] -> "competitive"
                  [] 100 * p.wages[1] < 75 * p.wages[2] -> "below_target"
                  [] OTHER -> "moderately_competitive"

WorkforceDepth(p) ==
  CASE p.openings > 5000 -> "deep" [] p.openings \in 1001 .. 5000 -> "moderate"
    [] p.openings \in 1 .. 1000 -> "shallow" [] OTHER -> "none"

Signal(value, of, weight) == [value |-> value, of |-> of, weight |-> weight]

(* Of one that triples it all counts, of one that shrinks nothing. *)
Growth(now, then, weight) == Signal(Max({0, Min({then - now, 2 * now})}), 2 * now, weight)

Signals(p) ==
  LET wage == [competitive |-> 20, moderately_competitive |-> 12, below_target |-> 6]
      depth == [deep |-> 20, moderate |-> 10, shallow |-> 5]
      known == {s \in {"employment", "wage", "depth", "establishments"} :
                  CASE s = "employment" -> p.employment[1] > 0
                    [] s = "wage" -> WageCompetitiveness(p) \in DOMAIN wage
                    [] s = "depth" -> WorkforceDepth(p) \in DOMAIN depth
                    [] s = "establishments" -> p.establishments[1] > 0}
  IN  [s \in known |->
         CASE s = "employment" -> Growth(p.employment[1], p.employment[2], 30)
           [] s = "wage" -> Signal(wage[WageCompetitiveness(p)], 20, 25)
           [] s = "depth" -> Signal(depth[WorkforceDepth(p)], 20, 25)
           [] s = "establishments" -> Growth(p.establishments[1], p.establishments[2], 20)]

(* The score is value / of. *)
BusinessAttraction(p) ==
  LET signals == Signals(p)
      Of(s) == IF s \in DOMAIN signals THEN signals[s].of ELSE 1
      of == Of("employment") * Of("wage") * Of("depth") * Of("establishments")
      weight == SumOf([s \in DOMAIN signals |-> signals[s].weight])
      value == SumOf([s \in DOMAIN signals |->
                        signals[s].weight * signals[s].value * (of \div signals[s].of)])
  IN  IF \E n \in 1 .. 2 : p.employment[n] < 0 \/ p.establishments[n] < 0 THEN Refusal
      ELSE [value |-> value, of |-> IF weight > 0 THEN of * weight ELSE 1]

----------------------------------------------------------------------------
(* outlook.py and economic_context.py: the current observations of a       *)
(* metric, newest month first, cut at the limit.                           *)
CurrentRows(p) == {o \in p.rows : \A q \in p.rows : q.key = o.key => q.version <= o.version}

Newer(o, q) == o.month > q.month \/ (o.month = q.month /\ o.id > q.id)

Supported(points) ==
  LET used == {o \in points : o.value # "none"}
      months == {o.month : o \in used}
      newest == {n \in months : Cardinality({l \in months : l > n}) < Recent}
  IN  /\ \A o \in used : o.value = "number"
      /\ Cardinality(months) = Cardinality(used)
      /\ Cardinality(used) >= MinMonths
      /\ Max(months) - Min(newest) <= MaxSpan

EconomicSeries(p) ==
  LET rows == CurrentRows(p)
      selected == {o \in rows : Cardinality({q \in rows : Newer(q, o)}) < p.limit}
  IN  [truncated |-> Cardinality(rows) > p.limit, points |-> selected,
       outlook |-> /\ selected # {}
                   /\ \A o, q \in selected : o.basis = "monthly" /\ o.series = q.series
                   /\ Supported(selected)]

----------------------------------------------------------------------------
CalculatorsInit == answer = NoAnswer /\ held = <<>>

Replies(tool, payload, result) ==
  /\ answer = NoAnswer
  /\ answer' = [tool |-> tool, payload |-> payload, result |-> result]
  /\ UNCHANGED held

(* No tool but the summary depends on what the caller holds: as a bound,   *)
(* the others are called before the first result is kept.                  *)
Asks(tool, payload, result) == held = <<>> /\ Replies(tool, payload, result)

GapTrainingPipeline ==
  \E p \in Payloads.gap : Asks("gap", p, TrainingPipelineGap(p))

GapMarketTightness ==
  \E p \in Payloads.tightness : Asks("tightness", p, MarketTightness(p))

PolicyTrainingScenario ==
  \E p \in Payloads.policy : Asks("policy", p, TrainingScenario(p))

UniversityDegreeRelevance ==
  \E p \in Payloads.degrees : Asks("degrees", p, DegreeRelevance(p))

UniversityPipelineBalance ==
  \E p \in Payloads.degrees : Replies("balance", p, PipelineBalance(p))

UniversityRetentionRisk ==
  \E p \in Payloads.retention : Replies("retention", p, RetentionRisk(p))

BusinessAttractionSignal ==
  \E p \in Payloads.attraction : Asks("attraction", p, BusinessAttraction(p))

EconomicSeriesOf ==
  \E p \in Payloads.series : Asks("series", p, EconomicSeries(p))

(* The results of a tool that the caller has, by their places. *)
Held(tool) == [n \in {m \in DOMAIN held : held[m].tool = tool} |-> held[n].result]

UniversitySummary ==
  Replies("summary", held, WorkforceSummary(Held("balance"), Held("retention")))

(* The caller keeps a balance or a retention risk, and goes on. *)
CallerKeeps ==
  /\ answer # NoAnswer
  /\ answer.tool \in {"balance", "retention"} /\ answer.result # Refusal
  /\ Len(held) < MaxHeld
  /\ held' = Append(held, [tool |-> answer.tool, result |-> answer.result])
  /\ answer' = NoAnswer

CalculatorsNext ==
  \/ GapTrainingPipeline \/ GapMarketTightness \/ PolicyTrainingScenario
  \/ UniversityDegreeRelevance \/ UniversityPipelineBalance \/ UniversityRetentionRisk
  \/ BusinessAttractionSignal \/ EconomicSeriesOf \/ UniversitySummary
  \/ CallerKeeps

----------------------------------------------------------------------------
(* The occupations that an edge leads to from a program with awards, and   *)
(* what the last demand for each says.                                     *)
Reached(p, c) ==
  {p.demand[n].soc : n \in {m \in DOMAIN p.demand :
     \E e \in ToSet(p.crosswalk) : e.cip = c.cip /\ e.soc = p.demand[m].soc}}

LastDemand(p, soc) ==
  p.demand[Max({n \in DOMAIN p.demand : p.demand[n].soc = soc})].openings

DegreesAddUp(p, r) ==
  LET matched == {n \in DOMAIN p.completions : Reached(p, p.completions[n]) # {}}
  IN  /\ r.matched = Awards(p, matched)
      /\ r.unmatched = Awards(p, DOMAIN p.completions \ matched)

BalanceAddsUp(p, r) ==
  LET reached == UNION {Reached(p, c) : c \in ToSet(p.completions)}
  IN  /\ r.openings = SumOf([soc \in reached |-> LastDemand(p, soc)])
      /\ r.surplus - r.deficit = r.completions - r.openings
      /\ 0 \in {r.surplus, r.deficit}

(* Whoever is retained is a resident who does not move away. *)
RetentionAddsUp(p, r) ==
  /\ r.retained >= 0 /\ r.retained + r.leaving = r.graduates
  /\ r.leaving >= r.graduates - Share(r.graduates, p.residents)
  /\ r.leaving >= Share(r.graduates, p.out_migration)

(* Nobody is counted who did not pass the stage before, and assumptions    *)
(* that are better in every respect do not leave a larger gap.             *)
PolicyAddsUp(p, r) ==
  /\ \A c \in Cases :
       /\ r[c].net <= r[c].retained /\ r[c].retained <= r[c].placed
       /\ r[c].placed <= r[c].completers /\ r[c].completers <= p[c].seats * PolicyUnit
       /\ r[c].residual + r[c].closed = p.gap * PolicyUnit
  /\ \A c, d \in Cases :
       /\ p[c].seats >= p[d].seats /\ p[c].counterfactual <= p[d].counterfactual
       /\ \A rate \in Rates \ {"counterfactual"} : p[c][rate] >= p[d][rate]
       => r[c].residual <= r[d].residual

(* A mean of the signals there are, none where there is none. *)
ScoreIsMean(p, r) ==
  LET signals == Signals(p)
  IN  IF signals = <<>> THEN r.value = 0
      ELSE /\ \E s \in DOMAIN signals : r.value * signals[s].of <= signals[s].value * r.of
           /\ \E s \in DOMAIN signals : r.value * signals[s].of >= signals[s].value * r.of
           /\ 0 <= r.value /\ r.value <= r.of

(* The whole is the sum of its parts, its rate of retention lies between   *)
(* theirs, and no balance that is left out of a list exceeds a listed one. *)
SummaryAddsUp(parts, r) ==
  LET Of(tool) == {n \in DOMAIN parts : parts[n].tool = tool}
      Listed(list, size) ==
        \A n \in Of("balance") : \A l \in list :
          parts[n].result \in list \/ parts[n].result[size] <= l[size]
  IN  /\ r.net = SumOf([n \in Of("balance") |-> parts[n].result.surplus - parts[n].result.deficit])
      /\ Listed(r.deficits, "deficit") /\ Listed(r.surpluses, "surplus")
      /\ r.deficits \cap r.surpluses = {}
      /\ Of("retention") # {} =>
           /\ \E n \in Of("retention") :
                r.retained * parts[n].result.graduates <= parts[n].result.retained * r.graduates
           /\ \E n \in Of("retention") :
                r.retained * parts[n].result.graduates >= parts[n].result.retained * r.graduates

(* An outlook rests on one monthly series, on the current version of each  *)
(* of its months, and ends with the newest that has a number.              *)
OutlookOfOneSeries(p, r) ==
  r.outlook =>
    LET numbers == {o \in r.points : o.value # "none"}
    IN  /\ \A o, q \in numbers : o.series = q.series /\ (o.month = q.month => o = q)
        /\ \A o \in numbers, q \in p.rows : q.key = o.key => q.version <= o.version
        /\ \A q \in CurrentRows(p) \ r.points, o \in numbers : q.month <= o.month

(* What the calculators answer agrees with what they were asked, whatever  *)
(* the caller repeats, leaves out or passes on: awards and openings are    *)
(* counted once, though programs and occupations are related many to many; *)
(* flows, gaps and shares add up; a score is a mean; a summary is of its   *)
(* parts; and an outlook is of one series ("without double-counting",      *)
(* analytics/gaps.py:70; "Do not mix", economic_context.py:75).            *)
AnswersAddUp ==
  answer # NoAnswer =>
    \/ answer.result = Refusal
    \/ answer.tool \in {"gap", "tightness"}
    \/ answer.tool = "degrees" /\ DegreesAddUp(answer.payload, answer.result)
    \/ answer.tool = "balance" /\ BalanceAddsUp(answer.payload, answer.result)
    \/ answer.tool = "retention" /\ RetentionAddsUp(answer.payload, answer.result)
    \/ answer.tool = "policy" /\ PolicyAddsUp(answer.payload, answer.result)
    \/ answer.tool = "attraction" /\ ScoreIsMean(answer.payload, answer.result)
    \/ answer.tool = "summary" /\ SummaryAddsUp(answer.payload, answer.result)
    \/ answer.tool = "series" /\ OutlookOfOneSeries(answer.payload, answer.result)
=============================================================================
