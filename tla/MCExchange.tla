---------------------------- MODULE MCExchange ----------------------------
(* Small instances of Exchange: employers whose signals share one market   *)
(* or differ in exactly the fields that matching compares.                 *)
EXTENDS Exchange, TLC

CONSTANTS macomb, wayne   \* two markets

Form(kind, market, n, first, last, pay) ==
  [kind |-> kind, market |-> market, headcount |-> n, earliest |-> first,
   latest |-> last, expires |-> last, wage |-> pay, hours |-> 1, share |-> TRUE]

FairOffer(day) == [start |-> day, wage |-> 1, hours |-> 1, benefits |-> TRUE]

(* Two workers on offer, two jobs: accepting twice, or in the wrong order, *)
(* would overbook either side.                                             *)
CapacityForms == {Form("surplus", macomb, 2, 0, 1, 1), Form("hiring", macomb, 2, 0, 1, 1)}
CapacityOffers == {FairOffer(0)}

(* Signals that fail to match a surplus signal in one field each, or that  *)
(* expire at once, and offers below, at and above what the hiring signal   *)
(* posts.                                                                  *)
TermsForms ==
  {Form("surplus", macomb, 1, 0, 2, 2), Form("surplus", macomb, 1, 0, 2, 1),
   [Form("surplus", macomb, 1, 0, 2, 1) EXCEPT !.hours = 2],
   Form("hiring", macomb, 1, 1, 2, 2), Form("hiring", macomb, 1, 2, 2, 1),
   Form("hiring", wayne, 1, 0, 2, 2),
   [Form("hiring", macomb, 1, 0, 2, 2) EXCEPT !.share = FALSE],
   [Form("hiring", macomb, 1, 1, 2, 2) EXCEPT !.hours = 2],
   [Form("hiring", macomb, 1, 0, 2, 2) EXCEPT !.expires = 0]}
TermsOffers == [start: 0 .. 2, wage: 1 .. 2, hours: 1 .. 2, benefits: {TRUE}]
                 \cup {[start |-> 1, wage |-> 2, hours |-> 2, benefits |-> FALSE]}

Symmetry == Permutations(Employers) \cup Permutations(SignalIds) \cup Permutations(TransitionIds)
=============================================================================
