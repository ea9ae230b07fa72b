------------------------------ MODULE Exchange ------------------------------
(***************************************************************************)
(* The confidential employer exchange (src/mijobs/exchange): what one      *)
(* request does to the employers, signals and transitions the store keeps. *)
(* The store serialises requests (module ExchangeStore), so a request is   *)
(* one step here; requests that are refused change no record and are not   *)
(* steps.  The calendar advances on its own between requests.              *)
(***************************************************************************)
EXTENDS Naturals, FiniteSets

CONSTANTS
  Employers,       \* record ids the operator can provision as employers
  SignalIds,       \* record ids new signals receive
  TransitionIds,   \* record ids new transitions receive
  Operator,        \* the actor behind the operator token
  None,            \* a JSON field that is absent
  Markets,         \* pairs of a county and an occupation
  SignalForms,     \* signal bodies that employers submit
  Offers,          \* the offers that accept decisions carry
  MaxHeadcount,    \* Field(le=10000) of Signal and Proposal
  YearDays,        \* the 365 days a signal window may reach ahead
  SignalDays,      \* the 90 days a signal may stay open
  CredentialDays,  \* Field(le=90) of Employer.credential_days
  SignalCap,       \* the 500 signals an employer may create
  LastDay          \* bound of the calendar

VARIABLES
  today,        \* date.today(), counted in days
  employers,    \* records of kind employer, by id
  signals,      \* records of kind signal, by id
  transitions   \* records of kind transition, by id

vars == <<today, employers, signals, transitions>>

Statuses == {"proposed", "accepted", "declined", "withdrawn", "started"}
Sides == {"surplus", "hiring"}

SignalForm == [kind: Sides, market: Markets, headcount: 1 .. MaxHeadcount,
               earliest: Nat, latest: Nat, expires: Nat,
               wage: Nat, hours: Nat, share: BOOLEAN]

Offer == [start: Nat, wage: Nat, hours: Nat, benefits: BOOLEAN]

EmployerRow == [active: BOOLEAN, expires: Nat, credential: BOOLEAN]

SignalRow == [tenant: Employers, form: SignalForm, closed: BOOLEAN]

TransitionRow == [tenant: Employers, receiving_tenant: Employers,
                  surplus_id: SignalIds, hiring_id: SignalIds,
                  headcount: 1 .. MaxHeadcount, status: Statuses,
                  offer: Offer \cup {None}, actual_start: Nat \cup {None}]

ASSUME ConstantsAssumption ==
  /\ Operator \notin Employers
  /\ None \notin Offer /\ None \notin Nat
  /\ IsFiniteSet(TransitionIds)
  /\ SignalForms \subseteq SignalForm
  /\ Offers \subseteq Offer
  /\ MaxHeadcount \in Nat /\ YearDays \in Nat /\ SignalDays \in Nat
  /\ CredentialDays \in Nat /\ SignalCap \in Nat /\ LastDay \in Nat

----------------------------------------------------------------------------
(* Store.put: insert a row, or replace the row that has this id. *)
Put(table, id, row) ==
  [x \in DOMAIN table \cup {id} |-> IF x = id THEN row ELSE table[x]]

(* Mutant: a credential never runs out. *)
AuthenticatedForever(actor) ==
  actor = Operator \/ (actor \in DOMAIN employers /\ employers[actor].credential)

(* Store.authenticate: the operator's token always resolves; an employer's *)
(* only while the row holds the credential, is active and has not expired. *)
Authenticated(actor) ==
  \/ actor = Operator
  \/ /\ actor \in DOMAIN employers
     /\ employers[actor].credential
     /\ employers[actor].active
     /\ employers[actor].expires >= today

Max2(a, b) == IF a >= b THEN a ELSE b
Min2(a, b) == IF a <= b THEN a ELSE b

(* The Signal validator: dates ordered within the next year, expiry within *)
(* the signal's lifetime and no later than its last date.                  *)
ValidForm(f) ==
  /\ today <= f.earliest /\ f.earliest <= f.latest
  /\ f.latest <= today + YearDays
  /\ today <= f.expires
  /\ f.expires <= Min2(f.latest, today + SignalDays)

(* Mutant: the owner's account is not looked at. *)
ActiveSignalOfAnyone(s) ==
  ~signals[s].closed /\ signals[s].form.share /\ signals[s].form.expires >= today

(* Service.active: an open, shared, unexpired signal of an employer that   *)
(* is itself active and unexpired.                                         *)
ActiveSignal(s) ==
  /\ ~signals[s].closed
  /\ signals[s].form.share
  /\ signals[s].form.expires >= today
  /\ employers[signals[s].tenant].active
  /\ employers[signals[s].tenant].expires >= today

(* A date inside the windows of both signals. *)
InBothWindows(day, s, h) ==
  /\ Max2(signals[s].form.earliest, signals[h].form.earliest) <= day
  /\ day <= Min2(signals[s].form.latest, signals[h].form.latest)

(* Mutant: only the pay is compared. *)
PayCovers(s, h) == signals[h].form.wage >= signals[s].form.wage

(* The job pays at least what the workers had, for at least as many hours. *)
TermsCover(s, h) ==
  /\ signals[h].form.wage >= signals[s].form.wage
  /\ signals[h].form.hours >= signals[s].form.hours

(* Service.compatible. *)
Compatible(s, h) ==
  /\ signals[s].form.kind = "surplus"
  /\ signals[h].form.kind = "hiring"
  /\ signals[s].tenant # signals[h].tenant
  /\ ActiveSignal(s)
  /\ ActiveSignal(h)
  /\ signals[s].form.market = signals[h].form.market
  /\ Max2(signals[s].form.earliest, signals[h].form.earliest)
       <= Min2(signals[s].form.latest, signals[h].form.latest)
  /\ TermsCover(s, h)

(* The two signals of a transition, and the workers accepted or started    *)
(* transitions hold of one of them: one slot for each worker of each, so   *)
(* their number is the sum the code computes.                              *)
SignalOf(t, side) == IF side = "surplus" THEN t.surplus_id ELSE t.hiring_id

Slots(side, id) ==
  {p \in (DOMAIN transitions) \X (1 .. MaxHeadcount) :
     /\ transitions[p[1]].status \in {"accepted", "started"}
     /\ SignalOf(transitions[p[1]], side) = id
     /\ p[2] <= transitions[p[1]].headcount}

Reserved(side, id) == Cardinality(Slots(side, id))

----------------------------------------------------------------------------
Init ==
  /\ today = 0
  /\ employers = [e \in {} |-> None]
  /\ signals = [s \in {} |-> None]
  /\ transitions = [t \in {} |-> None]

(* date.today() moves on. *)
NextDay ==
  /\ today < LastDay
  /\ today' = today + 1
  /\ UNCHANGED <<employers, signals, transitions>>

(* POST /api/employers: a fresh row with a fresh credential. *)
Provision(e, days) ==
  /\ e \notin DOMAIN employers
  /\ employers' = Put(employers, e, [active |-> TRUE, expires |-> today + days,
                                     credential |-> TRUE])
  /\ UNCHANGED <<today, signals, transitions>>

(* DELETE /api/employers/{id}: put is called without a credential, so the  *)
(* row loses the one it had.                                               *)
Revoke(e) ==
  /\ e \in DOMAIN employers
  /\ employers' = Put(employers, e, [employers[e] EXCEPT !.active = FALSE,
                                                         !.credential = FALSE])
  /\ UNCHANGED <<today, signals, transitions>>

(* POST /api/signals: the cap counts every signal of the caller, closed    *)
(* ones included.                                                          *)
CreateSignal(actor, id, f) ==
  /\ Authenticated(actor) /\ actor # Operator
  /\ ValidForm(f)
  /\ Cardinality({s \in DOMAIN signals : signals[s].tenant = actor}) < SignalCap
  /\ id \notin DOMAIN signals
  /\ signals' = Put(signals, id, [tenant |-> actor, form |-> f, closed |-> FALSE])
  /\ UNCHANGED <<today, employers, transitions>>

(* Mutant: the closing caller becomes the tenant of the row. *)
CloseSignalAsCaller(actor, id) ==
  /\ Authenticated(actor)
  /\ id \in DOMAIN signals
  /\ actor \in {signals[id].tenant, Operator}
  /\ signals' = Put(signals, id, [tenant |-> actor, form |-> signals[id].form, closed |-> TRUE])
  /\ UNCHANGED <<today, employers, transitions>>

(* DELETE /api/signals/{id}: by its owner or the operator; the row keeps   *)
(* its tenant.                                                             *)
CloseSignal(actor, id) ==
  /\ Authenticated(actor)
  /\ id \in DOMAIN signals
  /\ actor \in {signals[id].tenant, Operator}
  /\ signals' = Put(signals, id,
       [signals[id] EXCEPT !.closed = TRUE, !.form = [@ EXCEPT !.share = FALSE]])
  /\ UNCHANGED <<today, employers, transitions>>

(* POST /api/transitions: the sending employer asks for n workers of its   *)
(* own surplus signal to move to a compatible hiring signal.               *)
Propose(actor, id, s, h, n) ==
  /\ Authenticated(actor)
  /\ s \in DOMAIN signals /\ signals[s].tenant = actor
  /\ h \in DOMAIN signals
  /\ Compatible(s, h)
  /\ n <= Min2(signals[s].form.headcount, signals[h].form.headcount)
  /\ id \notin DOMAIN transitions
  /\ transitions' = Put(transitions, id,
       [tenant |-> actor, receiving_tenant |-> signals[h].tenant,
        surplus_id |-> s, hiring_id |-> h, headcount |-> n,
        status |-> "proposed", offer |-> None, actual_start |-> None])
  /\ UNCHANGED <<today, employers, signals>>

(* What every decision requires: an authenticated party of the transition. *)
Party(actor, t) ==
  /\ Authenticated(actor)
  /\ t \in DOMAIN transitions
  /\ actor \in {transitions[t].tenant, transitions[t].receiving_tenant}

Receiver(actor, t) == Party(actor, t) /\ actor = transitions[t].receiving_tenant

(* Mutant: workers that already started are no longer counted. *)
HasRoomBesideAccepted(t, side) ==
  LET id == SignalOf(transitions[t], side)
      accepted == {p \in Slots(side, id) : transitions[p[1]].status = "accepted"}
  IN  Cardinality(accepted) + transitions[t].headcount <= signals[id].form.headcount

(* The new workers still fit the signal on this side of the transition. *)
HasRoom(t, side) ==
  LET id == SignalOf(transitions[t], side)
  IN  Reserved(side, id) + transitions[t].headcount <= signals[id].form.headcount

(* POST /api/transitions/{id} with action accept. *)
Accept(actor, t, offer) ==
  /\ Receiver(actor, t)
  /\ transitions[t].status = "proposed"
  /\ LET s == transitions[t].surplus_id
         h == transitions[t].hiring_id
     IN  /\ Compatible(s, h)
         /\ InBothWindows(offer.start, s, h)
         /\ offer.wage >= signals[h].form.wage
         /\ offer.hours >= signals[h].form.hours
         /\ offer.benefits
  /\ \A side \in Sides : HasRoom(t, side)
  /\ transitions' = Put(transitions, t,
       [transitions[t] EXCEPT !.status = "accepted", !.offer = offer])
  /\ UNCHANGED <<today, employers, signals>>

(* ... with action decline. *)
Decline(actor, t) ==
  /\ Receiver(actor, t)
  /\ transitions[t].status = "proposed"
  /\ transitions' = Put(transitions, t, [transitions[t] EXCEPT !.status = "declined"])
  /\ UNCHANGED <<today, employers, signals>>

(* Mutant: a started transition can still be withdrawn. *)
WithdrawStarted(actor, t) ==
  /\ Party(actor, t)
  /\ transitions[t].status \in {"proposed", "accepted", "started"}
  /\ transitions' = Put(transitions, t, [transitions[t] EXCEPT !.status = "withdrawn"])
  /\ UNCHANGED <<today, employers, signals>>

(* ... with action withdraw, by either party. *)
Withdraw(actor, t) ==
  /\ Party(actor, t)
  /\ transitions[t].status \in {"proposed", "accepted"}
  /\ transitions' = Put(transitions, t, [transitions[t] EXCEPT !.status = "withdrawn"])
  /\ UNCHANGED <<today, employers, signals>>

(* Mutant: the start is not compared with the agreed first day. *)
StartAnyPastDay(actor, t, day) ==
  /\ Receiver(actor, t)
  /\ transitions[t].status = "accepted"
  /\ day <= today
  /\ transitions' = Put(transitions, t,
       [transitions[t] EXCEPT !.status = "started", !.actual_start = day])
  /\ UNCHANGED <<today, employers, signals>>

(* ... with action started and the day the workers started. *)
Start(actor, t, day) ==
  /\ Receiver(actor, t)
  /\ transitions[t].status = "accepted"
  /\ transitions[t].offer.start <= day /\ day <= today
  /\ transitions' = Put(transitions, t,
       [transitions[t] EXCEPT !.status = "started", !.actual_start = day])
  /\ UNCHANGED <<today, employers, signals>>

OperatorRequest ==
  \E e \in Employers : Revoke(e) \/ \E days \in 1 .. CredentialDays : Provision(e, days)

SignalRequest ==
  \E actor \in Employers \cup {Operator}, id \in SignalIds :
    CloseSignal(actor, id) \/ \E f \in SignalForms : CreateSignal(actor, id, f)

TransitionRequest ==
  \E actor \in Employers, t \in TransitionIds :
    \/ \E s, h \in SignalIds, n \in 1 .. MaxHeadcount : Propose(actor, t, s, h, n)
    \/ \E offer \in Offers : Accept(actor, t, offer)
    \/ Decline(actor, t)
    \/ Withdraw(actor, t)
    \/ \E day \in 0 .. LastDay : Start(actor, t, day)

Next == NextDay \/ OperatorRequest \/ SignalRequest \/ TransitionRequest

Spec == Init /\ [][Next]_vars

----------------------------------------------------------------------------
(* Every table maps ids of its kind to rows of its kind; a signal's owner  *)
(* and both signals of a transition are themselves stored.                 *)
TypeOK ==
  /\ today \in 0 .. LastDay
  /\ DOMAIN employers \subseteq Employers
  /\ employers \in [DOMAIN employers -> EmployerRow]
  /\ DOMAIN signals \subseteq SignalIds
  /\ signals \in [DOMAIN signals -> SignalRow]
  /\ \A s \in DOMAIN signals : signals[s].tenant \in DOMAIN employers
  /\ DOMAIN transitions \subseteq TransitionIds
  /\ transitions \in [DOMAIN transitions -> TransitionRow]
  /\ \A t \in DOMAIN transitions :
       /\ transitions[t].surplus_id \in DOMAIN signals
       /\ transitions[t].hiring_id \in DOMAIN signals

(* The workers that accepted and started transitions hold of a signal,     *)
(* whoever proposed and accepted them and in whatever order, are never     *)
(* more than the headcount that signal posted, on either side              *)
(* (docs/employer-exchange.md: "accepted capacity cannot exceed either     *)
(* signal").                                                               *)
CapacityRespected ==
  \A s \in DOMAIN signals, side \in Sides : Reserved(side, s) <= signals[s].form.headcount

(* A commitment stays covered by both postings for as long as it stands:   *)
(* the parties own the two signals and differ, the market is the same, the *)
(* agreed first day lies in both windows and the agreed pay and hours meet *)
(* the hiring signal, which meets the surplus signal.                      *)
BindingOffer ==
  \A t \in DOMAIN transitions :
    transitions[t].status \in {"accepted", "started"} =>
      LET s == transitions[t].surplus_id
          h == transitions[t].hiring_id
          o == transitions[t].offer
      IN  /\ o \in Offer
          /\ transitions[t].tenant = signals[s].tenant
          /\ transitions[t].receiving_tenant = signals[h].tenant
          /\ signals[s].tenant # signals[h].tenant
          /\ signals[s].form.market = signals[h].form.market
          /\ InBothWindows(o.start, s, h)
          /\ o.wage >= signals[h].form.wage /\ o.wage >= signals[s].form.wage
          /\ o.hours >= signals[h].form.hours /\ o.hours >= signals[s].form.hours

(* A reported start is a past day, not before the agreed one. *)
StartedAfterOffer ==
  \A t \in DOMAIN transitions :
    transitions[t].status = "started" =>
      /\ transitions[t].offer \in Offer
      /\ transitions[t].actual_start \in Nat
      /\ transitions[t].offer.start <= transitions[t].actual_start
      /\ transitions[t].actual_start <= today

(* The moves of a transition: nothing leaves declined, withdrawn or        *)
(* started, and nothing is started that was not accepted.                  *)
Progress ==
  {<<"proposed", "accepted">>, <<"proposed", "declined">>, <<"proposed", "withdrawn">>,
   <<"accepted", "withdrawn">>, <<"accepted", "started">>}

(* What a step may do to the transitions it finds. *)
MovesForward ==
  \A t \in DOMAIN transitions :
    /\ t \in DOMAIN transitions'
    /\ \/ transitions'[t] = transitions[t]
       \/ /\ <<transitions[t].status, transitions'[t].status>> \in Progress
          /\ transitions'[t].headcount = transitions[t].headcount
          /\ transitions'[t].surplus_id = transitions[t].surplus_id
          /\ transitions'[t].hiring_id = transitions[t].hiring_id
          /\ transitions[t].status = "accepted"
               => transitions'[t].offer = transitions[t].offer

(* A transition only moves forward, and no later request rewrites its      *)
(* signals, its headcount or an offer once confirmed.                      *)
DecisionsFinal == [][MovesForward]_vars

(* An employer whose account was revoked or ran out. *)
LockedOut(e) ==
  e \in DOMAIN employers /\ (~employers[e].active \/ employers[e].expires < today)

(* What a step may do for employers that are locked out. *)
Silenced ==
  /\ \A e \in Employers : LockedOut(e) => LockedOut(e)'
  /\ \A s \in DOMAIN signals' \ DOMAIN signals : ~LockedOut(signals'[s].tenant)
  /\ \A t \in DOMAIN transitions :
       LockedOut(transitions[t].tenant) /\ LockedOut(transitions[t].receiving_tenant)
         => transitions'[t] = transitions[t]

(* Lockout is final, and it silences: an employer that is locked out gains *)
(* no signal, and no transition changes whose parties are both locked out  *)
(* (FR-002: "Enforce revocation").                                         *)
LockoutFinal == [][Silenced]_vars

(* Consent can be taken back: once a signal is closed or expired, or its   *)
(* owner is locked out, no step makes more of its workers committed.       *)
NoNewCommitments ==
  \A s \in DOMAIN signals, side \in Sides :
    signals[s].closed \/ signals[s].form.expires < today \/ LockedOut(signals[s].tenant)
      => Reserved(side, s)' <= Reserved(side, s)

(* Every step honours a withdrawn consent (Service.decide, accept).        *)
WithdrawnSignalsGainNothing == [][NoNewCommitments]_vars

(* The exchange keeps the promise of module Placement: a proposal is a     *)
(* request, an acceptance books, a reported start fulfils, and declining   *)
(* or withdrawing drops.                                                   *)
StageOf(status) ==
  CASE status = "proposed" -> "requested"
    [] status = "accepted" -> "booked"
    [] status = "started" -> "fulfilled"
    [] OTHER -> "dropped"

Promise == INSTANCE Placement WITH
  Signals <- SignalIds,
  Bookings <- TransitionIds,
  MaxCount <- MaxHeadcount,
  capacity <- [s \in DOMAIN signals |-> signals[s].form.headcount],
  bookings <- [t \in DOMAIN transitions |->
                 [from |-> transitions[t].surplus_id, to |-> transitions[t].hiring_id,
                  count |-> transitions[t].headcount,
                  stage |-> StageOf(transitions[t].status)]]

(* Every step of the exchange is a step of Placement or changes nothing    *)
(* that Placement sees (docs/employer-exchange.md, transfer workflow).     *)
KeepsPromise == Promise!Spec
=============================================================================
