--------------------------- MODULE ExchangeProofs ---------------------------
(***************************************************************************)
(* Theorems of Exchange for every set of employers, signals, transitions,  *)
(* signal forms and offers, and every value of the limits.                 *)
(***************************************************************************)
EXTENDS Exchange, FiniteSetTheorems, TLAPS

(* A table with a row put keeps its other rows; keys and rows keep their   *)
(* types.                                                                  *)
LEMMA PutTable ==
  ASSUME NEW K, NEW V, NEW f, DOMAIN f \subseteq K, f \in [DOMAIN f -> V],
         NEW id \in K, NEW row \in V
  PROVE  /\ DOMAIN Put(f, id, row) = DOMAIN f \cup {id}
         /\ DOMAIN Put(f, id, row) \subseteq K
         /\ Put(f, id, row) \in [DOMAIN Put(f, id, row) -> V]
         /\ Put(f, id, row)[id] = row
         /\ \A x \in DOMAIN f : x # id => Put(f, id, row)[x] = f[x]
BY DEF Put

(* What a request that decides a transition leaves of the tables: the row  *)
(* of the transition is new, of its own type, and names the same signals.  *)
LEMMA DecideTypeOK ==
  ASSUME TypeOK, NEW t \in DOMAIN transitions, NEW row \in TransitionRow,
         transitions' = Put(transitions, t, row),
         row.surplus_id = transitions[t].surplus_id,
         row.hiring_id = transitions[t].hiring_id,
         UNCHANGED <<today, employers, signals>>
  PROVE  TypeOK'
<1>1. /\ DOMAIN transitions' = DOMAIN transitions
      /\ transitions' \in [DOMAIN transitions' -> TransitionRow]
      /\ transitions'[t] = row
      /\ \A x \in DOMAIN transitions : x # t => transitions'[x] = transitions[x]
  BY DEF TypeOK, Put
<1>2. \A x \in DOMAIN transitions' :
        transitions'[x].surplus_id \in DOMAIN signals /\ transitions'[x].hiring_id \in DOMAIN signals
  BY <1>1 DEF TypeOK
<1>. QED  BY <1>1, <1>2 DEF TypeOK

(* The type invariant: every request stores rows of the right shape and    *)
(* refers only to stored records (Store.put, Service).                     *)
THEOREM TypeCorrect == Spec => []TypeOK
<1>1. Init => TypeOK
  BY ConstantsAssumption DEF Init, TypeOK
<1>2. TypeOK /\ [Next]_vars => TypeOK'
  <2> SUFFICES ASSUME TypeOK, [Next]_vars PROVE TypeOK'
    OBVIOUS
  <2>1. CASE NextDay
    BY <2>1, ConstantsAssumption DEF NextDay, TypeOK
  <2>2. ASSUME NEW e \in Employers, Revoke(e) PROVE TypeOK'
    <3>1. [employers[e] EXCEPT !.active = FALSE, !.credential = FALSE] \in EmployerRow
      BY <2>2 DEF Revoke, TypeOK, EmployerRow
    <3>. QED  BY <2>2, <3>1 DEF Revoke, TypeOK, Put
  <2>3. ASSUME NEW e \in Employers, NEW days \in 1 .. CredentialDays, Provision(e, days)
        PROVE  TypeOK'
    <3>1. [active |-> TRUE, expires |-> today + days, credential |-> TRUE] \in EmployerRow
      BY ConstantsAssumption DEF TypeOK, EmployerRow
    <3>. QED  BY <2>3, <3>1 DEF Provision, TypeOK, Put
  <2>4. ASSUME NEW actor \in Employers \cup {Operator}, NEW id \in SignalIds, CloseSignal(actor, id)
        PROVE  TypeOK'
    <3>1. signals[id] \in SignalRow
      BY <2>4 DEF CloseSignal, TypeOK
    <3>2. [signals[id] EXCEPT !.closed = TRUE, !.form = [@ EXCEPT !.share = FALSE]] \in SignalRow
      BY <3>1 DEF SignalRow, SignalForm
    <3>3. [signals[id] EXCEPT !.closed = TRUE, !.form = [@ EXCEPT !.share = FALSE]].tenant
            = signals[id].tenant
      BY <3>1 DEF SignalRow
    <3>. QED  BY <2>4, <3>2, <3>3 DEF CloseSignal, TypeOK, Put
  <2>5. ASSUME NEW actor \in Employers \cup {Operator}, NEW id \in SignalIds,
               NEW f \in SignalForms, CreateSignal(actor, id, f)
        PROVE  TypeOK'
    <3>1. actor \in Employers /\ actor \in DOMAIN employers
      BY <2>5 DEF CreateSignal, Authenticated
    <3>2. [tenant |-> actor, form |-> f, closed |-> FALSE] \in SignalRow
      BY <3>1, ConstantsAssumption DEF SignalRow
    <3>. QED  BY <2>5, <3>1, <3>2 DEF CreateSignal, TypeOK, Put
  <2>6. ASSUME NEW actor \in Employers, NEW t \in TransitionIds, NEW s \in SignalIds,
               NEW h \in SignalIds, NEW n \in 1 .. MaxHeadcount, Propose(actor, t, s, h, n)
        PROVE  TypeOK'
    <3> DEFINE row == [tenant |-> actor, receiving_tenant |-> signals[h].tenant,
                       surplus_id |-> s, hiring_id |-> h, headcount |-> n,
                       status |-> "proposed", offer |-> None, actual_start |-> None]
    <3>1. row \in TransitionRow
      BY <2>6 DEF Propose, TypeOK, SignalRow, TransitionRow, Statuses
    <3>2. row.surplus_id = s /\ row.hiring_id = h
      OBVIOUS
    <3>3. transitions' = Put(transitions, t, row) /\ UNCHANGED <<today, employers, signals>>
          /\ s \in DOMAIN signals /\ h \in DOMAIN signals
      BY <2>6 DEF Propose
    <3> HIDE DEF row
    <3>. QED  BY <3>1, <3>2, <3>3 DEF TypeOK, Put
  <2>7. ASSUME NEW actor \in Employers, NEW t \in TransitionIds, NEW offer \in Offers,
               Accept(actor, t, offer)
        PROVE  TypeOK'
    <3> DEFINE row == [transitions[t] EXCEPT !.status = "accepted", !.offer = offer]
    <3>1. t \in DOMAIN transitions /\ transitions[t] \in TransitionRow
      BY <2>7 DEF Accept, Receiver, Party, TypeOK
    <3>2. /\ row \in TransitionRow
          /\ row.surplus_id = transitions[t].surplus_id
          /\ row.hiring_id = transitions[t].hiring_id
      BY <3>1, ConstantsAssumption DEF TransitionRow, Statuses
    <3>3. transitions' = Put(transitions, t, row) /\ UNCHANGED <<today, employers, signals>>
      BY <2>7 DEF Accept
    <3> HIDE DEF row
    <3>. QED  BY <3>1, <3>2, <3>3, DecideTypeOK
  <2>8. ASSUME NEW actor \in Employers, NEW t \in TransitionIds,
               Decline(actor, t) \/ Withdraw(actor, t)
        PROVE  TypeOK'
    <3>1. t \in DOMAIN transitions /\ transitions[t] \in TransitionRow
      BY <2>8 DEF Decline, Withdraw, Receiver, Party, TypeOK
    <3>2. PICK status \in Statuses :
            /\ transitions' = Put(transitions, t, [transitions[t] EXCEPT !.status = status])
            /\ UNCHANGED <<today, employers, signals>>
      BY <2>8 DEF Decline, Withdraw, Statuses
    <3> DEFINE row == [transitions[t] EXCEPT !.status = status]
    <3>3. /\ row \in TransitionRow
          /\ row.surplus_id = transitions[t].surplus_id
          /\ row.hiring_id = transitions[t].hiring_id
      BY <3>1 DEF TransitionRow
    <3>4. transitions' = Put(transitions, t, row)
      BY <3>2
    <3> HIDE DEF row
    <3>. QED  BY <3>1, <3>2, <3>3, <3>4, DecideTypeOK
  <2>9. ASSUME NEW actor \in Employers, NEW t \in TransitionIds, NEW day \in 0 .. LastDay,
               Start(actor, t, day)
        PROVE  TypeOK'
    <3> DEFINE row == [transitions[t] EXCEPT !.status = "started", !.actual_start = day]
    <3>1. t \in DOMAIN transitions /\ transitions[t] \in TransitionRow
      BY <2>9 DEF Start, Receiver, Party, TypeOK
    <3>2. /\ row \in TransitionRow
          /\ row.surplus_id = transitions[t].surplus_id
          /\ row.hiring_id = transitions[t].hiring_id
      <4>1. day \in Nat
        BY ConstantsAssumption
      <4>. QED  BY <3>1, <4>1 DEF TransitionRow, Statuses
    <3>3. transitions' = Put(transitions, t, row) /\ UNCHANGED <<today, employers, signals>>
      BY <2>9 DEF Start
    <3> HIDE DEF row
    <3>. QED  BY <3>1, <3>2, <3>3, DecideTypeOK
  <2>10. CASE UNCHANGED vars
    BY <2>10 DEF vars, TypeOK
  <2>. QED
    BY <2>1, <2>2, <2>3, <2>4, <2>5, <2>6, <2>7, <2>8, <2>9, <2>10
    DEF Next, OperatorRequest, SignalRequest, TransitionRequest
<1>. QED  BY <1>1, <1>2, PTL DEF Spec

----------------------------------------------------------------------------
Committed == {"accepted", "started"}

Decision(actor, t) ==
  \/ \E offer \in Offers : Accept(actor, t, offer)
  \/ Decline(actor, t)
  \/ Withdraw(actor, t)
  \/ \E day \in 0 .. LastDay : Start(actor, t, day)

(* A step either leaves every transition alone, adds one proposed          *)
(* transition, or decides one.                                             *)
LEMMA TransitionStep ==
  ASSUME TypeOK, [Next]_vars
  PROVE  \/ UNCHANGED transitions
         \/ \E actor \in Employers, t \in TransitionIds, s, h \in SignalIds,
               n \in 1 .. MaxHeadcount : Propose(actor, t, s, h, n)
         \/ \E actor \in Employers, t \in TransitionIds : Decision(actor, t)
BY DEF Next, OperatorRequest, SignalRequest, TransitionRequest, vars, NextDay,
     Revoke, Provision, CloseSignal, CreateSignal, Decision

(* What a decision does to the transition it decides, and that it leaves   *)
(* the signals and every other transition alone.                           *)
LEMMA DecisionRow ==
  ASSUME TypeOK, NEW actor \in Employers, NEW t \in TransitionIds, Decision(actor, t)
  PROVE  /\ t \in DOMAIN transitions
         /\ UNCHANGED <<today, employers, signals>>
         /\ DOMAIN transitions' = DOMAIN transitions
         /\ \A x \in DOMAIN transitions : x # t => transitions'[x] = transitions[x]
         /\ transitions'[t] \in TransitionRow
         /\ transitions'[t].tenant = transitions[t].tenant
         /\ transitions'[t].receiving_tenant = transitions[t].receiving_tenant
         /\ transitions'[t].surplus_id = transitions[t].surplus_id
         /\ transitions'[t].hiring_id = transitions[t].hiring_id
         /\ transitions'[t].headcount = transitions[t].headcount
         /\ <<transitions[t].status, transitions'[t].status>> \in Progress
         /\ transitions'[t].status = "accepted" =>
              \E offer \in Offers : Accept(actor, t, offer) /\ transitions'[t].offer = offer
         /\ transitions[t].status = "accepted" => transitions'[t].offer = transitions[t].offer
         /\ transitions'[t].status = "started" =>
              \E day \in 0 .. LastDay : Start(actor, t, day) /\ transitions'[t].actual_start = day
<1>1. t \in DOMAIN transitions /\ transitions[t] \in TransitionRow
  BY DEF Decision, Accept, Decline, Withdraw, Start, Receiver, Party, TypeOK
<1>2. CASE \E offer \in Offers : Accept(actor, t, offer)
  <2>1. PICK offer \in Offers : Accept(actor, t, offer)
    BY <1>2
  <2>2. /\ transitions' = Put(transitions, t,
              [transitions[t] EXCEPT !.status = "accepted", !.offer = offer])
        /\ transitions[t].status = "proposed"
        /\ UNCHANGED <<today, employers, signals>>
    BY <2>1 DEF Accept
  <2>3. [transitions[t] EXCEPT !.status = "accepted", !.offer = offer] \in TransitionRow
    BY <1>1, ConstantsAssumption DEF TransitionRow, Statuses
  <2>. QED  BY <1>1, <2>1, <2>2, <2>3 DEF Put, TransitionRow, Progress
<1>3. CASE Decline(actor, t) \/ Withdraw(actor, t)
  <2>1. PICK status \in {"declined", "withdrawn"} :
          /\ transitions' = Put(transitions, t, [transitions[t] EXCEPT !.status = status])
          /\ <<transitions[t].status, status>> \in Progress
          /\ UNCHANGED <<today, employers, signals>>
    BY <1>3 DEF Decline, Withdraw, Progress
  <2>2. [transitions[t] EXCEPT !.status = status] \in TransitionRow
    BY <1>1 DEF TransitionRow, Statuses
  <2>. QED  BY <1>1, <2>1, <2>2 DEF Put, TransitionRow
<1>4. CASE \E day \in 0 .. LastDay : Start(actor, t, day)
  <2>1. PICK day \in 0 .. LastDay : Start(actor, t, day)
    BY <1>4
  <2>2. /\ transitions' = Put(transitions, t,
              [transitions[t] EXCEPT !.status = "started", !.actual_start = day])
        /\ transitions[t].status = "accepted"
        /\ UNCHANGED <<today, employers, signals>>
    BY <2>1 DEF Start
  <2>3. day \in Nat
    BY ConstantsAssumption
  <2>4. [transitions[t] EXCEPT !.status = "started", !.actual_start = day] \in TransitionRow
    BY <1>1, <2>3 DEF TransitionRow, Statuses
  <2>. QED  BY <1>1, <2>1, <2>2, <2>4 DEF Put, TransitionRow, Progress
<1>. QED  BY <1>2, <1>3, <1>4 DEF Decision

(* A proposal only adds a row, which is not committed. *)
LEMMA ProposeRow ==
  ASSUME TypeOK, NEW actor \in Employers, NEW t \in TransitionIds, NEW s \in SignalIds,
         NEW h \in SignalIds, NEW n \in 1 .. MaxHeadcount, Propose(actor, t, s, h, n)
  PROVE  /\ t \notin DOMAIN transitions
         /\ DOMAIN transitions' = DOMAIN transitions \cup {t}
         /\ \A x \in DOMAIN transitions : transitions'[x] = transitions[x]
         /\ transitions'[t].status = "proposed"
         /\ transitions'[t].surplus_id = s /\ transitions'[t].hiring_id = h
         /\ transitions'[t].tenant = signals[s].tenant
         /\ transitions'[t].receiving_tenant = signals[h].tenant
         /\ UNCHANGED <<today, employers, signals>>
BY DEF Propose, Put

(* A posted signal stays posted, with the owner, market, window, headcount *)
(* and terms it was posted with; closing is for good.                      *)
LEMMA SignalsKept ==
  ASSUME TypeOK, [Next]_vars
  PROVE  \A s \in DOMAIN signals :
           /\ s \in DOMAIN signals'
           /\ signals'[s].tenant = signals[s].tenant
           /\ signals[s].closed => signals'[s].closed
           /\ LET f == signals[s].form
                  g == signals'[s].form
              IN  /\ g.kind = f.kind /\ g.market = f.market /\ g.headcount = f.headcount
                  /\ g.earliest = f.earliest /\ g.latest = f.latest /\ g.expires = f.expires
                  /\ g.wage = f.wage /\ g.hours = f.hours
<1> DEFINE Kept(s) ==
      /\ s \in DOMAIN signals'
      /\ signals'[s].tenant = signals[s].tenant
      /\ signals[s].closed => signals'[s].closed
      /\ LET f == signals[s].form
             g == signals'[s].form
         IN  /\ g.kind = f.kind /\ g.market = f.market /\ g.headcount = f.headcount
             /\ g.earliest = f.earliest /\ g.latest = f.latest /\ g.expires = f.expires
             /\ g.wage = f.wage /\ g.hours = f.hours
<1> SUFFICES ASSUME NEW s \in DOMAIN signals PROVE Kept(s)
  OBVIOUS
<1>1. CASE UNCHANGED signals
  BY <1>1
<1>2. ASSUME NEW actor \in Employers \cup {Operator}, NEW id \in SignalIds, CloseSignal(actor, id)
      PROVE  Kept(s)
  <2>1. signals[id] \in SignalRow /\ id \in DOMAIN signals
    BY <1>2 DEF CloseSignal, TypeOK
  <2> DEFINE row == [signals[id] EXCEPT !.closed = TRUE, !.form = [@ EXCEPT !.share = FALSE]]
  <2>2. /\ row.tenant = signals[id].tenant
        /\ row.closed = TRUE
        /\ row.form = [signals[id].form EXCEPT !.share = FALSE]
    BY <2>1 DEF SignalRow
  <2>3. signals' = Put(signals, id, row)
    BY <1>2 DEF CloseSignal
  <2> HIDE DEF row
  <2>4. CASE s = id
    BY <2>1, <2>2, <2>3, <2>4 DEF Put, SignalRow, SignalForm
  <2>5. CASE s # id
    BY <2>3, <2>5 DEF Put
  <2>. QED  BY <2>4, <2>5
<1>3. ASSUME NEW actor, NEW id, NEW f, CreateSignal(actor, id, f)
      PROVE  Kept(s)
  BY <1>3 DEF CreateSignal, Put
<1> HIDE DEF Kept
<1>4. CASE UNCHANGED vars
  BY <1>1, <1>4 DEF vars
<1>5. CASE NextDay \/ OperatorRequest
  BY <1>1, <1>5 DEF NextDay, OperatorRequest, Revoke, Provision
<1>6. CASE SignalRequest
  BY <1>2, <1>3, <1>6 DEF SignalRequest
<1>7. CASE TransitionRequest
  BY <1>1, <1>7, DecisionRow, ProposeRow DEF TransitionRequest, Decision
<1>. QED  BY <1>4, <1>5, <1>6, <1>7 DEF Next


----------------------------------------------------------------------------
(* One slot for each of n workers of t, added to a set that has none of    *)
(* them, adds n to its cardinality.                                        *)
LEMMA AddBlock ==
  ASSUME NEW S, IsFiniteSet(S), NEW t, NEW n \in Nat, S \cap ({t} \X (1 .. n)) = {}
  PROVE  Cardinality(S \cup ({t} \X (1 .. n))) = Cardinality(S) + n
<1> DEFINE N == 1 .. n
           B == {t} \X N
<1>1. IsFiniteSet({t}) /\ Cardinality({t}) = 1
  BY FS_Singleton
<1>2. IsFiniteSet(N) /\ Cardinality(N) = n
  BY FS_Interval
<1> HIDE DEF N
<1>3. IsFiniteSet(B) /\ Cardinality(B) = 1 * n
  BY <1>1, <1>2, FS_Product
<1>4. S \cap B = {} /\ S \cup B = S \cup ({t} \X (1 .. n))
  BY DEF N
<1> HIDE DEF B
<1>5. Cardinality(S \cup B) = Cardinality(S) + Cardinality(B) - Cardinality(S \cap B)
  BY <1>3, FS_Union
<1>6. Cardinality(S \cap B) = 0 /\ Cardinality(S) \in Nat
  BY <1>4, FS_EmptySet, FS_CardinalityType
<1>7. Cardinality(S \cup B) = Cardinality(S) + n
  BY <1>3, <1>5, <1>6
<1>. QED  BY <1>4, <1>7 DEF B, N

(* The slots of a signal are finitely many, so Reserved counts them. *)
SlotsFinite ==
  \A side \in Sides, id \in SignalIds :
    IsFiniteSet(Slots(side, id)) /\ Reserved(side, id) \in Nat

LEMMA FiniteSlots == TypeOK => SlotsFinite
<1> SUFFICES ASSUME TypeOK, NEW side \in Sides, NEW id \in SignalIds
             PROVE  IsFiniteSet(Slots(side, id)) /\ Reserved(side, id) \in Nat
  BY DEF SlotsFinite
<1>1. IsFiniteSet(1 .. MaxHeadcount)
  BY FS_Interval, ConstantsAssumption
<1>2. IsFiniteSet(TransitionIds \X (1 .. MaxHeadcount))
  BY <1>1, FS_Product, ConstantsAssumption
<1>3. Slots(side, id) \subseteq TransitionIds \X (1 .. MaxHeadcount)
  BY DEF Slots, TypeOK
<1>4. IsFiniteSet(Slots(side, id))
  BY <1>2, <1>3, FS_Subset
<1>. QED  BY <1>4, FS_CardinalityType DEF Reserved

(* A step adds slots to a signal only by accepting a transition that names *)
(* it, and then adds exactly that transition's headcount.                  *)
LEMMA SlotsGrowByAccept ==
  ASSUME TypeOK, [Next]_vars, NEW side \in Sides, NEW id
  PROVE  \/ Slots(side, id)' \subseteq Slots(side, id)
         \/ \E actor \in Employers, t \in TransitionIds, offer \in Offers :
              /\ Accept(actor, t, offer)
              /\ SignalOf(transitions[t], side) = id
              /\ Slots(side, id)' =
                   Slots(side, id) \cup ({t} \X (1 .. transitions[t].headcount))
              /\ Slots(side, id) \cap ({t} \X (1 .. transitions[t].headcount)) = {}
<1>1. CASE UNCHANGED transitions
  BY <1>1 DEF Slots, SignalOf
<1>2. ASSUME NEW actor \in Employers, NEW t \in TransitionIds, NEW s \in SignalIds,
             NEW h \in SignalIds, NEW n \in 1 .. MaxHeadcount, Propose(actor, t, s, h, n)
      PROVE  Slots(side, id)' \subseteq Slots(side, id)
  <2>1. /\ DOMAIN transitions' = DOMAIN transitions \cup {t}
        /\ \A x \in DOMAIN transitions : transitions'[x] = transitions[x]
        /\ transitions'[t].status = "proposed"
    BY <1>2, ProposeRow
  <2>. QED  BY <2>1 DEF Slots, SignalOf
<1>3. ASSUME NEW actor \in Employers, NEW t \in TransitionIds, Decision(actor, t)
      PROVE  \/ Slots(side, id)' \subseteq Slots(side, id)
             \/ \E offer \in Offers :
                  /\ Accept(actor, t, offer)
                  /\ SignalOf(transitions[t], side) = id
                  /\ Slots(side, id)' =
                       Slots(side, id) \cup ({t} \X (1 .. transitions[t].headcount))
                  /\ Slots(side, id) \cap ({t} \X (1 .. transitions[t].headcount)) = {}
  <2>1. /\ t \in DOMAIN transitions
        /\ DOMAIN transitions' = DOMAIN transitions
        /\ \A x \in DOMAIN transitions : x # t => transitions'[x] = transitions[x]
        /\ SignalOf(transitions'[t], side) = SignalOf(transitions[t], side)
        /\ transitions'[t].headcount = transitions[t].headcount
        /\ <<transitions[t].status, transitions'[t].status>> \in Progress
    BY <1>3, DecisionRow DEF SignalOf
  <2>2. CASE transitions'[t].status # "accepted"
    <3>1. transitions'[t].status \in Committed => transitions[t].status \in Committed
      BY <2>1, <2>2 DEF Committed, Progress
    <3>2. SUFFICES ASSUME NEW p \in Slots(side, id)' PROVE p \in Slots(side, id)
      OBVIOUS
    <3>3. /\ p \in (DOMAIN transitions) \X (1 .. MaxHeadcount)
          /\ transitions'[p[1]].status \in Committed
          /\ SignalOf(transitions'[p[1]], side) = id
          /\ p[2] <= transitions'[p[1]].headcount
      BY <2>1, <3>2 DEF Slots, Committed
    <3>4. /\ transitions[p[1]].status \in Committed
          /\ SignalOf(transitions[p[1]], side) = id
          /\ p[2] <= transitions[p[1]].headcount
      BY <2>1, <3>1, <3>3
    <3>. QED  BY <3>3, <3>4 DEF Slots, Committed
  <2>3. CASE transitions'[t].status = "accepted" /\ SignalOf(transitions[t], side) # id
    <3>1. SUFFICES ASSUME NEW p \in Slots(side, id)' PROVE p \in Slots(side, id)
      OBVIOUS
    <3>. QED  BY <2>1, <2>3, <3>1 DEF Slots
  <2>4. CASE transitions'[t].status = "accepted" /\ SignalOf(transitions[t], side) = id
    <3>1. PICK offer \in Offers : Accept(actor, t, offer)
      BY <1>3, <2>4, DecisionRow
    <3>2. transitions[t].status = "proposed" /\ transitions[t].headcount \in 1 .. MaxHeadcount
      BY <3>1, <2>1 DEF Accept, TypeOK, TransitionRow
    <3> DEFINE new == {t} \X (1 .. transitions[t].headcount)
    <3>3. Slots(side, id) \cap new = {}
      BY <3>2 DEF Slots
    <3>4. ASSUME NEW p PROVE p \in Slots(side, id)' <=> p \in Slots(side, id) \cup new
      <4>1. p \in Slots(side, id)' <=>
              /\ p \in (DOMAIN transitions) \X (1 .. MaxHeadcount)
              /\ transitions'[p[1]].status \in {"accepted", "started"}
              /\ SignalOf(transitions'[p[1]], side) = id
              /\ p[2] <= transitions'[p[1]].headcount
        BY <2>1 DEF Slots
      <4>2. CASE p \in (DOMAIN transitions) \X (1 .. MaxHeadcount) /\ p[1] = t
        <5>1. p \in new <=> p[2] <= transitions[t].headcount
          BY <4>2, <3>2
        <5>2. p \notin Slots(side, id)
          BY <4>2, <3>2 DEF Slots
        <5>. QED  BY <4>1, <4>2, <5>1, <5>2, <2>1, <2>4
      <4>3. CASE p \in (DOMAIN transitions) \X (1 .. MaxHeadcount) /\ p[1] # t
        <5>1. p \notin new
          BY <4>3
        <5>. QED  BY <4>1, <4>3, <5>1, <2>1 DEF Slots
      <4>4. CASE p \notin (DOMAIN transitions) \X (1 .. MaxHeadcount)
        <5>1. new \subseteq (DOMAIN transitions) \X (1 .. MaxHeadcount)
          BY <2>1, <3>2, ConstantsAssumption
        <5>. QED  BY <4>1, <4>4, <5>1 DEF Slots
      <4>. QED  BY <4>2, <4>3, <4>4
    <3>5. Slots(side, id)' = Slots(side, id) \cup new
      BY <3>4
    <3>. QED  BY <3>1, <3>3, <3>5, <2>4
  <2>. QED  BY <2>2, <2>3, <2>4
<1>. QED  BY <1>1, <1>2, <1>3, TransitionStep

(* Capacity: the headcounts of standing commitments add up to at most what *)
(* the signal posted, for any number of parties, signals and transitions.  *)
THEOREM CapacityHolds == Spec => []CapacityRespected
<1>1. Init => CapacityRespected
  BY DEF Init, CapacityRespected
<1>2. TypeOK /\ SlotsFinite /\ SlotsFinite' /\ TypeOK' /\ CapacityRespected /\ [Next]_vars
        => CapacityRespected'
  <2> SUFFICES ASSUME TypeOK, SlotsFinite, SlotsFinite', TypeOK', CapacityRespected, [Next]_vars,
                      NEW s \in DOMAIN signals', NEW side \in Sides
               PROVE  Reserved(side, s)' <= signals'[s].form.headcount
    BY DEF CapacityRespected
  <2>1. /\ s \in SignalIds /\ signals'[s].form.headcount \in Nat
    BY ConstantsAssumption DEF TypeOK, SignalRow, SignalForm
  <2>2. /\ IsFiniteSet(Slots(side, s)) /\ Reserved(side, s) \in Nat
        /\ IsFiniteSet(Slots(side, s)') /\ Reserved(side, s)' \in Nat
        /\ Reserved(side, s)' = Cardinality(Slots(side, s)')
        /\ Reserved(side, s) = Cardinality(Slots(side, s))
    BY <2>1 DEF SlotsFinite, Reserved
  <2>3. CASE s \notin DOMAIN signals
    <3>1. UNCHANGED transitions
      BY <2>3, TransitionStep, DecisionRow, ProposeRow
    <3>2. Slots(side, s)' = {}
      BY <2>3, <3>1 DEF Slots, SignalOf, TypeOK, Sides
    <3>. QED  BY <2>1, <2>2, <3>2, FS_EmptySet
  <2>4. CASE s \in DOMAIN signals
    <3>1. /\ signals'[s].form.headcount = signals[s].form.headcount
          /\ Reserved(side, s) <= signals[s].form.headcount
      BY <2>4, SignalsKept DEF CapacityRespected
    <3>2. CASE Slots(side, s)' \subseteq Slots(side, s)
      BY <2>1, <2>2, <3>1, <3>2, FS_Subset
    <3>3. ASSUME NEW actor \in Employers, NEW t \in TransitionIds, NEW offer \in Offers,
                 Accept(actor, t, offer),
                 SignalOf(transitions[t], side) = s,
                 Slots(side, s)' = Slots(side, s) \cup ({t} \X (1 .. transitions[t].headcount)),
                 Slots(side, s) \cap ({t} \X (1 .. transitions[t].headcount)) = {}
          PROVE  Reserved(side, s)' <= signals'[s].form.headcount
      <4>1. transitions[t].headcount \in Nat /\ transitions[t].headcount >= 1
        BY <3>3, ConstantsAssumption DEF Accept, Receiver, Party, TypeOK, TransitionRow
      <4>2. Cardinality(Slots(side, s) \cup ({t} \X (1 .. transitions[t].headcount)))
              = Cardinality(Slots(side, s)) + transitions[t].headcount
        BY <2>2, <3>3, <4>1, AddBlock
      <4>3. Reserved(side, s)' = Reserved(side, s) + transitions[t].headcount
        BY <2>2, <3>3, <4>2
      <4>4. Reserved(side, s) + transitions[t].headcount <= signals[s].form.headcount
        BY <3>3 DEF Accept, HasRoom
      <4>. QED  BY <3>1, <4>3, <4>4
    <3>. QED  BY <3>2, <3>3, SlotsGrowByAccept
  <2>. QED  BY <2>3, <2>4
<1>. QED  BY <1>1, <1>2, TypeCorrect, FiniteSlots, PTL DEF Spec

----------------------------------------------------------------------------
(* The strengthening that makes BindingOffer inductive: from the proposal  *)
(* on, the parties are the owners of the two signals.                      *)
PartiesOwn ==
  \A t \in DOMAIN transitions :
    /\ transitions[t].tenant = signals[transitions[t].surplus_id].tenant
    /\ transitions[t].receiving_tenant = signals[transitions[t].hiring_id].tenant

LEMMA PartiesOwnStep == TypeOK /\ PartiesOwn /\ [Next]_vars => PartiesOwn'
<1> SUFFICES ASSUME TypeOK, PartiesOwn, [Next]_vars PROVE PartiesOwn'
  OBVIOUS
<1>1. \A s \in DOMAIN signals : s \in DOMAIN signals' /\ signals'[s].tenant = signals[s].tenant
  BY SignalsKept
<1>2. CASE UNCHANGED transitions
  BY <1>1, <1>2 DEF PartiesOwn, TypeOK
<1>3. ASSUME NEW actor \in Employers, NEW t \in TransitionIds, NEW s \in SignalIds,
             NEW h \in SignalIds, NEW n \in 1 .. MaxHeadcount, Propose(actor, t, s, h, n)
      PROVE  PartiesOwn'
  <2>1. /\ DOMAIN transitions' = DOMAIN transitions \cup {t}
        /\ \A x \in DOMAIN transitions : transitions'[x] = transitions[x]
        /\ transitions'[t].surplus_id = s /\ transitions'[t].hiring_id = h
        /\ transitions'[t].tenant = signals[s].tenant
        /\ transitions'[t].receiving_tenant = signals[h].tenant
        /\ t \notin DOMAIN transitions
        /\ UNCHANGED signals
    BY <1>3 DEF Propose, Put
  <2>. QED  BY <2>1 DEF PartiesOwn
<1>4. ASSUME NEW actor \in Employers, NEW t \in TransitionIds, Decision(actor, t)
      PROVE  PartiesOwn'
  <2>1. /\ t \in DOMAIN transitions
        /\ DOMAIN transitions' = DOMAIN transitions
        /\ \A x \in DOMAIN transitions : x # t => transitions'[x] = transitions[x]
        /\ transitions'[t].tenant = transitions[t].tenant
        /\ transitions'[t].receiving_tenant = transitions[t].receiving_tenant
        /\ transitions'[t].surplus_id = transitions[t].surplus_id
        /\ transitions'[t].hiring_id = transitions[t].hiring_id
        /\ UNCHANGED signals
    BY <1>4, DecisionRow
  <2>. QED  BY <2>1 DEF PartiesOwn
<1>. QED  BY <1>2, <1>3, <1>4, TransitionStep

(* What BindingOffer says of one transition. *)
Bound(t) ==
  LET s == transitions[t].surplus_id
      h == transitions[t].hiring_id
      o == transitions[t].offer
  IN  /\ o \in Offer
      /\ transitions[t].tenant = signals[s].tenant
      /\ transitions[t].receiving_tenant = signals[h].tenant
      /\ signals[s].tenant # signals[h].tenant
      /\ signals[s].form.market = signals[h].form.market
      /\ InBothWindows(o.start, s, h)
      /\ o.wage >= signals[h].form.wage /\ o.wage >= signals[s].form.wage
      /\ o.hours >= signals[h].form.hours /\ o.hours >= signals[s].form.hours

(* An accepting request checks both signals, so it binds the transition. *)
LEMMA AcceptBinds ==
  ASSUME TypeOK, PartiesOwn, NEW actor \in Employers, NEW t \in TransitionIds,
         NEW offer \in Offers, Accept(actor, t, offer), transitions'[t].offer = offer,
         t \in DOMAIN transitions, UNCHANGED signals,
         transitions'[t].tenant = transitions[t].tenant,
         transitions'[t].receiving_tenant = transitions[t].receiving_tenant,
         transitions'[t].surplus_id = transitions[t].surplus_id,
         transitions'[t].hiring_id = transitions[t].hiring_id
  PROVE  Bound(t)'
<1> DEFINE s == transitions[t].surplus_id
           h == transitions[t].hiring_id
<1>1. /\ Compatible(s, h)
      /\ InBothWindows(offer.start, s, h)
      /\ offer.wage >= signals[h].form.wage
      /\ offer.hours >= signals[h].form.hours
      /\ offer \in Offer
  BY ConstantsAssumption DEF Accept
<1>2. /\ signals[s].form \in SignalForm /\ signals[h].form \in SignalForm
      /\ offer.wage \in Nat /\ offer.hours \in Nat
  BY <1>1 DEF TypeOK, SignalRow, Offer
<1>3. /\ offer.wage >= signals[s].form.wage
      /\ offer.hours >= signals[s].form.hours
  BY <1>1, <1>2 DEF Compatible, TermsCover, SignalForm
<1>4. /\ signals[s].tenant # signals[h].tenant
      /\ signals[s].form.market = signals[h].form.market
  BY <1>1 DEF Compatible
<1>. QED  BY <1>1, <1>3, <1>4 DEF Bound, PartiesOwn, InBothWindows

(* Every commitment stays covered by both postings, whatever happens to    *)
(* the signals, the employers and the calendar after it was made.          *)
THEOREM OffersBind == Spec => []BindingOffer
<1>1. Init => PartiesOwn /\ BindingOffer
  BY DEF Init, PartiesOwn, BindingOffer
<1>2. TypeOK /\ TypeOK' /\ PartiesOwn /\ BindingOffer /\ [Next]_vars => BindingOffer'
  <2> SUFFICES ASSUME TypeOK, TypeOK', PartiesOwn, BindingOffer, [Next]_vars,
                      NEW x \in DOMAIN transitions',
                      transitions'[x].status \in {"accepted", "started"}
               PROVE  Bound(x)'
    BY DEF BindingOffer, Bound
  <2>1. ASSUME x \in DOMAIN transitions, Bound(x),
               transitions'[x].offer = transitions[x].offer,
               transitions'[x].tenant = transitions[x].tenant,
               transitions'[x].receiving_tenant = transitions[x].receiving_tenant,
               transitions'[x].surplus_id = transitions[x].surplus_id,
               transitions'[x].hiring_id = transitions[x].hiring_id
        PROVE  Bound(x)'
    <3>1. transitions[x].surplus_id \in DOMAIN signals /\ transitions[x].hiring_id \in DOMAIN signals
      BY <2>1 DEF TypeOK
    <3> DEFINE a == transitions[x].surplus_id
               b == transitions[x].hiring_id
    <3>2. /\ signals'[a].tenant = signals[a].tenant /\ signals'[b].tenant = signals[b].tenant
          /\ signals'[a].form.market = signals[a].form.market
          /\ signals'[b].form.market = signals[b].form.market
          /\ signals'[a].form.wage = signals[a].form.wage
          /\ signals'[b].form.wage = signals[b].form.wage
          /\ signals'[a].form.hours = signals[a].form.hours
          /\ signals'[b].form.hours = signals[b].form.hours
          /\ signals'[a].form.earliest = signals[a].form.earliest
          /\ signals'[b].form.earliest = signals[b].form.earliest
          /\ signals'[a].form.latest = signals[a].form.latest
          /\ signals'[b].form.latest = signals[b].form.latest
      BY <3>1, SignalsKept
    <3>. QED  BY <2>1, <3>2 DEF Bound, InBothWindows
  <2>2. CASE UNCHANGED transitions
    BY <2>1, <2>2 DEF BindingOffer, Bound
  <2>3. ASSUME NEW actor \in Employers, NEW t \in TransitionIds, NEW s \in SignalIds,
               NEW h \in SignalIds, NEW n \in 1 .. MaxHeadcount, Propose(actor, t, s, h, n)
        PROVE  Bound(x)'
    <3>0. /\ DOMAIN transitions' = DOMAIN transitions \cup {t}
          /\ \A y \in DOMAIN transitions : transitions'[y] = transitions[y]
          /\ transitions'[t].status = "proposed"
      BY <2>3, ProposeRow
    <3>1. x # t /\ x \in DOMAIN transitions /\ transitions'[x] = transitions[x]
      BY <3>0
    <3>. QED  BY <2>1, <3>1 DEF BindingOffer, Bound
  <2>4. ASSUME NEW actor \in Employers, NEW t \in TransitionIds, Decision(actor, t)
        PROVE  Bound(x)'
    <3>1. CASE x # t
      <4>1. x \in DOMAIN transitions /\ transitions'[x] = transitions[x]
        BY <2>4, <3>1, DecisionRow
      <4>. QED  BY <2>1, <4>1 DEF BindingOffer, Bound
    <3>2. CASE x = t /\ transitions'[t].status = "accepted"
      <4>1. PICK offer \in Offers : Accept(actor, t, offer) /\ transitions'[t].offer = offer
        BY <2>4, <3>2, DecisionRow
      <4>. QED  BY <2>4, <3>2, <4>1, AcceptBinds, DecisionRow
    <3>3. CASE x = t /\ transitions'[t].status = "started"
      <4>1. /\ t \in DOMAIN transitions
            /\ transitions[t].status = "accepted"
        BY <2>4, <3>3, DecisionRow DEF Progress
      <4>2. Bound(t)
        BY <4>1 DEF BindingOffer, Bound
      <4>. QED  BY <2>1, <2>4, <3>3, <4>1, <4>2, DecisionRow
    <3>. QED  BY <3>1, <3>2, <3>3
  <2>. QED  BY <2>2, <2>3, <2>4, TransitionStep
<1>. QED  BY <1>1, <1>2, PartiesOwnStep, TypeCorrect, PTL DEF Spec

(* A reported start never precedes the agreed day nor lies in the future:  *)
(* only an accepted transition starts, and its offer is the accepted one.  *)
OfferAgreed ==
  \A t \in DOMAIN transitions :
    transitions[t].status = "accepted" => transitions[t].offer \in Offer

(* What StartedAfterOffer says of one transition. *)
StartedInTime(t) ==
  /\ transitions[t].offer \in Offer
  /\ transitions[t].actual_start \in Nat
  /\ transitions[t].offer.start <= transitions[t].actual_start
  /\ transitions[t].actual_start <= today

LEMMA OfferAgreedStep == TypeOK /\ OfferAgreed /\ [Next]_vars => OfferAgreed'
<1> SUFFICES ASSUME TypeOK, OfferAgreed, [Next]_vars PROVE OfferAgreed'
  OBVIOUS
<1>1. CASE UNCHANGED transitions
  BY <1>1 DEF OfferAgreed
<1>2. ASSUME NEW actor \in Employers, NEW t \in TransitionIds, NEW s \in SignalIds,
             NEW h \in SignalIds, NEW n \in 1 .. MaxHeadcount, Propose(actor, t, s, h, n)
      PROVE  OfferAgreed'
  <2>1. /\ DOMAIN transitions' = DOMAIN transitions \cup {t}
        /\ \A x \in DOMAIN transitions : transitions'[x] = transitions[x]
        /\ transitions'[t].status = "proposed"
    BY <1>2, ProposeRow
  <2>. QED  BY <2>1 DEF OfferAgreed
<1>3. ASSUME NEW actor \in Employers, NEW t \in TransitionIds, Decision(actor, t)
      PROVE  OfferAgreed'
  <2>1. /\ DOMAIN transitions' = DOMAIN transitions
        /\ \A x \in DOMAIN transitions : x # t => transitions'[x] = transitions[x]
    BY <1>3, DecisionRow
  <2>2. transitions'[t].status = "accepted" => transitions'[t].offer \in Offers
    BY <1>3, DecisionRow
  <2>. QED  BY <2>1, <2>2, ConstantsAssumption DEF OfferAgreed
<1>. QED  BY <1>1, <1>2, <1>3, TransitionStep

THEOREM StartsFollowOffers == Spec => []StartedAfterOffer
<1>1. Init => OfferAgreed /\ StartedAfterOffer
  BY DEF Init, OfferAgreed, StartedAfterOffer
<1>2. TypeOK /\ OfferAgreed /\ StartedAfterOffer /\ [Next]_vars => StartedAfterOffer'
  <2> SUFFICES ASSUME TypeOK, OfferAgreed, StartedAfterOffer, [Next]_vars,
                      NEW x \in DOMAIN transitions', transitions'[x].status = "started"
               PROVE  StartedInTime(x)'
    BY DEF StartedAfterOffer, StartedInTime
  <2>1. today \in Nat
    BY ConstantsAssumption DEF TypeOK
  <2>2. CASE NextDay
    BY <2>1, <2>2 DEF NextDay, StartedAfterOffer, StartedInTime, Offer
  <2>3. CASE UNCHANGED <<today, transitions>>
    BY <2>3 DEF StartedAfterOffer, StartedInTime
  <2>4. ASSUME NEW actor \in Employers, NEW t \in TransitionIds, NEW s \in SignalIds,
               NEW h \in SignalIds, NEW n \in 1 .. MaxHeadcount, Propose(actor, t, s, h, n)
        PROVE  StartedInTime(x)'
    <3>0. /\ DOMAIN transitions' = DOMAIN transitions \cup {t}
          /\ \A y \in DOMAIN transitions : transitions'[y] = transitions[y]
          /\ transitions'[t].status = "proposed"
          /\ today' = today
      BY <2>4, ProposeRow
    <3>1. x \in DOMAIN transitions /\ transitions'[x] = transitions[x] /\ today' = today
      BY <3>0
    <3>. QED  BY <3>1 DEF StartedAfterOffer, StartedInTime
  <2>5. ASSUME NEW actor \in Employers, NEW t \in TransitionIds, Decision(actor, t)
        PROVE  StartedInTime(x)'
    <3>1. /\ DOMAIN transitions' = DOMAIN transitions /\ today' = today
          /\ x # t => transitions'[x] = transitions[x]
          /\ <<transitions[t].status, transitions'[t].status>> \in Progress
          /\ transitions[t].status = "accepted" => transitions'[t].offer = transitions[t].offer
      BY <2>5, DecisionRow
    <3>2. CASE x # t
      BY <3>1, <3>2 DEF StartedAfterOffer, StartedInTime
    <3>3. CASE x = t
      <4>1. PICK day \in 0 .. LastDay : Start(actor, t, day) /\ transitions'[t].actual_start = day
        BY <2>5, <3>3, DecisionRow
      <4>2. transitions[t].offer.start <= day /\ day <= today /\ transitions[t].status = "accepted"
        BY <4>1 DEF Start
      <4>3. day \in Nat /\ transitions[t].offer \in Offer
        BY <3>1, <3>3, <4>2, ConstantsAssumption DEF OfferAgreed
      <4>. QED  BY <3>1, <3>3, <4>1, <4>2, <4>3 DEF StartedInTime
    <3>. QED  BY <3>2, <3>3
  <2>6. CASE OperatorRequest \/ SignalRequest
    BY <2>3, <2>6 DEF OperatorRequest, SignalRequest, Revoke, Provision, CloseSignal, CreateSignal
  <2>7. CASE TransitionRequest
    BY <2>4, <2>5, <2>7 DEF TransitionRequest, Decision
  <2>. QED  BY <2>2, <2>3, <2>6, <2>7 DEF Next, vars
<1>. QED  BY <1>1, <1>2, OfferAgreedStep, TypeCorrect, PTL DEF Spec

(* No later request revises a decision: a step moves a transition only     *)
(* forward and keeps its terms.                                            *)
THEOREM DecisionsAreFinal == Spec => DecisionsFinal
<1>1. TypeOK /\ [Next]_vars => [MovesForward]_vars
  <2> SUFFICES ASSUME TypeOK, [Next]_vars PROVE MovesForward
    OBVIOUS
  <2>1. CASE UNCHANGED transitions
    BY <2>1 DEF MovesForward
  <2>2. ASSUME NEW actor \in Employers, NEW t \in TransitionIds, NEW s \in SignalIds,
               NEW h \in SignalIds, NEW n \in 1 .. MaxHeadcount, Propose(actor, t, s, h, n)
        PROVE  MovesForward
    BY <2>2, ProposeRow DEF MovesForward
  <2>3. ASSUME NEW actor \in Employers, NEW t \in TransitionIds, Decision(actor, t)
        PROVE  MovesForward
    <3>1. /\ DOMAIN transitions' = DOMAIN transitions
          /\ \A x \in DOMAIN transitions : x # t => transitions'[x] = transitions[x]
          /\ <<transitions[t].status, transitions'[t].status>> \in Progress
          /\ transitions'[t].headcount = transitions[t].headcount
          /\ transitions'[t].surplus_id = transitions[t].surplus_id
          /\ transitions'[t].hiring_id = transitions[t].hiring_id
          /\ transitions[t].status = "accepted" => transitions'[t].offer = transitions[t].offer
      BY <2>3, DecisionRow
    <3>. QED  BY <3>1 DEF MovesForward
  <2>. QED  BY <2>1, <2>2, <2>3, TransitionStep
<1>. QED  BY <1>1, TypeCorrect, PTL DEF Spec, DecisionsFinal

(* A request about transitions leaves the other tables alone. *)
LEMMA TransitionRequestKeeps ==
  ASSUME TypeOK, TransitionRequest
  PROVE  UNCHANGED <<today, employers, signals>>
<1>1. ASSUME NEW actor \in Employers, NEW t \in TransitionIds, NEW s \in SignalIds,
             NEW h \in SignalIds, NEW n \in 1 .. MaxHeadcount, Propose(actor, t, s, h, n)
      PROVE  UNCHANGED <<today, employers, signals>>
  BY <1>1, ProposeRow
<1>2. ASSUME NEW actor \in Employers, NEW t \in TransitionIds, Decision(actor, t)
      PROVE  UNCHANGED <<today, employers, signals>>
  BY <1>2, DecisionRow
<1>. QED  BY <1>1, <1>2 DEF TransitionRequest, Decision

(* An account never comes back: no request reactivates a stored employer   *)
(* or moves its expiry, and the calendar only advances.                    *)
LEMMA LockoutStays ==
  ASSUME TypeOK, [Next]_vars, NEW e \in Employers, LockedOut(e)
  PROVE  LockedOut(e)'
<1>1. e \in DOMAIN employers /\ employers[e] \in EmployerRow /\ today \in Nat
  BY ConstantsAssumption DEF LockedOut, TypeOK
<1>2. CASE UNCHANGED employers /\ today' \in {today, today + 1}
  BY <1>1, <1>2 DEF LockedOut, EmployerRow
<1>3. ASSUME NEW r \in Employers, Revoke(r) PROVE LockedOut(e)'
  <2>1. r \in DOMAIN employers /\ employers[r] \in EmployerRow
    BY <1>3 DEF Revoke, TypeOK
  <2> DEFINE row == [employers[r] EXCEPT !.active = FALSE, !.credential = FALSE]
  <2>2. ~row.active
    BY <2>1 DEF EmployerRow
  <2>3. employers' = Put(employers, r, row) /\ today' = today
    BY <1>3 DEF Revoke
  <2> HIDE DEF row
  <2>. QED  BY <1>1, <2>2, <2>3 DEF Put, LockedOut
<1>4. ASSUME NEW r \in Employers, NEW days \in 1 .. CredentialDays, Provision(r, days)
      PROVE  LockedOut(e)'
  BY <1>1, <1>4 DEF Provision, Put, LockedOut
<1>5. CASE NextDay
  BY <1>2, <1>5 DEF NextDay
<1>6. CASE OperatorRequest
  BY <1>3, <1>4, <1>6 DEF OperatorRequest
<1>7. CASE SignalRequest \/ UNCHANGED vars
  BY <1>2, <1>7 DEF SignalRequest, CloseSignal, CreateSignal, vars
<1>8. CASE TransitionRequest
  <2>1. UNCHANGED <<today, employers>>
    BY <1>8, TransitionRequestKeeps
  <2>. QED  BY <1>2, <2>1
<1>. QED  BY <1>5, <1>6, <1>7, <1>8 DEF Next

(* An authenticated employer is not locked out. *)
LEMMA AuthenticatedActive ==
  ASSUME TypeOK, NEW actor \in Employers, Authenticated(actor)
  PROVE  ~LockedOut(actor)
<1>1. /\ actor \in DOMAIN employers /\ employers[actor] \in EmployerRow
      /\ employers[actor].active /\ employers[actor].expires >= today
  BY ConstantsAssumption DEF Authenticated, TypeOK
<1>2. employers[actor].expires \in Nat /\ today \in Nat
  BY <1>1, ConstantsAssumption DEF EmployerRow, TypeOK
<1>. QED  BY <1>1, <1>2 DEF LockedOut

(* Revocation and expiry are final: every step leaves a locked-out         *)
(* employer locked out and acts for nobody who is (FR-002).                *)
THEOREM LockoutIsFinal == Spec => LockoutFinal
<1>1. TypeOK /\ [Next]_vars => [Silenced]_vars
  <2> SUFFICES ASSUME TypeOK, [Next]_vars PROVE Silenced
    OBVIOUS
  <2>1. \A e \in Employers : LockedOut(e) => LockedOut(e)'
    BY LockoutStays
  <2>2. ASSUME NEW s \in DOMAIN signals' \ DOMAIN signals PROVE ~LockedOut(signals'[s].tenant)
    <3>1. PICK actor \in Employers \cup {Operator}, id \in SignalIds, f \in SignalForms :
            CreateSignal(actor, id, f)
      <4>1. ~ UNCHANGED signals
        BY <2>2
      <4>2. CASE SignalRequest
        BY <2>2, <4>2 DEF SignalRequest, CloseSignal, Put
      <4>3. CASE NextDay \/ OperatorRequest \/ UNCHANGED vars
        BY <4>1, <4>3 DEF NextDay, OperatorRequest, Revoke, Provision, vars
      <4>4. CASE TransitionRequest
        BY <4>1, <4>4, TransitionRequestKeeps
      <4>. QED  BY <4>2, <4>3, <4>4 DEF Next
    <3>2. actor \in Employers /\ Authenticated(actor) /\ signals'[s].tenant = actor
      BY <2>2, <3>1 DEF CreateSignal, Put
    <3>. QED  BY <3>2, AuthenticatedActive
  <2>3. ASSUME NEW t \in DOMAIN transitions,
               LockedOut(transitions[t].tenant), LockedOut(transitions[t].receiving_tenant)
        PROVE  transitions'[t] = transitions[t]
    <3>1. ASSUME NEW actor \in Employers, NEW d \in TransitionIds, Decision(actor, d)
          PROVE  transitions'[t] = transitions[t]
      <4>1. Party(actor, d)
        BY <3>1 DEF Decision, Accept, Decline, Withdraw, Start, Receiver
      <4>2. ~LockedOut(actor) /\ actor \in {transitions[d].tenant, transitions[d].receiving_tenant}
        BY <4>1, AuthenticatedActive DEF Party
      <4>3. t # d
        BY <2>3, <4>2
      <4>. QED  BY <3>1, <4>3, DecisionRow
    <3>2. ASSUME NEW actor \in Employers, NEW d \in TransitionIds, NEW s \in SignalIds,
                 NEW h \in SignalIds, NEW n \in 1 .. MaxHeadcount, Propose(actor, d, s, h, n)
          PROVE  transitions'[t] = transitions[t]
      BY <3>2, ProposeRow
    <3>. QED  BY <3>1, <3>2, TransitionStep
  <2>. QED  BY <2>1, <2>2, <2>3 DEF Silenced
<1>. QED  BY <1>1, TypeCorrect, PTL DEF Spec, LockoutFinal

(* A commitment is made only on two signals that are open, unexpired and   *)
(* owned by active employers, so a withdrawn signal gains no worker.       *)
THEOREM ConsentHonoured == Spec => WithdrawnSignalsGainNothing
<1>1. TypeOK /\ SlotsFinite /\ SlotsFinite' /\ [Next]_vars => [NoNewCommitments]_vars
  <2> SUFFICES ASSUME TypeOK, SlotsFinite, SlotsFinite', [Next]_vars,
                      NEW s \in DOMAIN signals, NEW side \in Sides,
                      signals[s].closed \/ signals[s].form.expires < today
                        \/ LockedOut(signals[s].tenant)
               PROVE  Reserved(side, s)' <= Reserved(side, s)
    BY DEF NoNewCommitments
  <2>1. /\ s \in SignalIds /\ signals[s] \in SignalRow /\ today \in Nat
        /\ signals[s].tenant \in DOMAIN employers
        /\ employers[signals[s].tenant] \in EmployerRow
    BY ConstantsAssumption DEF TypeOK
  <2>2. ASSUME NEW actor \in Employers, NEW t \in TransitionIds, NEW offer \in Offers,
               Accept(actor, t, offer), SignalOf(transitions[t], side) = s
        PROVE  FALSE
    <3>1. ActiveSignal(s)
      BY <2>2 DEF Accept, Compatible, SignalOf, Sides
    <3>. QED  BY <2>1, <3>1 DEF ActiveSignal, LockedOut, SignalRow, SignalForm, EmployerRow
  <2>3. Slots(side, s)' \subseteq Slots(side, s)
    BY <2>2, SlotsGrowByAccept
  <2>4. /\ IsFiniteSet(Slots(side, s)) /\ Reserved(side, s) = Cardinality(Slots(side, s))
        /\ Reserved(side, s)' = Cardinality(Slots(side, s)')
    BY <2>1 DEF SlotsFinite, Reserved
  <2>. QED  BY <2>3, <2>4, FS_Subset
<1>. QED  BY <1>1, TypeCorrect, FiniteSlots, PTL DEF Spec, WithdrawnSignalsGainNothing

----------------------------------------------------------------------------
(* The exchange implements Placement: what Placement sees of it.           *)
CapacityOf == [s \in DOMAIN signals |-> signals[s].form.headcount]

BookingsOf ==
  [t \in DOMAIN transitions |->
     [from |-> transitions[t].surplus_id, to |-> transitions[t].hiring_id,
      count |-> transitions[t].headcount, stage |-> StageOf(transitions[t].status)]]

(* A signal is on one side for good, so no worker of it is counted twice.  *)
KindsOwn ==
  \A t \in DOMAIN transitions :
    /\ signals[transitions[t].surplus_id].form.kind = "surplus"
    /\ signals[transitions[t].hiring_id].form.kind = "hiring"

LEMMA KindsOwnStep == TypeOK /\ KindsOwn /\ [Next]_vars => KindsOwn'
<1> SUFFICES ASSUME TypeOK, KindsOwn, [Next]_vars PROVE KindsOwn'
  OBVIOUS
<1>1. \A s \in DOMAIN signals :
        s \in DOMAIN signals' /\ signals'[s].form.kind = signals[s].form.kind
  BY SignalsKept
<1>2. CASE UNCHANGED transitions
  BY <1>1, <1>2 DEF KindsOwn, TypeOK
<1>3. ASSUME NEW actor \in Employers, NEW t \in TransitionIds, NEW s \in SignalIds,
             NEW h \in SignalIds, NEW n \in 1 .. MaxHeadcount, Propose(actor, t, s, h, n)
      PROVE  KindsOwn'
  <2>1. /\ DOMAIN transitions' = DOMAIN transitions \cup {t}
        /\ \A x \in DOMAIN transitions : transitions'[x] = transitions[x]
        /\ transitions'[t].surplus_id = s /\ transitions'[t].hiring_id = h
        /\ t \notin DOMAIN transitions
        /\ UNCHANGED signals
    BY <1>3 DEF Propose, Put
  <2>2. signals[s].form.kind = "surplus" /\ signals[h].form.kind = "hiring"
    BY <1>3 DEF Propose, Compatible
  <2>. QED  BY <2>1, <2>2 DEF KindsOwn
<1>4. ASSUME NEW actor \in Employers, NEW t \in TransitionIds, Decision(actor, t)
      PROVE  KindsOwn'
  <2>1. /\ DOMAIN transitions' = DOMAIN transitions
        /\ \A x \in DOMAIN transitions : x # t => transitions'[x] = transitions[x]
        /\ transitions'[t].surplus_id = transitions[t].surplus_id
        /\ transitions'[t].hiring_id = transitions[t].hiring_id
        /\ UNCHANGED signals
    BY <1>4, DecisionRow
  <2>. QED  BY <2>1 DEF KindsOwn
<1>. QED  BY <1>2, <1>3, <1>4, TransitionStep

LEMMA StageFacts ==
  ASSUME NEW status \in Statuses
  PROVE  /\ StageOf(status) = "requested" <=> status = "proposed"
         /\ StageOf(status) = "booked" <=> status = "accepted"
         /\ StageOf(status) = "fulfilled" <=> status = "started"
         /\ StageOf(status) = "dropped" <=> status \in {"declined", "withdrawn"}
BY DEF StageOf, Statuses

LEMMA BookingFacts ==
  ASSUME TypeOK, NEW t \in DOMAIN transitions
  PROVE  /\ t \in DOMAIN BookingsOf
         /\ BookingsOf[t].from = transitions[t].surplus_id
         /\ BookingsOf[t].to = transitions[t].hiring_id
         /\ BookingsOf[t].count = transitions[t].headcount
         /\ BookingsOf[t].stage = StageOf(transitions[t].status)
         /\ transitions[t].status \in Statuses
BY DEF BookingsOf, TypeOK, TransitionRow

(* The units held of a signal are the slots on its side. *)
LEMMA HeldIsSlots ==
  ASSUME TypeOK, KindsOwn, NEW side \in Sides, NEW s \in DOMAIN signals,
         signals[s].form.kind = side
  PROVE  Promise!Held(s) = Slots(side, s)
<1>1. ASSUME NEW t \in DOMAIN transitions
      PROVE  /\ BookingsOf[t].stage \in {"booked", "fulfilled"}
                  <=> transitions[t].status \in {"accepted", "started"}
             /\ s \in {BookingsOf[t].from, BookingsOf[t].to}
                  <=> SignalOf(transitions[t], side) = s
             /\ BookingsOf[t].count = transitions[t].headcount
  <2>1. /\ BookingsOf[t].stage \in {"booked", "fulfilled"}
                <=> transitions[t].status \in {"accepted", "started"}
    BY BookingFacts, StageFacts
  <2>2. s \in {BookingsOf[t].from, BookingsOf[t].to} <=> SignalOf(transitions[t], side) = s
    BY BookingFacts DEF SignalOf, KindsOwn, Sides
  <2>. QED  BY <2>1, <2>2, BookingFacts
<1>2. DOMAIN BookingsOf = DOMAIN transitions
  BY DEF BookingsOf
<1>3. Promise!Held(s) =
        {u \in (DOMAIN BookingsOf) \X (1 .. MaxHeadcount) :
           /\ BookingsOf[u[1]].stage \in {"booked", "fulfilled"}
           /\ s \in {BookingsOf[u[1]].from, BookingsOf[u[1]].to}
           /\ u[2] <= BookingsOf[u[1]].count}
  BY DEF Promise!Held, BookingsOf
<1>4. ASSUME NEW u
      PROVE  u \in Promise!Held(s) <=> u \in Slots(side, s)
  <2>1. CASE u \in (DOMAIN transitions) \X (1 .. MaxHeadcount)
    <3>1. u[1] \in DOMAIN transitions
      BY <2>1
    <3>. QED  BY <1>1, <1>2, <1>3, <2>1, <3>1 DEF Slots
  <2>2. CASE u \notin (DOMAIN transitions) \X (1 .. MaxHeadcount)
    BY <1>2, <1>3, <2>2 DEF Slots
  <2>. QED  BY <2>1, <2>2
<1>. QED  BY <1>4

(* Moving one booking to another stage is what a decision does. *)
LEMMA DecisionMoves ==
  ASSUME TypeOK, NEW actor \in Employers, NEW t \in TransitionIds, Decision(actor, t)
  PROVE  /\ BookingsOf' = [BookingsOf EXCEPT ![t].stage = StageOf(transitions'[t].status)]
         /\ CapacityOf' = CapacityOf
<1>1. /\ t \in DOMAIN transitions
      /\ UNCHANGED signals
      /\ DOMAIN transitions' = DOMAIN transitions
      /\ \A x \in DOMAIN transitions : x # t => transitions'[x] = transitions[x]
      /\ transitions'[t].surplus_id = transitions[t].surplus_id
      /\ transitions'[t].hiring_id = transitions[t].hiring_id
      /\ transitions'[t].headcount = transitions[t].headcount
  BY DecisionRow
<1> DEFINE row == [from |-> transitions[t].surplus_id, to |-> transitions[t].hiring_id,
                   count |-> transitions[t].headcount,
                   stage |-> StageOf(transitions'[t].status)]
<1>2. row = [BookingsOf[t] EXCEPT !.stage = StageOf(transitions'[t].status)]
  BY <1>1 DEF BookingsOf
<1>3. [BookingsOf EXCEPT ![t].stage = StageOf(transitions'[t].status)]
        = [BookingsOf EXCEPT ![t] = row]
  BY <1>1, <1>2 DEF BookingsOf
<1>4. BookingsOf' = [x \in DOMAIN transitions' |->
        [from |-> transitions'[x].surplus_id, to |-> transitions'[x].hiring_id,
         count |-> transitions'[x].headcount, stage |-> StageOf(transitions'[x].status)]]
  BY DEF BookingsOf, StageOf
<1>5. BookingsOf' = [BookingsOf EXCEPT ![t] = row]
  BY <1>1, <1>4 DEF BookingsOf
<1>6. CapacityOf' = CapacityOf
  BY <1>1 DEF CapacityOf
<1>. QED  BY <1>3, <1>5, <1>6

LEMMA DecisionKeepsPromise ==
  ASSUME TypeOK, KindsOwn, NEW actor \in Employers, NEW t \in TransitionIds, Decision(actor, t)
  PROVE  Promise!Next
<1> DEFINE old == transitions[t].status
           new == transitions'[t].status
<1>1. /\ t \in DOMAIN transitions /\ <<old, new>> \in Progress
      /\ new = "accepted" => \E offer \in Offers : Accept(actor, t, offer)
      /\ old \in Statuses /\ new \in Statuses
  BY DecisionRow DEF TypeOK, TransitionRow
<1>2. t \in DOMAIN BookingsOf /\ BookingsOf[t].stage = StageOf(old)
  BY <1>1, BookingFacts
<1>3. /\ BookingsOf' = [BookingsOf EXCEPT ![t].stage = StageOf(new)]
      /\ CapacityOf' = CapacityOf
  BY DecisionMoves
<1>4. ASSUME NEW stage, StageOf(new) = stage
      PROVE  Promise!MoveTo(t, stage)
  BY <1>3, <1>4 DEF Promise!MoveTo, BookingsOf, CapacityOf
<1> HIDE DEF old, new
<1>5. CASE new \in {"declined", "withdrawn"}
  <2>1. StageOf(new) = "dropped" /\ StageOf(old) \in {"requested", "booked"}
    BY <1>1, <1>5, StageFacts DEF Progress
  <2>2. Promise!Drop(t)
    BY <1>2, <1>4, <2>1 DEF Promise!Drop, BookingsOf
  <2>. QED  BY <1>2, <2>2 DEF Promise!Next, BookingsOf
<1>6. CASE new = "started"
  <2>1. StageOf(new) = "fulfilled" /\ StageOf(old) = "booked"
    BY <1>1, <1>6, StageFacts DEF Progress
  <2>2. Promise!Fulfil(t)
    BY <1>2, <1>4, <2>1 DEF Promise!Fulfil, BookingsOf
  <2>. QED  BY <1>2, <2>2 DEF Promise!Next, BookingsOf
<1>7. CASE new = "accepted"
  <2>1. StageOf(new) = "booked" /\ StageOf(old) = "requested"
    BY <1>1, <1>7, StageFacts DEF Progress
  <2> DEFINE a == transitions[t].surplus_id
             b == transitions[t].hiring_id
  <2>2. /\ a \in DOMAIN signals /\ signals[a].form.kind = "surplus"
        /\ b \in DOMAIN signals /\ signals[b].form.kind = "hiring"
    BY <1>1 DEF TypeOK, KindsOwn
  <2>3. HasRoom(t, "surplus") /\ HasRoom(t, "hiring")
    <3>1. PICK offer \in Offers : Accept(actor, t, offer)
      BY <1>1, <1>7
    <3>2. \A side \in Sides : HasRoom(t, side)
      BY <3>1 DEF Accept
    <3>. QED  BY <3>2 DEF Sides
  <2>4. /\ Cardinality(Promise!Held(a)) + transitions[t].headcount <= signals[a].form.headcount
        /\ Cardinality(Promise!Held(b)) + transitions[t].headcount <= signals[b].form.headcount
    <3>1. Promise!Held(a) = Slots("surplus", a) /\ Promise!Held(b) = Slots("hiring", b)
      BY <2>2, HeldIsSlots DEF Sides
    <3>. QED  BY <2>3, <3>1 DEF HasRoom, Reserved, SignalOf
  <2>5. /\ BookingsOf[t].from = a /\ BookingsOf[t].to = b
        /\ BookingsOf[t].count = transitions[t].headcount
        /\ CapacityOf[a] = signals[a].form.headcount /\ CapacityOf[b] = signals[b].form.headcount
    BY <1>1, <2>2, BookingFacts DEF CapacityOf
  <2>6. \A s \in {BookingsOf[t].from, BookingsOf[t].to} :
          Cardinality(Promise!Held(s)) + BookingsOf[t].count <= CapacityOf[s]
    BY <2>4, <2>5
  <2>7. BookingsOf[t].stage = "requested" /\ Promise!MoveTo(t, "booked")
    BY <1>2, <1>4, <2>1
  <2>8. \A S : Promise!Cardinality(S) = Cardinality(S)
    BY DEF Promise!Cardinality, Cardinality
  <2>9. \A s \in {BookingsOf[t].from, BookingsOf[t].to} :
          Promise!Cardinality(Promise!Held(s)) + BookingsOf[t].count <= CapacityOf[s]
    BY <2>6, <2>8
  <2>10. Promise!Book(t)
    BY <2>7, <2>9 DEF Promise!Book, BookingsOf, CapacityOf
  <2>. QED  BY <1>2, <2>10 DEF Promise!Next, BookingsOf
<1>. QED  BY <1>1, <1>5, <1>6, <1>7 DEF Progress

LEMMA ProposalKeepsPromise ==
  ASSUME TypeOK, NEW actor \in Employers, NEW t \in TransitionIds, NEW s \in SignalIds,
         NEW h \in SignalIds, NEW n \in 1 .. MaxHeadcount, Propose(actor, t, s, h, n)
  PROVE  Promise!Next
<1> DEFINE row == [from |-> s, to |-> h, count |-> n, stage |-> "requested"]
<1>1. /\ t \notin DOMAIN transitions /\ UNCHANGED signals
      /\ DOMAIN transitions' = DOMAIN transitions \cup {t}
      /\ \A x \in DOMAIN transitions : transitions'[x] = transitions[x]
      /\ transitions'[t].surplus_id = s /\ transitions'[t].hiring_id = h
      /\ transitions'[t].headcount = n /\ transitions'[t].status = "proposed"
  BY DEF Propose, Put
<1>2. StageOf("proposed") = "requested"
  BY StageFacts DEF Statuses
<1>3. BookingsOf' = [x \in DOMAIN transitions' |->
        [from |-> transitions'[x].surplus_id, to |-> transitions'[x].hiring_id,
         count |-> transitions'[x].headcount, stage |-> StageOf(transitions'[x].status)]]
  BY DEF BookingsOf, StageOf
<1>4. BookingsOf' = [x \in DOMAIN BookingsOf \cup {t} |-> IF x = t THEN row ELSE BookingsOf[x]]
  BY <1>1, <1>2, <1>3 DEF BookingsOf
<1>5. CapacityOf' = CapacityOf /\ t \notin DOMAIN BookingsOf
  BY <1>1 DEF CapacityOf, BookingsOf
<1>6. /\ s \in DOMAIN signals /\ h \in DOMAIN signals /\ s # h
      /\ n <= Min2(signals[s].form.headcount, signals[h].form.headcount)
  BY DEF Propose, Compatible
<1>7. /\ signals[s].form.headcount \in Nat /\ signals[h].form.headcount \in Nat
  BY <1>6, ConstantsAssumption DEF TypeOK, SignalRow, SignalForm
<1>8. /\ s \in DOMAIN CapacityOf /\ h \in DOMAIN CapacityOf
      /\ n <= CapacityOf[s] /\ n <= CapacityOf[h]
  BY <1>6, <1>7, ConstantsAssumption DEF Min2, CapacityOf
<1>9. Promise!Ask(t, s, h, n)
  BY <1>4, <1>5, <1>6, <1>8 DEF Promise!Ask, BookingsOf, CapacityOf
<1>. QED  BY <1>8, <1>9 DEF Promise!Next, CapacityOf

(* Every other request posts a signal or changes nothing Placement sees. *)
LEMMA SignalKeepsPromise ==
  ASSUME TypeOK, [Next]_vars, UNCHANGED transitions
  PROVE  [Promise!Next]_(Promise!vars)
<1>1. BookingsOf' = BookingsOf
  <2>1. BookingsOf' = [x \in DOMAIN transitions' |->
          [from |-> transitions'[x].surplus_id, to |-> transitions'[x].hiring_id,
           count |-> transitions'[x].headcount, stage |-> StageOf(transitions'[x].status)]]
    BY DEF BookingsOf, StageOf
  <2>. QED  BY <2>1 DEF BookingsOf
<1>2. CASE DOMAIN signals' = DOMAIN signals
  <2>1. \A s \in DOMAIN signals : signals'[s].form.headcount = signals[s].form.headcount
    BY SignalsKept
  <2>2. CapacityOf' = CapacityOf
    BY <1>2, <2>1 DEF CapacityOf
  <2>. QED  BY <1>1, <2>2 DEF Promise!vars, BookingsOf, CapacityOf
<1>3. ASSUME NEW actor, NEW id \in SignalIds, NEW f \in SignalForms, CreateSignal(actor, id, f)
      PROVE  Promise!Next
  <2> DEFINE n == f.headcount
  <2>1. n \in 1 .. MaxHeadcount
    BY ConstantsAssumption DEF SignalForm
  <2>2. /\ id \notin DOMAIN signals
        /\ signals' = Put(signals, id, [tenant |-> actor, form |-> f, closed |-> FALSE])
    BY <1>3 DEF CreateSignal
  <2>3. /\ DOMAIN signals' = DOMAIN signals \cup {id}
        /\ signals'[id].form.headcount = n
        /\ \A x \in DOMAIN signals : signals'[x] = signals[x]
    BY <2>2 DEF Put
  <2> HIDE DEF n
  <2>4. /\ id \notin DOMAIN CapacityOf
        /\ CapacityOf' = [x \in DOMAIN CapacityOf \cup {id} |->
                            IF x = id THEN n ELSE CapacityOf[x]]
    BY <2>2, <2>3 DEF CapacityOf
  <2>5. PICK m \in 1 .. MaxHeadcount : m = n
    BY <2>1
  <2>6. Promise!Post(id, m)
    BY <1>1, <2>4, <2>5 DEF Promise!Post, BookingsOf, CapacityOf
  <2>. QED  BY <2>6 DEF Promise!Next
<1>4. ASSUME NEW actor, NEW id, CloseSignal(actor, id)
      PROVE  DOMAIN signals' = DOMAIN signals
  BY <1>4 DEF CloseSignal, Put
<1>5. CASE SignalRequest
  BY <1>2, <1>3, <1>4, <1>5 DEF SignalRequest
<1>6. CASE UNCHANGED signals
  BY <1>2, <1>6
<1>7. UNCHANGED signals \/ SignalRequest
  <2>1. ASSUME NEW actor, NEW t, NEW s, NEW h, NEW n, Propose(actor, t, s, h, n)
        PROVE  UNCHANGED signals
    BY <2>1 DEF Propose
  <2>2. ASSUME NEW actor, NEW t, NEW offer, Accept(actor, t, offer)
        PROVE  UNCHANGED signals
    BY <2>2 DEF Accept
  <2>3. ASSUME NEW actor, NEW t, Decline(actor, t)
        PROVE  UNCHANGED signals
    BY <2>3 DEF Decline
  <2>4. ASSUME NEW actor, NEW t, Withdraw(actor, t)
        PROVE  UNCHANGED signals
    BY <2>4 DEF Withdraw
  <2>5. ASSUME NEW actor, NEW t, NEW day, Start(actor, t, day)
        PROVE  UNCHANGED signals
    BY <2>5 DEF Start
  <2>6. TransitionRequest => UNCHANGED signals
    BY <2>1, <2>2, <2>3, <2>4, <2>5 DEF TransitionRequest
  <2>7. OperatorRequest => UNCHANGED signals
    BY DEF OperatorRequest, Revoke, Provision
  <2>. QED  BY <2>6, <2>7 DEF Next, vars, NextDay
<1>. QED  BY <1>5, <1>6, <1>7

(* The exchange keeps the promise of Placement, whatever employers do and  *)
(* in whatever order: bookings stay within posted capacity and only move   *)
(* forward (docs/employer-exchange.md, transfer workflow).                 *)
THEOREM PromiseKept == Spec => KeepsPromise
<1>1. Init => KindsOwn
  BY DEF Init, KindsOwn
<1>2. Init => Promise!Init
  <2> SUFFICES ASSUME Init PROVE Promise!Init
    OBVIOUS
  <2>1. DOMAIN signals = {} /\ DOMAIN transitions = {}
    BY DEF Init
  <2>. QED  BY <2>1 DEF Promise!Init
<1>3. TypeOK /\ KindsOwn /\ [Next]_vars => [Promise!Next]_(Promise!vars)
  <2> SUFFICES ASSUME TypeOK, KindsOwn, [Next]_vars PROVE [Promise!Next]_(Promise!vars)
    OBVIOUS
  <2>. QED  BY TransitionStep, SignalKeepsPromise, ProposalKeepsPromise, DecisionKeepsPromise
<1>. QED  BY <1>1, <1>2, <1>3, KindsOwnStep, TypeCorrect, PTL DEF Spec, KeepsPromise, Promise!Spec

=============================================================================
