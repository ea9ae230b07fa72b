----------------------------- MODULE Placement -----------------------------
(***************************************************************************)
(* What the employer exchange promises, without employers, dates or pay:   *)
(* signals post a capacity, bookings ask for part of the capacity of two   *)
(* signals, and the workers that booked and fulfilled bookings hold of a   *)
(* signal never exceed what it posted.                                     *)
(***************************************************************************)
EXTENDS Naturals, FiniteSets

CONSTANTS Signals, Bookings, MaxCount

VARIABLES
  capacity,   \* headcount of each posted signal
  bookings    \* the bookings asked for

vars == <<capacity, bookings>>

Stages == {"requested", "booked", "fulfilled", "dropped"}

(* One unit for each worker of each standing booking that draws on s. *)
Held(s) ==
  {u \in (DOMAIN bookings) \X (1 .. MaxCount) :
     /\ bookings[u[1]].stage \in {"booked", "fulfilled"}
     /\ s \in {bookings[u[1]].from, bookings[u[1]].to}
     /\ u[2] <= bookings[u[1]].count}

Init ==
  /\ capacity = [s \in {} |-> 0]
  /\ bookings = [b \in {} |-> 0]

Post(s, n) ==
  /\ s \notin DOMAIN capacity
  /\ capacity' = [x \in DOMAIN capacity \cup {s} |-> IF x = s THEN n ELSE capacity[x]]
  /\ UNCHANGED bookings

Ask(b, from, to, n) ==
  /\ b \notin DOMAIN bookings
  /\ from # to
  /\ n <= capacity[from] /\ n <= capacity[to]
  /\ bookings' = [x \in DOMAIN bookings \cup {b} |->
                    IF x = b THEN [from |-> from, to |-> to, count |-> n, stage |-> "requested"]
                             ELSE bookings[x]]
  /\ UNCHANGED capacity

MoveTo(b, stage) ==
  /\ bookings' = [bookings EXCEPT ![b].stage = stage]
  /\ UNCHANGED capacity

Book(b) ==
  /\ bookings[b].stage = "requested"
  /\ \A s \in {bookings[b].from, bookings[b].to} :
       Cardinality(Held(s)) + bookings[b].count <= capacity[s]
  /\ MoveTo(b, "booked")

Fulfil(b) == bookings[b].stage = "booked" /\ MoveTo(b, "fulfilled")

Drop(b) == bookings[b].stage \in {"requested", "booked"} /\ MoveTo(b, "dropped")

Next ==
  \/ \E s \in Signals, n \in 1 .. MaxCount : Post(s, n)
  \/ \E b \in Bookings, from, to \in DOMAIN capacity, n \in 1 .. MaxCount : Ask(b, from, to, n)
  \/ \E b \in DOMAIN bookings : Book(b) \/ Fulfil(b) \/ Drop(b)

Spec == Init /\ [][Next]_vars
=============================================================================
