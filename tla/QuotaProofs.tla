---------------------------- MODULE QuotaProofs ----------------------------
(***************************************************************************)
(* Proofs about HttpQuota, for any number of clients, any limits and any   *)
(* clock: what is reserved is spaced, nothing waits longer than MaxWait,   *)
(* and a cooldown holds once the requests in flight have drained.          *)
(***************************************************************************)
EXTENDS HttpQuota, FiniteSetTheorems, TLAPS

(* The clock that a client goes by is not ahead of the host's. *)
ClockPast == \A c \in Clients : client[c].pc \in {"asking", "blocking"} => client[c].at <= now

Client == [pc: {"idle", "asking", "sleeping", "sent", "blocking"}, at: Nat, until: Nat]

(* The table holds reservations only; rows are lost oldest first, and none *)
(* before its time.                                                        *)
RowsReserved == \A at \in requests : \E i \in 1 .. Len(reserved) : reserved[i].at = at

OldestFirst ==
  \A i, j \in 1 .. Len(reserved) :
    i < j /\ reserved[i].at \in requests => reserved[j].at \in requests

NotForgotten ==
  \A i \in 1 .. Len(reserved) :
    reserved[i].at >= now - Retention => reserved[i].at \in requests

(* A request is due when it was reserved for, or later by the client's lag,*)
(* and never further ahead than MaxWait.                                   *)
DueInTime ==
  \A i \in 1 .. Len(reserved) :
    /\ reserved[i].due \in reserved[i].at .. reserved[i].at + MaxLag
    /\ reserved[i].due <= now + MaxWait

(* Cooldowns are in force until the last of them ends. *)
CooldownCovers == \A b \in blocked : b.from <= now /\ b.until <= cooldown

RecordedInTime == \A b \in blocked : b.from <= b.asked + MaxLag

NoneDueIn(b) ==
  \A i \in 1 .. Len(reserved) :
    ~(b.from + MaxWait < reserved[i].due /\ reserved[i].due < b.until)

LEMMA DrainsParts == CooldownDrains <=> RecordedInTime /\ \A b \in blocked : NoneDueIn(b)
BY Zenon DEF CooldownDrains, RecordedInTime, NoneDueIn

(* The quota of QuotaKept, for windows that end at any time.               *)
DueWithin(limit, t) ==
  {j \in 1 .. Len(reserved) :
     reserved[j].due <= t /\ reserved[j].due > t - (limit[1] - MaxLag)}

WindowsKept == \A limit \in Limits : \A t \in Nat : Cardinality(DueWithin(limit, t)) <= limit[2]

Inv ==
  /\ TypeOK /\ ClockPast
  /\ RowsReserved /\ OldestFirst /\ NotForgotten /\ DueInTime /\ CooldownCovers
  /\ SpacedReservations /\ CooldownDrains /\ WindowsKept

----------------------------------------------------------------------------
LEMMA ConstantsTyped ==
  /\ Retention \in Nat /\ MaxWait \in Nat /\ MinCooldown \in Nat /\ MaxLag \in Nat
  /\ MaxTime \in Nat /\ Interval \in Nat /\ Interval > 0 /\ MaxLag + Interval <= Retention
  /\ \A seconds \in RetryAfters : seconds \in Int
BY ConstantsAssumption

LEMMA InitInv == Init => Inv
<1> SUFFICES ASSUME Init
             PROVE  Inv
  OBVIOUS
<1>1. /\ TypeOK /\ ClockPast
      /\ RowsReserved /\ OldestFirst /\ NotForgotten /\ DueInTime /\ CooldownCovers
      /\ SpacedReservations /\ CooldownDrains
  BY ConstantsTyped
  DEF Init, Idle, TypeOK, ClockPast, RowsReserved, OldestFirst, NotForgotten, DueInTime,
      CooldownCovers, SpacedReservations, CooldownDrains
<1>2. WindowsKept
  <2>1. \A limit \in Limits : \A t \in Nat : DueWithin(limit, t) = {}
    BY DEF Init, DueWithin
  <2> QED
    BY <2>1, FS_EmptySet, ConstantsAssumption DEF WindowsKept
<1> QED
  BY <1>1, <1>2 DEF Inv

LEMMA TypeFacts ==
  ASSUME Inv
  PROVE  /\ now \in Nat /\ cooldown \in Nat
         /\ \A at \in requests : at \in Nat /\ at <= now + MaxWait
         /\ reserved \in Seq([at: Nat, due: Nat]) /\ Len(reserved) \in Nat
         /\ \A i \in 1 .. Len(reserved) : reserved[i].at \in Nat /\ reserved[i].due \in Nat
         /\ \A c \in Clients : client[c].at \in Nat
<1>1. TypeOK
  BY DEF Inv
<1>2. reserved \in Seq([at: Nat, due: Nat]) /\ Len(reserved) \in Nat
  BY <1>1 DEF TypeOK
<1>3. ASSUME NEW i \in 1 .. Len(reserved)
      PROVE  reserved[i].at \in Nat /\ reserved[i].due \in Nat
  <2> DEFINE rows == [at: Nat, due: Nat]
  <2>1. reserved \in Seq(rows) /\ i \in 1 .. Len(reserved)
    BY <1>2
  <2> HIDE DEF rows
  <2>2. reserved[i] \in rows
    BY <2>1
  <2> QED
    BY <2>2 DEF rows
<1>4. ASSUME NEW c \in Clients
      PROVE  client[c].at \in Nat
  <2>1. client[c] \in Client
    BY <1>1 DEF TypeOK, Client
  <2> QED
    BY <2>1 DEF Client
<1>5. \A at \in requests : at \in Nat /\ at <= now + MaxWait
  BY <1>1, ConstantsTyped DEF TypeOK
<1>6. now \in Nat /\ cooldown \in Nat
  BY <1>1 DEF TypeOK
<1> QED
  BY <1>2, <1>3, <1>4, <1>5, <1>6

(* What reserve computes: a time that is not before the clock, and at      *)
(* least Interval after every reservation there has been, deleted ones     *)
(* included.                                                               *)
LEMMA ScheduledAfterAll ==
  ASSUME Inv, NEW moment \in Nat, moment <= now, now - moment <= MaxLag
  PROVE  /\ Scheduled(moment) \in Nat
         /\ Scheduled(moment) >= moment
         /\ \A i \in 1 .. Len(reserved) : Scheduled(moment) >= reserved[i].at + Interval
<1> DEFINE K == Kept(moment)
           last == IF K = {} THEN 0 ELSE CHOOSE at \in K : \A other \in K : other <= at
<1> USE ConstantsTyped
<1>1. /\ \A at \in K : at \in Nat
      /\ now \in Nat /\ Len(reserved) \in Nat
      /\ \A i \in 1 .. Len(reserved) : reserved[i].at \in Nat
  BY TypeFacts DEF Kept
<1>2. Scheduled(moment) = Larger(moment, last + Interval)
  BY DEF Scheduled
<1>3. CASE Len(reserved) = 0
  <2>1. K = {}
    BY <1>3, <1>1 DEF Inv, RowsReserved, Kept
  <2>2. last = 0
    BY <2>1
  <2> HIDE DEF last, K
  <2> QED
    BY <1>2, <1>3, <2>2 DEF Larger
<1>4. CASE Len(reserved) # 0
  <2> DEFINE n == Len(reserved)
             final == reserved[n].at
  <2>1. /\ n \in 1 .. Len(reserved)
        /\ final \in Nat
    BY <1>1, <1>4
  <2>2. \A i \in 1 .. n : reserved[i].at \in Nat /\ reserved[i].at <= final
    <3> TAKE i \in 1 .. n
    <3>1. reserved[i].at \in Nat
      BY <1>1
    <3>2. i < n => final >= reserved[i].at + Interval
      BY <2>1 DEF Inv, SpacedReservations
    <3> QED
      BY <3>1, <3>2, <2>1
  <2>3. CASE K = {}
    <3>1. final < moment - Retention \/ final \notin requests
      BY <2>3, <2>1 DEF Kept
    <3>2. final < now - Retention \/ final < moment - Retention
      BY <3>1, <2>1, <1>1 DEF Inv, NotForgotten
    <3>3. moment >= final + Interval
      BY <3>2, <2>1, <1>1
    <3>4. last = 0
      BY <2>3
    <3> HIDE DEF last, final, K
    <3> QED
      BY <3>3, <3>4, <2>1, <2>2, <1>2 DEF Larger
  <2>4. CASE K # {}
    <3>1. PICK at \in K : TRUE
      BY <2>4
    <3>2. PICK i \in 1 .. n : reserved[i].at = at
      BY DEF Inv, RowsReserved, Kept
    <3>3. final \in requests
      <4>1. i < n => final \in requests
        BY <3>2, <2>1 DEF Inv, OldestFirst, Kept
      <4> QED
        BY <4>1, <3>2, <2>1 DEF Kept
    <3>4. final \in K
      BY <3>1, <3>2, <3>3, <2>1, <2>2, <1>1 DEF Kept
    <3>5. \A other \in K : other <= final
      BY <2>2 DEF Inv, RowsReserved, Kept
    <3>6. last \in K /\ \A other \in K : other <= last
      BY <3>4, <3>5, <2>4
    <3>7. last \in Nat /\ last >= final
      BY <3>4, <3>6, <1>1
    <3> HIDE DEF last, final, K
    <3> QED
      BY <3>7, <2>1, <2>2, <1>2 DEF Larger
  <2> QED
    BY <2>3, <2>4
<1> QED
  BY <1>3, <1>4, <1>1

(* Deleting old rows, as reserve does in every bucket.                     *)
LEMMA KeptFacts ==
  ASSUME Inv, NEW moment \in Int, moment <= now
  PROVE  /\ Kept(moment) \subseteq requests
         /\ \A i, j \in 1 .. Len(reserved) :
              i < j /\ reserved[i].at \in Kept(moment) => reserved[j].at \in Kept(moment)
         /\ \A i \in 1 .. Len(reserved) :
              reserved[i].at >= now - Retention => reserved[i].at \in Kept(moment)
<1> USE ConstantsTyped
<1>1. /\ \A i \in 1 .. Len(reserved) : reserved[i].at \in Nat
      /\ now \in Nat
  BY TypeFacts
<1>2. \A i, j \in 1 .. Len(reserved) : i < j => reserved[j].at >= reserved[i].at
  BY <1>1 DEF Inv, SpacedReservations
<1> QED
  BY <1>1, <1>2, SMTT(30) DEF Inv, OldestFirst, NotForgotten, Kept

LEMMA ReserveInv ==
  ASSUME Inv, NEW c \in Clients, Reserve(c)
  PROVE  Inv'
<1> DEFINE moment == client[c].at
           at == Scheduled(moment)
           due == now + (at - moment)
           n == Len(reserved)
<1> USE ConstantsTyped
<1>1. /\ moment \in Nat /\ moment <= now /\ now - moment <= MaxLag
      /\ now \in Nat /\ cooldown \in Nat
      /\ reserved \in Seq([at: Nat, due: Nat])
      /\ n \in Nat
  BY TypeFacts DEF Inv, ClockPast, Reserve
<1>2. /\ cooldown <= moment
      /\ at - moment <= MaxWait
      /\ requests' = Kept(moment) \cup {at}
      /\ client' = [client EXCEPT ![c] = [pc |-> "sleeping", at |-> due, until |-> 0]]
      /\ reserved' = Append(reserved, [at |-> at, due |-> due])
      /\ now' = now /\ cooldown' = cooldown /\ blocked' = blocked
  BY DEF Reserve, Granted, Goto
<1>3. /\ at \in Nat
      /\ at >= moment
      /\ \A i \in 1 .. n : at >= reserved[i].at + Interval
  BY <1>1, ScheduledAfterAll
<1>4. /\ Kept(moment) \subseteq requests
      /\ \A i, j \in 1 .. n :
           i < j /\ reserved[i].at \in Kept(moment) => reserved[j].at \in Kept(moment)
      /\ \A i \in 1 .. n : reserved[i].at >= now - Retention => reserved[i].at \in Kept(moment)
  <2>1. moment \in Int /\ moment <= now
    BY <1>1
  <2> HIDE DEF moment, at
  <2> QED
    BY <2>1, KeptFacts DEF n
<1> HIDE DEF at, moment
<1>5. /\ due \in Nat
      /\ due \in at .. at + MaxLag
      /\ due <= now + MaxWait
      /\ due >= cooldown
      /\ at <= now + MaxWait
  BY <1>1, <1>2, <1>3
<1> HIDE DEF due
<1>6. /\ Len(reserved') = n + 1
      /\ \A i \in 1 .. n : reserved'[i] = reserved[i]
      /\ reserved'[n + 1] = [at |-> at, due |-> due]
      /\ reserved' \in Seq([at: Nat, due: Nat])
  BY <1>1, <1>2, <1>3, <1>5
<1> HIDE DEF n
<1>7. \A i \in 1 .. Len(reserved') : i \in 1 .. n \/ i = n + 1
  BY <1>6, <1>1
<1>a. /\ \A i \in 1 .. n : reserved[i].at \in Nat /\ reserved[i].due \in Nat
      /\ n = Len(reserved)
  BY TypeFacts DEF n
<1>8. TypeOK'
  <2>1. requests' \subseteq 0 .. now' + MaxWait
    <3>1. ASSUME NEW row \in requests'
          PROVE  row \in 0 .. now' + MaxWait
      <4>1. row \in requests \/ row = at
        BY <1>2, <1>4
      <4>2. row \in Nat /\ row <= now + MaxWait
        BY <4>1, <1>3, <1>5, TypeFacts
      <4> QED
        BY <4>2, <1>1, <1>2
    <3> QED
      BY <3>1
  <2>2. /\ client' \in [Clients -> Client]
        /\ \A d \in Clients : client'[d].at <= now' + MaxWait
    BY <1>2, <1>5 DEF Inv, TypeOK, Client
  <2> QED
    BY <2>1, <2>2, <1>2, <1>6 DEF Inv, TypeOK, Client
<1>9. ClockPast'
  BY <1>2 DEF Inv, TypeOK, ClockPast
<1>10. RowsReserved'
  <2> SUFFICES ASSUME NEW row \in requests'
               PROVE  \E i \in 1 .. Len(reserved') : reserved'[i].at = row
    BY DEF RowsReserved
  <2>1. CASE row = at
    <3>1. n + 1 \in 1 .. Len(reserved') /\ reserved'[n + 1].at = row
      BY <2>1, <1>6, <1>1
    <3> QED
      BY <3>1
  <2>2. CASE row \in requests
    <3>1. PICK i \in 1 .. n : reserved[i].at = row
      BY <2>2, <1>a DEF Inv, RowsReserved
    <3>2. i \in 1 .. Len(reserved')
      BY <1>6, <1>1
    <3>3. reserved'[i].at = row
      BY <3>1, <1>6
    <3> QED
      BY <3>2, <3>3
  <2> QED
    BY <2>1, <2>2, <1>2, <1>4
<1>11. OldestFirst' /\ NotForgotten'
  <2>1. \A i \in 1 .. n : reserved[i].at # at
    BY <1>3, <1>a
  <2>2. reserved'[n + 1].at \in requests'
    BY <1>6, <1>2
  <2>3. ASSUME NEW i \in 1 .. Len(reserved'), NEW j \in 1 .. Len(reserved'),
               i < j, reserved'[i].at \in requests'
        PROVE  reserved'[j].at \in requests'
    <3>1. i \in 1 .. n
      BY <2>3, <1>6, <1>7, <1>1
    <3>2. reserved[i].at \in Kept(moment)
      BY <3>1, <2>1, <2>3, <1>2, <1>6
    <3>3. CASE j \in 1 .. n
      BY <3>1, <3>2, <3>3, <2>3, <1>4, <1>6, <1>2
    <3> QED
      BY <3>3, <2>2, <1>7
  <2>4. ASSUME NEW i \in 1 .. Len(reserved'), reserved'[i].at >= now' - Retention
        PROVE  reserved'[i].at \in requests'
    <3>1. CASE i \in 1 .. n
      BY <3>1, <2>4, <1>2, <1>4, <1>6
    <3> QED
      BY <3>1, <2>2, <1>7
  <2> QED
    BY <2>3, <2>4 DEF OldestFirst, NotForgotten
<1>12. DueInTime'
  <2> SUFFICES ASSUME NEW i \in 1 .. Len(reserved')
               PROVE  /\ reserved'[i].due \in reserved'[i].at .. reserved'[i].at + MaxLag
                      /\ reserved'[i].due <= now' + MaxWait
    BY DEF DueInTime
  <2>1. CASE i \in 1 .. n
    BY <2>1, <1>2, <1>6, <1>a DEF Inv, DueInTime
  <2>2. CASE i = n + 1
    BY <2>2, <1>2, <1>5, <1>6
  <2> QED
    BY <2>1, <2>2, <1>7
<1>13. CooldownCovers'
  BY <1>2 DEF Inv, CooldownCovers
<1>14. SpacedReservations'
  <2> SUFFICES ASSUME NEW i \in 1 .. Len(reserved'), NEW j \in 1 .. Len(reserved'), i < j
               PROVE  reserved'[j].at >= reserved'[i].at + Interval
    BY DEF SpacedReservations
  <2>1. i \in 1 .. n
    BY <1>6, <1>7, <1>1
  <2>2. CASE j \in 1 .. n
    BY <2>1, <2>2, <1>6, <1>a DEF Inv, SpacedReservations
  <2>3. CASE j = n + 1
    <3>1. reserved'[j].at = at
      BY <2>3, <1>6
    <3>2. reserved'[i].at = reserved[i].at
      BY <2>1, <1>6
    <3>3. at >= reserved[i].at + Interval
      BY <2>1, <1>3
    <3> QED
      BY <3>1, <3>2, <3>3
  <2> QED
    BY <2>2, <2>3, <1>7
<1>15. CooldownDrains'
  <2>a. RecordedInTime /\ \A b \in blocked : NoneDueIn(b)
    BY DrainsParts DEF Inv
  <2>b. RecordedInTime'
    BY <2>a, <1>2 DEF RecordedInTime
  <2> SUFFICES ASSUME NEW b \in blocked, NEW i \in 1 .. Len(reserved')
               PROVE  ~(b.from + MaxWait < reserved'[i].due /\ reserved'[i].due < b.until)
    BY <2>b, <1>2 DEF CooldownDrains, RecordedInTime
  <2>1. CASE i \in 1 .. n
    BY <2>a, <2>1, <1>6, <1>a DEF NoneDueIn
  <2>2. CASE i = n + 1
    <3>1. b.until <= cooldown /\ b.until \in Nat
      BY DEF Inv, CooldownCovers, TypeOK
    <3> QED
      BY <3>1, <2>2, <1>1, <1>5, <1>6
  <2> QED
    BY <2>1, <2>2, <1>7
<1>16. WindowsKept'
  <2> SUFFICES ASSUME NEW limit \in Limits, NEW t \in Nat
               PROVE  Cardinality(DueWithin(limit, t)') <= limit[2]
    BY DEF WindowsKept
  <2> DEFINE J == DueWithin(limit, t)
             J1 == DueWithin(limit, t)'
             R == Recent(moment, limit[1])
  <2>1. /\ limit[1] \in Nat /\ limit[1] <= Retention /\ limit[2] \in Nat
        /\ Cardinality(R) < limit[2]
        /\ Cardinality(J) <= limit[2]
    BY ConstantsAssumption DEF Reserve, Granted, WithinLimits, Inv, WindowsKept, moment
  <2>2. /\ \A j \in J : j \in 1 .. n /\ reserved[j].due > t - (limit[1] - MaxLag)
        /\ J1 \subseteq J \cup {n + 1}
        /\ n + 1 \in J1 => t >= due
        /\ n + 1 \notin J
    BY <1>1, <1>6, <1>7, <1>a DEF DueWithin
  <2>3. IsFiniteSet(J)
    <3>1. J \in SUBSET (1 .. n) /\ n \in Int /\ 1 \in Int
      BY <2>2, <1>1
    <3>2. IsFiniteSet(1 .. n)
      BY <3>1, FS_Interval
    <3> HIDE DEF J
    <3> QED
      BY <3>1, <3>2, FS_Subset
  <2>4. CASE n + 1 \notin J1
    <3>1. J1 \in SUBSET J
      BY <2>2, <2>4
    <3>2. Cardinality(J1) <= Cardinality(J) /\ Cardinality(J1) \in Nat /\ Cardinality(J) \in Nat
      BY <3>1, <2>3, FS_Subset, FS_CardinalityType
    <3> QED
      BY <3>2, <2>1
  <2>5. CASE n + 1 \in J1
    <3>1. IsFiniteSet(R)
      <4>1. R \in SUBSET Nat /\ (\A row \in R : row <= now + MaxWait) /\ now + MaxWait \in Nat
        BY TypeFacts DEF Recent, Kept
      <4> QED
        BY <4>1, FS_BoundedSetOfNaturals
    <3>2. \A j \in J : reserved[j].at \in R
      <4> SUFFICES ASSUME NEW j \in J
                   PROVE  reserved[j].at \in R
        OBVIOUS
      <4>1. /\ j \in 1 .. n
            /\ reserved[j].due > t - (limit[1] - MaxLag)
            /\ t >= due
        BY <2>2, <2>5
      <4>2. reserved[j].due <= reserved[j].at + MaxLag
        BY <4>1, <1>a DEF Inv, DueInTime
      <4>3. reserved[j].at > due - limit[1]
        <5>1. /\ reserved[j].at \in Nat /\ reserved[j].due \in Nat /\ due \in Nat
              /\ limit[1] \in Nat
          BY <4>1, <1>a, <1>5, <2>1
        <5> HIDE DEF J, J1, R
        <5> QED
          BY <5>1, <4>1, <4>2
      <4>4. due >= now
        BY <1>1, <1>3 DEF due
      <4>5. /\ reserved[j].at > moment - limit[1]
            /\ reserved[j].at >= now - Retention
        <5>1. /\ reserved[j].at \in Nat /\ due \in Nat /\ now \in Nat /\ moment \in Nat
              /\ moment <= now
          BY <4>1, <1>a, <1>1, <1>5
        <5> HIDE DEF due, moment
        <5> QED
          BY <5>1, <4>3, <4>4, <2>1
      <4>6. reserved[j].at \in Kept(moment)
        BY <4>1, <4>5, <1>4
      <4> QED
        BY <4>5, <4>6 DEF Recent
    <3>3. \A j, k \in J : j # k => reserved[j].at # reserved[k].at
      <4> SUFFICES ASSUME NEW j \in J, NEW k \in J, j < k
                   PROVE  reserved[j].at # reserved[k].at
        BY <2>2
      <4>1. j \in 1 .. n /\ k \in 1 .. n
        BY <2>2
      <4>2. reserved[k].at >= reserved[j].at + Interval
        BY <4>1, <1>a DEF Inv, SpacedReservations
      <4> QED
        BY <4>1, <4>2, <1>a
    <3>4. Cardinality(J) <= Cardinality(R)
      <4> DEFINE f == [j \in J |-> reserved[j].at]
      <4>1. f \in [J -> R]
        BY <3>2
      <4>2. ~\E j, k \in J : j # k /\ f[j] = f[k]
        BY <3>3
      <4> HIDE DEF f, J, R
      <4>3. ~(Cardinality(R) < Cardinality(J))
        BY <4>1, <4>2, <2>3, <3>1, FS_PigeonHole
      <4> QED
        BY <4>3, <2>3, <3>1, FS_CardinalityType
    <3>5. J1 \in SUBSET (J \cup {n + 1})
      BY <2>2
    <3> HIDE DEF J, J1, R
    <3>6. IsFiniteSet(J \cup {n + 1}) /\ Cardinality(J \cup {n + 1}) = Cardinality(J) + 1
      BY <2>2, <2>3, FS_AddElement
    <3>7. Cardinality(J1) <= Cardinality(J \cup {n + 1}) /\ IsFiniteSet(J1)
      BY <3>5, <3>6, FS_Subset
    <3>8. Cardinality(J) \in Nat /\ Cardinality(R) \in Nat /\ Cardinality(J1) \in Nat
      BY <2>3, <3>1, <3>7, FS_CardinalityType
    <3>9. Cardinality(J1) <= limit[2]
      BY <3>4, <3>6, <3>7, <3>8, <2>1
    <3> QED
      BY <3>9 DEF J1
  <2> QED
    BY <2>4, <2>5
<1> QED
  BY <1>8, <1>9, <1>10, <1>11, <1>12, <1>13, <1>14, <1>15, <1>16 DEF Inv

LEMMA ClientInv ==
  ASSUME Inv, NEW c \in Clients, NEW row \in Client,
         row.at <= now + MaxWait, row.pc \in {"asking", "blocking"} => row.at <= now,
         client' = [client EXCEPT ![c] = row],
         UNCHANGED <<now, requests, cooldown, reserved, blocked>>
  PROVE  Inv'
<1>1. /\ client' \in [Clients -> Client]
      /\ \A d \in Clients : client'[d].at <= now + MaxWait
      /\ ClockPast'
  BY DEF Inv, TypeOK, ClockPast, Client
<1>2. TypeOK' /\ ClockPast'
  BY <1>1 DEF Inv, TypeOK, Client
<1>3. /\ RowsReserved' /\ OldestFirst' /\ NotForgotten' /\ DueInTime' /\ CooldownCovers'
      /\ SpacedReservations' /\ CooldownDrains' /\ WindowsKept'
  BY DEF Inv, RowsReserved, OldestFirst, NotForgotten, DueInTime, CooldownCovers,
         SpacedReservations, CooldownDrains, WindowsKept, DueWithin
<1> QED
  BY <1>2, <1>3 DEF Inv

LEMMA GotoInv ==
  ASSUME Inv, NEW c \in Clients,
         NEW pc \in {"idle", "asking", "sleeping", "sent"}, NEW at \in Nat,
         at <= now + MaxWait, pc = "asking" => at <= now,
         Goto(c, pc, at), UNCHANGED <<now, requests, cooldown, reserved, blocked>>
  PROVE  Inv'
<1> DEFINE row == [pc |-> pc, at |-> at, until |-> 0]
<1>1. /\ row \in Client
      /\ row.at <= now + MaxWait
      /\ row.pc \in {"asking", "blocking"} => row.at <= now
  BY DEF Client
<1>2. client' = [client EXCEPT ![c] = row]
  BY DEF Goto
<1> HIDE DEF row
<1> QED
  BY <1>1, <1>2, ClientInv

(* The end of the cooldown is that of the moment at which it is asked for. *)
LEMMA ThrottledInv ==
  ASSUME Inv, NEW c \in Clients, Throttled(c)
  PROVE  Inv'
<1> USE ConstantsTyped
<1>1. PICK seconds \in RetryAfters :
        client' = [client EXCEPT ![c] = [pc |-> "blocking", at |-> now,
                                         until |-> now + Larger(MinCooldown, seconds)]]
  BY DEF Throttled
<1> DEFINE row == [pc |-> "blocking", at |-> now,
                   until |-> now + Larger(MinCooldown, seconds)]
<1>2. /\ row \in Client
      /\ row.at <= now + MaxWait
      /\ row.pc \in {"asking", "blocking"} => row.at <= now
  BY TypeFacts DEF Client, Larger
<1>3. /\ client' = [client EXCEPT ![c] = row]
      /\ UNCHANGED <<now, requests, cooldown, reserved, blocked>>
  BY <1>1 DEF Throttled
<1> HIDE DEF row
<1> QED
  BY <1>2, <1>3, ClientInv

LEMMA TickInv ==
  ASSUME Inv, Tick
  PROVE  Inv'
<1> USE ConstantsTyped
<1>1. /\ now' = now + 1 /\ now \in Nat
      /\ UNCHANGED <<requests, cooldown, client, reserved, blocked>>
  BY TypeFacts DEF Tick
<1>2. TypeOK'
  BY <1>1 DEF Inv, TypeOK
<1>3. ClockPast' /\ NotForgotten' /\ DueInTime' /\ CooldownCovers'
  <2>1. ClockPast'
    BY <1>1, TypeFacts DEF Inv, ClockPast
  <2>2. NotForgotten'
    BY <1>1, TypeFacts DEF Inv, NotForgotten
  <2>3. DueInTime'
    BY <1>1, TypeFacts DEF Inv, DueInTime
  <2>4. CooldownCovers'
    BY <1>1 DEF Inv, TypeOK, CooldownCovers
  <2> QED
    BY <2>1, <2>2, <2>3, <2>4
<1>4. RowsReserved' /\ OldestFirst' /\ SpacedReservations' /\ CooldownDrains' /\ WindowsKept'
  BY <1>1 DEF Inv, RowsReserved, OldestFirst, SpacedReservations, CooldownDrains, WindowsKept,
              DueWithin
<1> QED
  BY <1>2, <1>3, <1>4 DEF Inv

LEMMA SweepInv ==
  ASSUME Inv, Sweep
  PROVE  Inv'
<1> USE ConstantsTyped
<1>1. PICK moment \in now - MaxLag .. now : requests' = Kept(moment)
  BY DEF Sweep
<1>2. /\ moment \in Int /\ moment <= now /\ now \in Nat
      /\ UNCHANGED <<now, cooldown, client, reserved, blocked>>
  BY TypeFacts DEF Sweep
<1>3. /\ requests' \subseteq requests
      /\ \A i, j \in 1 .. Len(reserved) :
           i < j /\ reserved[i].at \in requests' => reserved[j].at \in requests'
      /\ \A i \in 1 .. Len(reserved) :
           reserved[i].at >= now - Retention => reserved[i].at \in requests'
  BY <1>1, <1>2, KeptFacts
<1>4. TypeOK' /\ ClockPast'
  BY <1>2, <1>3 DEF Inv, TypeOK, ClockPast
<1>5. RowsReserved' /\ OldestFirst' /\ NotForgotten'
  BY <1>2, <1>3 DEF Inv, RowsReserved, OldestFirst, NotForgotten
<1>6. DueInTime' /\ CooldownCovers' /\ SpacedReservations' /\ CooldownDrains' /\ WindowsKept'
  BY <1>2 DEF Inv, DueInTime, CooldownCovers, SpacedReservations, CooldownDrains, WindowsKept,
              DueWithin
<1> QED
  BY <1>4, <1>5, <1>6 DEF Inv

LEMMA BlockInv ==
  ASSUME Inv, NEW c \in Clients, Block(c)
  PROVE  Inv'
<1> USE ConstantsTyped
<1> DEFINE until == client[c].until
           asked == client[c].at
           new == [asked |-> asked, from |-> now, until |-> until]
<1>1. /\ cooldown' = Extended(until)
      /\ blocked' = blocked \cup {new}
      /\ client' = [client EXCEPT ![c] = [pc |-> "idle", at |-> 0, until |-> 0]]
      /\ UNCHANGED <<now, requests, reserved>>
      /\ client[c].pc = "blocking" /\ now - asked <= MaxLag
  BY DEF Block, Goto
<1>2. until \in Nat /\ asked \in Nat
  <2>1. client[c] \in Client
    BY DEF Inv, TypeOK, Client
  <2> QED
    BY <2>1 DEF Client
<1> HIDE DEF until, asked
<1>3. /\ now \in Nat /\ now <= asked + MaxLag
      /\ cooldown' \in Nat /\ cooldown <= cooldown' /\ until <= cooldown'
  BY <1>1, <1>2, TypeFacts DEF Larger, Extended
<1>4. /\ client' \in [Clients -> Client]
      /\ \A d \in Clients : client'[d].at <= now + MaxWait
      /\ ClockPast'
  BY <1>1, <1>3 DEF Inv, TypeOK, ClockPast, Client
<1>5. TypeOK'
  <2>1. blocked' \subseteq [asked: Nat, from: Nat, until: Nat]
    BY <1>1, <1>2, <1>3 DEF Inv, TypeOK
  <2> QED
    BY <1>1, <1>3, <1>4, <2>1 DEF Inv, TypeOK, Client
<1>6. RowsReserved' /\ OldestFirst' /\ NotForgotten' /\ DueInTime' /\ SpacedReservations'
      /\ WindowsKept'
  BY <1>1 DEF Inv, RowsReserved, OldestFirst, NotForgotten, DueInTime, SpacedReservations,
              WindowsKept, DueWithin
<1>7. CooldownCovers'
  <2> SUFFICES ASSUME NEW b \in blocked'
               PROVE  b.from <= now' /\ b.until <= cooldown'
    BY DEF CooldownCovers
  <2>1. CASE b \in blocked
    <3>1. /\ b.from <= now /\ b.until <= cooldown
          /\ b.from \in Nat /\ b.until \in Nat /\ cooldown \in Nat
      BY <2>1 DEF Inv, CooldownCovers, TypeOK
    <3> QED
      BY <3>1, <1>1, <1>3
  <2>2. CASE b = new
    BY <2>2, <1>1, <1>3
  <2> QED
    BY <2>1, <2>2, <1>1
<1>8. CooldownDrains'
  <2>1. RecordedInTime /\ \A b \in blocked : NoneDueIn(b)
    BY DrainsParts DEF Inv
  <2> SUFFICES ASSUME NEW b \in blocked'
               PROVE  b.from <= b.asked + MaxLag /\ NoneDueIn(b)
    BY <1>1 DEF CooldownDrains, NoneDueIn
  <2>2. CASE b \in blocked
    BY <2>1, <2>2 DEF RecordedInTime
  <2>3. CASE b = new
    <3>1. \A i \in 1 .. Len(reserved) :
            reserved[i].due <= now + MaxWait /\ reserved[i].due \in Nat
      BY TypeFacts DEF Inv, DueInTime
    <3> QED
      BY <3>1, <2>3, <1>2, <1>3 DEF NoneDueIn
  <2> QED
    BY <2>2, <2>3, <1>1
<1> QED
  BY <1>4, <1>5, <1>6, <1>7, <1>8 DEF Inv

LEMMA NextInv ==
  ASSUME Inv, [Next]_vars
  PROVE  Inv'
<1>1. CASE Tick
  BY <1>1, TickInv
<1>2. CASE Sweep
  BY <1>2, SweepInv
<1>3. ASSUME NEW c \in Clients, ClientStep(c)
      PROVE  Inv'
  <2>1. /\ now \in Nat /\ client[c].at \in Nat
        /\ 0 \in Nat /\ 0 <= now + MaxWait /\ now <= now + MaxWait
    BY TypeFacts, ConstantsTyped
  <2>2. CASE Ask(c)
    BY <2>1, <2>2, GotoInv DEF Ask
  <2>3. CASE Reserve(c)
    BY <2>3, ReserveInv
  <2>4. CASE Refuse(c)
    BY <2>1, <2>4, GotoInv DEF Refuse
  <2>5. CASE Send(c)
    BY <2>1, <2>5, GotoInv DEF Send
  <2>6. CASE Answered(c)
    BY <2>1, <2>6, GotoInv DEF Answered
  <2>7. CASE Throttled(c)
    BY <2>7, ThrottledInv
  <2>8. CASE Block(c)
    BY <2>8, BlockInv
  <2>9. CASE BlockFails(c)
    BY <2>1, <2>9, GotoInv DEF BlockFails
  <2>10. CASE Die(c)
    BY <2>1, <2>10, GotoInv DEF Die
  <2> QED
    BY <1>3, <2>2, <2>3, <2>4, <2>5, <2>6, <2>7, <2>8, <2>9, <2>10 DEF ClientStep
<1>4. CASE UNCHANGED vars
  BY <1>4 DEF vars, Inv, TypeOK, ClockPast, RowsReserved, OldestFirst, NotForgotten, DueInTime,
              CooldownCovers, SpacedReservations, CooldownDrains, WindowsKept, DueWithin
<1> QED
  BY <1>1, <1>2, <1>3, <1>4 DEF Next

LEMMA Invariance == Spec => []Inv
<1>1. Init => Inv
  BY InitInv
<1>2. Inv /\ [Next]_vars => Inv'
  BY NextInv
<1> QED
  BY <1>1, <1>2, PTL DEF Spec

----------------------------------------------------------------------------
(* The table and the clients keep their types, and nobody is made to wait  *)
(* longer than MaxWait, whoever else is queueing.                          *)
THEOREM QuotaTypeCorrect == Spec => []TypeOK
<1>1. Inv => TypeOK
  BY DEF Inv
<1> QED
  BY <1>1, Invariance, PTL

(* Reservations are spaced, for any number of clients that reserve on      *)
(* stale clocks and die at any time.                                       *)
THEOREM ReservationsSpaced == Spec => []SpacedReservations
<1>1. Inv => SpacedReservations
  BY DEF Inv
<1> QED
  BY <1>1, Invariance, PTL

(* No window, less the longest wait for the database, is overbooked.       *)
THEOREM QuotaHolds == Spec => []QuotaKept
<1>1. Inv => QuotaKept
  <2> SUFFICES ASSUME Inv, NEW limit \in Limits, NEW i \in 1 .. Len(reserved)
               PROVE  Cardinality(DueWithin(limit, reserved[i].due)) <= limit[2]
    BY DEF QuotaKept, DueWithin
  <2>1. reserved[i].due \in Nat
    BY TypeFacts
  <2> QED
    BY <2>1 DEF Inv, WindowsKept
<1> QED
  BY <1>1, Invariance, PTL

(* A cooldown is recorded in time or not at all, and holds once the        *)
(* requests reserved until then have gone out.                             *)
THEOREM CooldownsDrain == Spec => []CooldownDrains
<1>1. Inv => CooldownDrains
  BY DEF Inv
<1> QED
  BY <1>1, Invariance, PTL
=============================================================================
