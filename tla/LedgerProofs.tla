---------------------------- MODULE LedgerProofs ----------------------------
(***************************************************************************)
(* Proofs about EvidenceLedger, for any number of sessions, keys and rows: *)
(* the committed ledger verifies, the versions of a key never fork, and,   *)
(* when no session swallows what append_event raises, every committed row  *)
(* is ledgered and readers see a history as HistoryLog describes it.       *)
(***************************************************************************)
EXTENDS EvidenceLedger, TLAPS

(* What a row says of the rows before it.                                  *)
Fits(rows, n, row) ==
  /\ row.refs \subseteq 1 .. n
  /\ row.type \in Unversioned => row.key = None /\ row.version = 1 /\ row.supersedes = None
  /\ row.type \notin Unversioned =>
       /\ row.key \in Keys
       /\ row.version = 1 <=> row.supersedes = None
       /\ row.version # 1 =>
            /\ row.supersedes \in 1 .. n
            /\ rows[row.supersedes].type = row.type
            /\ rows[row.supersedes].key = row.key
            /\ rows[row.supersedes].version = row.version - 1
            /\ row.type = "challenge" => rows[row.supersedes].refs = row.refs

AllFit(db) == \A i \in 1 .. Len(db.rows) : Fits(db.rows, i - 1, db.rows[i])

(* The versions of a key are 1, 2, ... in the order of the rows, and one   *)
(* of them is the current one, so that the CHOOSE of Current is a choice.  *)
Increasing(db) ==
  \A i, j \in 1 .. Len(db.rows) :
    i < j /\ db.rows[i].type = db.rows[j].type /\ db.rows[i].key = db.rows[j].key
      /\ db.rows[i].key # None => db.rows[i].version < db.rows[j].version

Contiguous(db) ==
  \A i \in 1 .. Len(db.rows) : \A v \in 1 .. db.rows[i].version :
    db.rows[i].key # None =>
      \E j \in VersionsOf(db, db.rows[i].type, db.rows[i].key) : db.rows[j].version = v

IsCurrent(db, type, key, i) ==
  /\ i \in VersionsOf(db, type, key)
  /\ \A j \in VersionsOf(db, type, key) : db.rows[j].version <= db.rows[i].version

HasCurrent(db) ==
  \A type \in Types, key \in Keys :
    VersionsOf(db, type, key) # {} => \E i : IsCurrent(db, type, key, i)

Lineage(db) == AllFit(db) /\ Increasing(db) /\ Contiguous(db) /\ HasCurrent(db)

Sound(db) == IsDatabase(db) /\ Lineage(db) /\ Chained(db.events)

(* later has the rows of earlier, and maybe more. *)
Extends(later, earlier) ==
  /\ Len(earlier) <= Len(later)
  /\ \A i \in 1 .. Len(earlier) : later[i] = earlier[i]

----------------------------------------------------------------------------
LEMMA DatabaseFacts ==
  ASSUME NEW db, IsDatabase(db)
  PROVE  /\ db.rows \in Seq(Row) /\ Len(db.rows) \in Nat
         /\ \A i \in 1 .. Len(db.rows) : db.rows[i] \in Row
         /\ db.events \in Seq(Event) /\ Len(db.events) \in Nat
<1> USE DEF IsDatabase
<1> HIDE DEF Row, Event
<1> QED
  OBVIOUS

LEMMA RowFacts ==
  ASSUME NEW row \in Row
  PROVE  /\ row.type \in Types /\ row.key \in Keys \cup {None} /\ row.version \in Nat
         /\ row.version >= 1 /\ row.supersedes \in Nat \cup {None} /\ row.refs \subseteq Nat
         /\ row.says \in Contents
BY DEF Row

LEMMA EmptySound == Sound(Empty)
<1>1. Empty.rows = <<>> /\ Empty.events = <<>> /\ Empty = [rows |-> Empty.rows, events |-> Empty.events]
  BY DEF Empty
<1>2. IsDatabase(Empty)
  BY <1>1 DEF IsDatabase
<1>3. Lineage(Empty)
  BY <1>1 DEF Lineage, AllFit, Increasing, Contiguous, HasCurrent, VersionsOf
<1>4. Chained(Empty.events)
  BY <1>1 DEF Chained
<1> QED
  BY <1>2, <1>3, <1>4 DEF Sound

(* Appending an event to a chain: its type, its place, and the chain.      *)
LEMMA EventAppends ==
  ASSUME NEW events \in Seq(Event), NEW body \in Bodies, Chained(events)
  PROVE  LET later == Append(events, EventAfter(events, body))
         IN  /\ later \in Seq(Event)
             /\ Len(later) = Len(events) + 1
             /\ \A i \in 1 .. Len(events) : later[i] = events[i]
             /\ later[Len(events) + 1].body = body
             /\ Chained(later)
<1> DEFINE n == Len(events)
           head == HeadHash(events)
           event == EventAfter(events, body)
           later == Append(events, event)
<1>1. n \in Nat /\ (events # <<>> => n \in 1 .. n) /\ (events = <<>> <=> n = 0)
  OBVIOUS
<1>2. head \in Seq(Bodies) /\ head = (IF n = 0 THEN <<>> ELSE events[n].digest)
  <2>1. CASE events = <<>>
    BY <2>1, <1>1 DEF HeadHash
  <2>2. CASE events # <<>>
    <3> HIDE DEF n
    <3>1. events[n] \in Event
      <4> HIDE DEF Event
      <4> QED  BY <1>1, <2>2 DEF n
    <3>2. events[n].digest \in Seq(Bodies)
      BY <3>1 DEF Event
    <3> QED
      BY <3>2, <2>2, <1>1 DEF HeadHash, n
  <2> QED
    BY <2>1, <2>2
<1>3. /\ event.sequence = n + 1 /\ event.body = body /\ event.previous = head
      /\ event.digest = Append(head, body)
      /\ event = [sequence |-> n + 1, body |-> body, previous |-> head,
                  digest |-> Append(head, body)]
  BY DEF EventAfter
<1>4. Append(head, body) \in Seq(Bodies)
  BY <1>2
<1>5. event \in Event
  <2> HIDE DEF head, event
  <2> QED  BY <1>1, <1>2, <1>3, <1>4 DEF Event
<1>6. /\ later \in Seq(Event) /\ Len(later) = n + 1
      /\ \A i \in 1 .. n : later[i] = events[i]
      /\ later[n + 1] = event
  <2> HIDE DEF event, Event
  <2> QED  BY <1>5
<1> HIDE DEF later, event, head
<1>7. Chained(later)
  <2> SUFFICES ASSUME NEW i \in 1 .. n + 1
               PROVE  /\ later[i].sequence = i
                      /\ later[i].previous = (IF i = 1 THEN <<>> ELSE later[i - 1].digest)
                      /\ later[i].digest = Append(later[i].previous, later[i].body)
    BY <1>6 DEF Chained
  <2>1. CASE i \in 1 .. n
    <3>1. later[i] = events[i] /\ (i # 1 => later[i - 1] = events[i - 1])
      BY <2>1, <1>1, <1>6
    <3> QED
      BY <3>1, <2>1 DEF Chained
  <2>2. CASE i = n + 1
    <3>1. n # 0 => later[n] = events[n]
      BY <1>1, <1>6
    <3> QED
      BY <3>1, <2>2, <1>1, <1>2, <1>3, <1>6
  <2> QED
    BY <2>1, <2>2, <1>1
<1> QED
  BY <1>3, <1>6, <1>7 DEF later, event

----------------------------------------------------------------------------
(* What fits a database fits every extension of it. *)
LEMMA FitsExtension ==
  ASSUME NEW earlier, NEW later, NEW row,
         Len(earlier) \in Nat, Len(later) \in Nat,
         Extends(later, earlier), Fits(earlier, Len(earlier), row)
  PROVE  Fits(later, Len(later), row)
<1>1. 1 .. Len(earlier) \subseteq 1 .. Len(later)
  BY DEF Extends
<1> QED
  BY <1>1 DEF Fits, Extends

(* The row that a repository call prepares fits what its session sees.     *)
LEMMA FirstVersionFits ==
  ASSUME NEW db, IsDatabase(db), NEW type \in Types, NEW key \in Keys \cup {None},
         NEW says \in Contents, NEW refs \in SUBSET (1 .. Len(db.rows)),
         type \in Unversioned <=> key = None
  PROVE  /\ FirstVersion(type, key, refs, says) \in Row
         /\ Fits(db.rows, Len(db.rows), FirstVersion(type, key, refs, says))
<1>1. refs \subseteq Nat
  BY DatabaseFacts
<1> QED
  BY <1>1, ConstantsAssumption DEF FirstVersion, Fits, Row

LEMMA NextVersionFits ==
  ASSUME NEW db, IsDatabase(db), Lineage(db), NEW type \in Types \ Unversioned, NEW key \in Keys,
         NEW says \in Contents, NEW refs \in SUBSET (1 .. Len(db.rows)),
         type = "challenge" =>
           VersionsOf(db, type, key) # {} /\ refs = db.rows[Current(db, type, key)].refs
  PROVE  /\ NextVersionOf(db, type, key, refs, says) \in Row
         /\ Fits(db.rows, Len(db.rows), NextVersionOf(db, type, key, refs, says))
<1>1. CASE VersionsOf(db, type, key) = {}
  <2>1. NextVersionOf(db, type, key, refs, says) = FirstVersion(type, key, refs, says)
    BY <1>1 DEF NextVersionOf
  <2>2. type \in Types /\ key \in Keys \cup {None} /\ ~(type \in Unversioned) /\ key # None
    BY ConstantsAssumption
  <2> QED
    BY <2>1, <2>2, FirstVersionFits
<1>2. CASE VersionsOf(db, type, key) # {}
  <2> DEFINE current == Current(db, type, key)
             row == NextVersionOf(db, type, key, refs, says)
  <2>1. IsCurrent(db, type, key, current)
    BY <1>2 DEF Lineage, HasCurrent, IsCurrent, Current
  <2>2. /\ current \in 1 .. Len(db.rows)
        /\ db.rows[current].type = type /\ db.rows[current].key = key
    BY <2>1 DEF IsCurrent, VersionsOf
  <2>3. db.rows[current].version \in Nat /\ db.rows[current].version >= 1
    BY <2>2, DatabaseFacts, RowFacts
  <2>4. row = [type |-> type, key |-> key, version |-> db.rows[current].version + 1,
               supersedes |-> current, refs |-> refs, says |-> says]
    BY <1>2 DEF NextVersionOf, FirstVersion
  <2>5. refs \subseteq Nat /\ current \in Nat /\ Len(db.rows) \in Nat
    BY <2>2, DatabaseFacts
  <2>6. type = "challenge" => db.rows[current].refs = refs
    OBVIOUS
  <2> HIDE DEF current, row
  <2>7. row \in Row
    BY <2>3, <2>4, <2>5 DEF Row
  <2>8. Fits(db.rows, Len(db.rows), row)
    BY <2>2, <2>3, <2>4, <2>5, <2>6, ConstantsAssumption DEF Fits
  <2> QED
    BY <2>7, <2>8 DEF row
<1> QED
  BY <1>1, <1>2

LEMMA ValidRefsEarlier ==
  ASSUME NEW db, NEW type \in Types, NEW refs, ValidRefs(db, type, refs)
  PROVE  refs \in SUBSET (1 .. Len(db.rows))
<1>1. \A types : RowsOf(db, types) \subseteq 1 .. Len(db.rows)
  BY DEF RowsOf
<1>2. CASE type \in {"source_artifact", "claim"}
  BY <1>2 DEF ValidRefs
<1>3. CASE type \in {"observation", "taxonomy_mapping"}
  <2>1. \E a \in RowsOf(db, {"source_artifact"}) : refs = {a}
    BY <1>3, Zenon DEF ValidRefs
  <2> QED
    BY <1>1, <2>1
<1>4. CASE type = "derived_metric"
  BY <1>1, <1>4 DEF ValidRefs
<1>5. CASE type = "challenge"
  BY <1>1, <1>5 DEF ValidRefs
<1>6. CASE type = "evidence_edge"
  BY <1>1, <1>6 DEF ValidRefs
<1> QED
  BY <1>2, <1>3, <1>4, <1>5, <1>6 DEF Types, Unversioned, Revisable

(* A row that fits and whose version is not taken continues its lineage,   *)
(* even if other rows were committed since it was prepared.                *)
LEMMA RowAppends ==
  ASSUME NEW db, IsDatabase(db), Lineage(db), NEW row \in Row,
         Fits(db.rows, Len(db.rows), row), Unique(db, row)
  PROVE  LET later == [db EXCEPT !.rows = Append(@, row)]
         IN  /\ IsDatabase(later) /\ Lineage(later)
             /\ later.events = db.events
             /\ Len(later.rows) = Len(db.rows) + 1
             /\ later.rows[Len(db.rows) + 1] = row
             /\ Extends(later.rows, db.rows)
<1> DEFINE n == Len(db.rows)
           later == [db EXCEPT !.rows = Append(@, row)]
<1>1. /\ n \in Nat /\ db.rows \in Seq(Row)
      /\ later = [rows |-> Append(db.rows, row), events |-> db.events]
      /\ db.events \in Seq(Event)
  BY DEF IsDatabase
<1>2. /\ later.rows = Append(db.rows, row) /\ later.events = db.events
      /\ later.rows \in Seq(Row) /\ Len(later.rows) = n + 1
      /\ \A i \in 1 .. n : later.rows[i] = db.rows[i]
      /\ later.rows[n + 1] = row
  <2> HIDE DEF Row
  <2> QED  BY <1>1
<1>3. IsDatabase(later)
  BY <1>1, <1>2 DEF IsDatabase
<1>4. Extends(later.rows, db.rows)
  BY <1>1, <1>2 DEF Extends
<1> HIDE DEF later
<1>5. /\ \A i \in 1 .. Len(later.rows) : i \in 1 .. n \/ i = n + 1
      /\ \A i \in 1 .. n : i \in 1 .. Len(later.rows) /\ i \in Nat /\ i < n + 1
      /\ n + 1 \in 1 .. Len(later.rows)
  BY <1>1, <1>2
<1> HIDE DEF n
<1>6. \A i \in 1 .. n : db.rows[i].version \in Nat /\ db.rows[i].version >= 1
  BY DatabaseFacts, RowFacts DEF n
<1>7. row.version \in Nat /\ row.version >= 1 /\ row.type \in Types /\ row.key \in Keys \cup {None}
  BY RowFacts
<1>8. \A type, key :
        VersionsOf(later, type, key) =
          VersionsOf(db, type, key) \cup
            (IF row.type = type /\ row.key = key THEN {n + 1} ELSE {})
  BY <1>2, <1>5 DEF VersionsOf, n
<1>9. AllFit(later)
  <2> SUFFICES ASSUME NEW i \in 1 .. Len(later.rows)
               PROVE  Fits(later.rows, i - 1, later.rows[i])
    BY DEF AllFit
  <2>1. CASE i \in 1 .. n
    <3>1. Fits(db.rows, i - 1, db.rows[i])
      BY <2>1 DEF Lineage, AllFit, n
    <3>2. \A k \in 1 .. i - 1 : later.rows[k] = db.rows[k]
      BY <2>1, <1>1, <1>2
    <3> QED
      BY <3>1, <3>2, <2>1, <1>2 DEF Fits
  <2>2. CASE i = n + 1
    <3>1. i - 1 = n
      BY <2>2, <1>1
    <3> QED
      BY <2>2, <3>1, <1>2 DEF Fits, n
  <2> QED
    BY <2>1, <2>2, <1>5
(* No version at or above the row's is taken.                              *)
<1>10. \A i \in 1 .. n :
         db.rows[i].type = row.type /\ db.rows[i].key = row.key /\ row.key # None =>
           db.rows[i].version < row.version
  <2> SUFFICES ASSUME NEW i \in 1 .. n, db.rows[i].type = row.type, db.rows[i].key = row.key,
                      row.key # None, row.version <= db.rows[i].version
               PROVE  FALSE
    BY <1>6, <1>7
  <2>1. row.version \in 1 .. db.rows[i].version
    BY <1>6, <1>7
  <2>2. PICK j \in VersionsOf(db, row.type, row.key) : db.rows[j].version = row.version
    BY <2>1 DEF Lineage, Contiguous, n
  <2> QED
    BY <2>2 DEF Unique
<1>11. Increasing(later)
  <2> SUFFICES ASSUME NEW i \in 1 .. Len(later.rows), NEW j \in 1 .. Len(later.rows), i < j,
                      later.rows[i].type = later.rows[j].type,
                      later.rows[i].key = later.rows[j].key, later.rows[i].key # None
               PROVE  later.rows[i].version < later.rows[j].version
    BY DEF Increasing
  <2>1. i \in 1 .. n
    BY <1>1, <1>2
  <2>2. CASE j \in 1 .. n
    BY <2>1, <2>2, <1>2 DEF Lineage, Increasing, n
  <2>3. CASE j = n + 1
    BY <2>1, <2>3, <1>2, <1>10
  <2> QED
    BY <2>2, <2>3, <1>5
<1>12. Contiguous(later)
  <2> SUFFICES ASSUME NEW i \in 1 .. Len(later.rows), NEW v \in 1 .. later.rows[i].version,
                      later.rows[i].key # None
               PROVE  \E j \in VersionsOf(later, later.rows[i].type, later.rows[i].key) :
                        later.rows[j].version = v
    BY DEF Contiguous
  <2>1. ASSUME NEW k \in 1 .. n, v \in 1 .. db.rows[k].version, db.rows[k].key # None,
               db.rows[k].type = later.rows[i].type, db.rows[k].key = later.rows[i].key
        PROVE  \E j \in VersionsOf(later, later.rows[i].type, later.rows[i].key) :
                 later.rows[j].version = v
    <3>1. PICK j \in VersionsOf(db, db.rows[k].type, db.rows[k].key) : db.rows[j].version = v
      BY <2>1 DEF Lineage, Contiguous, n
    <3>2. j \in VersionsOf(later, later.rows[i].type, later.rows[i].key)
      BY <3>1, <2>1, <1>8
    <3>3. later.rows[j].version = v
      BY <3>1, <1>2 DEF VersionsOf, n
    <3> QED
      BY <3>2, <3>3
  <2>2. CASE i \in 1 .. n
    BY <2>1, <2>2, <1>2
  <2>3. CASE i = n + 1 /\ v = row.version
    BY <2>3, <1>2, <1>8
  <2>4. CASE i = n + 1 /\ v # row.version
    <3>1. v \in 1 .. row.version - 1 /\ row.version # 1 /\ row.key # None
      BY <2>4, <1>2, <1>7
    <3>2. row.type \notin Unversioned
      BY <3>1 DEF Fits
    <3>3. /\ row.supersedes \in 1 .. n
          /\ db.rows[row.supersedes].type = row.type /\ db.rows[row.supersedes].key = row.key
          /\ db.rows[row.supersedes].version = row.version - 1
      BY <3>1, <3>2 DEF Fits, n
    <3> QED
      BY <3>1, <3>3, <2>1, <2>4, <1>2
  <2> QED
    BY <2>2, <2>3, <2>4, <1>5
<1>13. HasCurrent(later)
  <2> SUFFICES ASSUME NEW type \in Types, NEW key \in Keys, VersionsOf(later, type, key) # {}
               PROVE  \E i : IsCurrent(later, type, key, i)
    BY DEF HasCurrent
  <2>1. CASE row.type = type /\ row.key = key
    <3>1. n + 1 \in VersionsOf(later, type, key)
      BY <2>1, <1>8
    <3>2. \A j \in VersionsOf(later, type, key) : later.rows[j].version <= later.rows[n + 1].version
      <4> SUFFICES ASSUME NEW j \in VersionsOf(later, type, key)
                   PROVE  later.rows[j].version <= row.version
        BY <1>2
      <4>1. CASE j = n + 1
        BY <4>1, <1>2, <1>7
      <4>2. CASE j \in VersionsOf(db, type, key)
        <5>1. j \in 1 .. n /\ db.rows[j].type = row.type /\ db.rows[j].key = row.key
          BY <4>2, <2>1 DEF VersionsOf, n
        <5>2. row.key # None
          BY <2>1, ConstantsAssumption
        <5>3. db.rows[j].version < row.version
          BY <5>1, <5>2, <1>10
        <5>4. later.rows[j].version = db.rows[j].version
          BY <5>1, <1>2
        <5>5. db.rows[j].version \in Nat /\ row.version \in Nat
          BY <5>1, <1>6, <1>7
        <5> QED
          BY <5>3, <5>4, <5>5
      <4> QED
        BY <4>1, <4>2, <1>8, <2>1
    <3>3. IsCurrent(later, type, key, n + 1)
      BY <3>1, <3>2 DEF IsCurrent
    <3> QED
      BY <3>3
  <2>2. CASE ~(row.type = type /\ row.key = key)
    <3>1. VersionsOf(later, type, key) = VersionsOf(db, type, key)
      BY <2>2, <1>2, <1>5 DEF VersionsOf, n
    <3>2. PICK i : IsCurrent(db, type, key, i)
      BY <3>1 DEF Lineage, HasCurrent
    <3>3. \A j \in VersionsOf(db, type, key) : later.rows[j] = db.rows[j]
      BY <1>2 DEF VersionsOf, n
    <3> QED
      BY <3>1, <3>2, <3>3 DEF IsCurrent
  <2> QED
    BY <2>1, <2>2
<1>14. Lineage(later)
  BY <1>9, <1>11, <1>12, <1>13 DEF Lineage
<1> QED
  BY <1>2, <1>3, <1>4, <1>14 DEF later, n

----------------------------------------------------------------------------
(* The inductive invariant: the database and every session's view of it    *)
(* are sound, a view extends the database, and a row that is about to be   *)
(* inserted fits what its session sees.                                    *)
States == {"idle", "ready", "inserted", "raised", "broken"}

SessionOK(s) ==
  /\ session[s] \in [pc: States, row: Row \cup {NoRow}]
  /\ Sound(work[s])
  /\ lock # s => work[s] = Empty
  /\ lock = s => Extends(work[s].rows, disk.rows)
  /\ session[s].pc \in {"ready", "inserted"} => session[s].row \in Row
  /\ session[s].pc \in {"inserted", "raised"} => lock = s
  /\ session[s].pc = "broken" => lock # s
  /\ session[s].pc = "ready" => Fits(Seen(s).rows, Len(Seen(s).rows), session[s].row)
  /\ session[s].pc = "inserted" =>
       /\ Len(work[s].rows) >= 1
       /\ work[s].rows[Len(work[s].rows)] = session[s].row

DatabaseOK ==
  /\ Sound(disk)
  /\ lock \in Sessions \cup {None}
  /\ DOMAIN work = Sessions
  /\ session = [s \in Sessions |-> session[s]]

Inv == DatabaseOK /\ \A s \in Sessions : SessionOK(s)

LEMMA InvImpliesTypes == Inv => TypeOK
<1> SUFFICES ASSUME Inv
             PROVE  TypeOK
  OBVIOUS
<1>1. session \in [Sessions -> [pc: States, row: Row \cup {NoRow}]]
  <2> HIDE DEF Row, NoRow, States
  <2> QED  BY DEF Inv, DatabaseOK, SessionOK
<1>2. IsDatabase(disk) /\ \A s \in Sessions : IsDatabase(work[s])
  BY DEF Inv, DatabaseOK, SessionOK, Sound
<1> QED
  BY <1>1, <1>2, Zenon DEF Inv, DatabaseOK, SessionOK, TypeOK, States

LEMMA SeenSound ==
  ASSUME Inv, NEW s \in Sessions
  PROVE  /\ Sound(Seen(s)) /\ IsDatabase(Seen(s)) /\ Lineage(Seen(s))
         /\ Chained(Seen(s).events)
         /\ Len(Seen(s).rows) \in Nat
         /\ Extends(Seen(s).rows, disk.rows)
<1>1. Sound(Seen(s)) /\ IsDatabase(disk)
  BY DEF Inv, DatabaseOK, SessionOK, Seen, Sound
<1>2. Len(Seen(s).rows) \in Nat /\ Len(disk.rows) \in Nat
  BY <1>1, DatabaseFacts DEF Sound
<1>3. Extends(Seen(s).rows, disk.rows)
  BY <1>2 DEF Inv, SessionOK, Seen, Extends
<1> QED
  BY <1>1, <1>2, <1>3 DEF Sound

(* The lines of versions are a matter of the rows alone.                   *)
LEMMA LineageOfRows ==
  ASSUME NEW db, NEW later, later.rows = db.rows, Lineage(db)
  PROVE  Lineage(later)
<1>1. \A type, key : VersionsOf(later, type, key) = VersionsOf(db, type, key)
  BY DEF VersionsOf
<1>2. AllFit(later)
  BY DEF Lineage, AllFit
<1>3. Increasing(later)
  BY DEF Lineage, Increasing
<1>4. Contiguous(later)
  BY <1>1 DEF Lineage, Contiguous
<1>5. \A type, key, i : IsCurrent(later, type, key, i) <=> IsCurrent(db, type, key, i)
  BY <1>1 DEF IsCurrent
<1>6. HasCurrent(later)
  BY <1>1, <1>5 DEF Lineage, HasCurrent
<1> QED
  BY <1>2, <1>3, <1>4, <1>6 DEF Lineage

(* A step of session s that commits nothing leaves the others as they are. *)
LEMMA OneSessionSteps ==
  ASSUME Inv, NEW s \in Sessions, disk' = disk, lock' \in Sessions \cup {None},
         \A t \in Sessions \ {s} : lock' = t <=> lock = t,
         DOMAIN work' = Sessions, \A t \in Sessions \ {s} : work'[t] = work[t],
         session' = [t \in Sessions |-> session'[t]],
         \A t \in Sessions \ {s} : session'[t] = session[t],
         SessionOK(s)'
  PROVE  Inv'
<1>1. DatabaseOK'
  BY DEF Inv, DatabaseOK
<1>2. ASSUME NEW t \in Sessions \ {s}
      PROVE  SessionOK(t)'
  <2>1. SessionOK(t)
    BY DEF Inv
  <2>2. /\ lock' = t <=> lock = t
        /\ work'[t] = work[t] /\ session'[t] = session[t]
    OBVIOUS
  <2>3. Seen(t)' = Seen(t)
    BY <2>2 DEF Seen
  <2> QED
    BY <2>1, <2>2, <2>3 DEF SessionOK
<1> QED
  BY <1>1, <1>2 DEF Inv

(* What Goto and UNCHANGED leave of the other sessions. *)
LEMMA GotoFrame ==
  ASSUME Inv, NEW s \in Sessions, NEW new, session' = [session EXCEPT ![s] = new]
  PROVE  /\ session' = [t \in Sessions |-> session'[t]]
         /\ session'[s] = new
         /\ \A t \in Sessions \ {s} : session'[t] = session[t]
BY DEF Inv, DatabaseOK

LEMMA WorkFrame ==
  ASSUME Inv, NEW s \in Sessions, NEW new, work' = [work EXCEPT ![s] = new]
  PROVE  /\ DOMAIN work' = Sessions
         /\ work'[s] = new
         /\ \A t \in Sessions \ {s} : work'[t] = work[t]
BY DEF Inv, DatabaseOK

LEMMA PrepareStep ==
  ASSUME Inv, NEW s \in Sessions, NEW row \in Row,
         Fits(Seen(s).rows, Len(Seen(s).rows), row), Prepare(s, row)
  PROVE  Inv'
<1>1. /\ session[s].pc = "idle"
      /\ session' = [session EXCEPT ![s] = [pc |-> "ready", row |-> row]]
      /\ UNCHANGED <<disk, lock, work>>
  BY DEF Prepare
<1>2. /\ session' = [t \in Sessions |-> session'[t]]
      /\ session'[s] = [pc |-> "ready", row |-> row]
      /\ \A t \in Sessions \ {s} : session'[t] = session[t]
  BY <1>1, GotoFrame
<1>3. SessionOK(s)'
  <2>1. SessionOK(s) /\ Seen(s)' = Seen(s)
    BY <1>1 DEF Inv, Seen
  <2> QED
    BY <2>1, <1>1, <1>2 DEF SessionOK, States
<1> QED
  BY <1>1, <1>2, <1>3, OneSessionSteps DEF Inv, DatabaseOK

LEMMA CallStep ==
  ASSUME Inv, NEW s \in Sessions, RepositoryCall(s)
  PROVE  Inv'
<1> DEFINE db == Seen(s)
<1>1. IsDatabase(db) /\ Lineage(db) /\ Len(db.rows) \in Nat
  BY SeenSound
<1> HIDE DEF db
<1>2. ASSUME NEW says \in Contents, NEW refs, NEW type, AddUnversioned(s, type, refs, says)
      PROVE  Inv'
  <2>1. /\ type \in Unversioned /\ type \in Types /\ ValidRefs(db, type, refs)
        /\ Prepare(s, FirstVersion(type, None, refs, says))
    BY <1>2 DEF AddUnversioned, Types, db
  <2>2. refs \in SUBSET (1 .. Len(db.rows))
    BY <2>1, ValidRefsEarlier
  <2>3. None \in Keys \cup {None} /\ (type \in Unversioned <=> None = None)
    BY <2>1
  <2>4. /\ FirstVersion(type, None, refs, says) \in Row
        /\ Fits(db.rows, Len(db.rows), FirstVersion(type, None, refs, says))
    BY <1>1, <2>1, <2>2, <2>3, FirstVersionFits
  <2> QED
    BY <2>1, <2>4, PrepareStep DEF db
<1>3. ASSUME NEW says \in Contents, NEW refs, NEW type, NEW key \in Keys,
             AddVersioned(s, type, key, refs, says)
      PROVE  Inv'
  <2>1. /\ type \in Types \ Unversioned /\ type # "challenge" /\ ValidRefs(db, type, refs)
        /\ Prepare(s, NextVersionOf(db, type, key, refs, says))
    BY <1>3 DEF AddVersioned, Types, Revisable, Unversioned, db
  <2>2. refs \in SUBSET (1 .. Len(db.rows))
    BY <2>1, ValidRefsEarlier
  <2>3. /\ NextVersionOf(db, type, key, refs, says) \in Row
        /\ Fits(db.rows, Len(db.rows), NextVersionOf(db, type, key, refs, says))
    BY <1>1, <2>1, <2>2, NextVersionFits
  <2> QED
    BY <2>1, <2>3, PrepareStep DEF db
<1>4. ASSUME NEW says \in Contents, NEW refs, NEW key \in Keys, AddChallenge(s, key, refs, says)
      PROVE  Inv'
  <2>1. /\ "challenge" \in Types /\ "challenge" \notin Unversioned
        /\ ValidRefs(db, "challenge", refs)
        /\ Prepare(s, FirstVersion("challenge", key, refs, says))
    BY <1>4 DEF AddChallenge, Types, Unversioned, db
  <2>2. refs \in SUBSET (1 .. Len(db.rows))
    BY <2>1, ValidRefsEarlier
  <2>3. key \in Keys \cup {None} /\ ("challenge" \in Unversioned <=> key = None)
    BY <2>1, ConstantsAssumption
  <2>4. /\ FirstVersion("challenge", key, refs, says) \in Row
        /\ Fits(db.rows, Len(db.rows), FirstVersion("challenge", key, refs, says))
    BY <1>1, <2>1, <2>2, <2>3, FirstVersionFits
  <2> QED
    BY <2>1, <2>4, PrepareStep DEF db
<1>5. ASSUME NEW says \in Contents, NEW key \in Keys, ReviseChallenge(s, key, says)
      PROVE  Inv'
  <2> DEFINE current == Current(db, "challenge", key)
             refs == db.rows[current].refs
  <2>1. /\ VersionsOf(db, "challenge", key) # {}
        /\ Prepare(s, NextVersionOf(db, "challenge", key, refs, says))
        /\ "challenge" \in Types \ Unversioned
    BY <1>5 DEF ReviseChallenge, Types, Unversioned, db
  <2>2. IsCurrent(db, "challenge", key, current)
    BY <2>1, <1>1 DEF Lineage, HasCurrent, IsCurrent, Current
  <2>3. current \in 1 .. Len(db.rows)
    BY <2>2 DEF IsCurrent, VersionsOf
  <2>4. refs \in SUBSET (1 .. Len(db.rows))
    <3>1. Fits(db.rows, current - 1, db.rows[current])
      BY <1>1, <2>3 DEF Lineage, AllFit
    <3>2. 1 .. current - 1 \subseteq 1 .. Len(db.rows)
      BY <1>1, <2>3
    <3> QED
      BY <3>1, <3>2 DEF Fits
  <2>5. refs = db.rows[Current(db, "challenge", key)].refs
    OBVIOUS
  <2> HIDE DEF current, refs
  <2>6. /\ NextVersionOf(db, "challenge", key, refs, says) \in Row
        /\ Fits(db.rows, Len(db.rows), NextVersionOf(db, "challenge", key, refs, says))
    BY <1>1, <2>1, <2>4, <2>5, NextVersionFits
  <2> QED
    BY <2>1, <2>6, PrepareStep DEF db
<1> QED
  BY <1>2, <1>3, <1>4, <1>5
  DEF RepositoryCall, AddSourceArtifact, AddEvidence, AddClaim, AddObservation,
      AddDerivedMetric, AddTaxonomyMapping

LEMMA InsertStep ==
  ASSUME Inv, NEW s \in Sessions, Insert(s)
  PROVE  Inv'
<1> DEFINE db == Seen(s)
           row == session[s].row
           later == [db EXCEPT !.rows = Append(@, row)]
<1>1. /\ session[s].pc = "ready" /\ lock \in {None, s}
      /\ Unique(db, row)
      /\ lock' = s
      /\ work' = [work EXCEPT ![s] = later]
      /\ session' = [session EXCEPT ![s] = [session[s] EXCEPT !.pc = "inserted"]]
      /\ disk' = disk
  BY DEF Insert, Goto, Inv, DatabaseOK
<1>2. /\ row \in Row /\ Fits(db.rows, Len(db.rows), row)
      /\ session[s] \in [pc: States, row: Row \cup {NoRow}]
  BY <1>1 DEF Inv, SessionOK
<1>3. /\ Sound(db) /\ IsDatabase(db) /\ Lineage(db) /\ Chained(db.events)
      /\ Len(db.rows) \in Nat /\ Extends(db.rows, disk.rows)
  BY SeenSound
<1> HIDE DEF db, row
<1>4. /\ IsDatabase(later) /\ Lineage(later) /\ later.events = db.events
      /\ Len(later.rows) = Len(db.rows) + 1
      /\ later.rows[Len(db.rows) + 1] = row
      /\ Extends(later.rows, db.rows)
  BY <1>1, <1>2, <1>3, RowAppends
<1> HIDE DEF later
<1>5. Sound(later) /\ Extends(later.rows, disk.rows)
  <2>1. Len(disk.rows) \in Nat
    BY DatabaseFacts DEF Inv, DatabaseOK, Sound
  <2> QED
    BY <2>1, <1>3, <1>4 DEF Sound, Extends
<1>6. /\ session' = [t \in Sessions |-> session'[t]]
      /\ session'[s] = [session[s] EXCEPT !.pc = "inserted"]
      /\ \A t \in Sessions \ {s} : session'[t] = session[t]
  BY <1>1, GotoFrame
<1>7. /\ DOMAIN work' = Sessions /\ work'[s] = later
      /\ \A t \in Sessions \ {s} : work'[t] = work[t]
  BY <1>1, WorkFrame
<1>8. session'[s].pc = "inserted" /\ session'[s].row = row
      /\ session'[s] \in [pc: States, row: Row \cup {NoRow}]
  BY <1>2, <1>6 DEF row, States
<1>9. SessionOK(s)'
  BY <1>1, <1>2, <1>3, <1>4, <1>5, <1>7, <1>8 DEF SessionOK
<1>10. \A t \in Sessions \ {s} : lock' = t <=> lock = t
  BY <1>1, ConstantsAssumption
<1>11. lock' \in Sessions \cup {None}
  BY <1>1
<1> QED
  BY <1>1, <1>6, <1>7, <1>9, <1>10, <1>11, OneSessionSteps

LEMMA AppendEventStep ==
  ASSUME Inv, NEW s \in Sessions, AppendEvent(s)
  PROVE  Inv'
<1> DEFINE db == work[s]
           body == Body(session[s].row, Len(db.rows))
           events == Append(db.events, EventAfter(db.events, body))
           later == [db EXCEPT !.events = events]
<1>1. /\ session[s].pc = "inserted"
      /\ work' = [work EXCEPT ![s] = later]
      /\ session' = [session EXCEPT ![s] = [session[s] EXCEPT !.pc = "idle"]]
      /\ disk' = disk /\ lock' = lock
  BY DEF AppendEvent, Goto, Inv, DatabaseOK
<1>2. /\ session[s].row \in Row /\ lock = s /\ Sound(db) /\ Extends(db.rows, disk.rows)
      /\ session[s] \in [pc: States, row: Row \cup {NoRow}]
  BY <1>1 DEF Inv, SessionOK
<1>3. /\ IsDatabase(db) /\ Lineage(db) /\ Chained(db.events)
      /\ db.events \in Seq(Event) /\ Len(db.rows) \in Nat
      /\ db = [rows |-> db.rows, events |-> db.events] /\ db.rows \in Seq(Row)
  BY <1>2, DatabaseFacts DEF Sound, IsDatabase
<1> HIDE DEF db
<1>4. body \in Bodies
  BY <1>2, <1>3, RowFacts DEF Body, Bodies
<1> HIDE DEF body
<1>5. events \in Seq(Event) /\ Chained(events)
  BY <1>3, <1>4, EventAppends
<1> HIDE DEF events
<1>6. later = [rows |-> db.rows, events |-> events]
  BY <1>3
<1>7. later.rows = db.rows /\ later.events = events /\ IsDatabase(later)
  BY <1>3, <1>5, <1>6 DEF IsDatabase
<1> HIDE DEF later
<1>8. Lineage(later)
  BY <1>3, <1>7, LineageOfRows
<1>9. Sound(later)
  BY <1>5, <1>7, <1>8 DEF Sound
<1>10. /\ session' = [t \in Sessions |-> session'[t]]
       /\ session'[s] = [session[s] EXCEPT !.pc = "idle"]
       /\ \A t \in Sessions \ {s} : session'[t] = session[t]
  BY <1>1, GotoFrame
<1>11. /\ DOMAIN work' = Sessions /\ work'[s] = later
       /\ \A t \in Sessions \ {s} : work'[t] = work[t]
  BY <1>1, WorkFrame
<1>12. session'[s].pc = "idle" /\ session'[s] \in [pc: States, row: Row \cup {NoRow}]
  BY <1>2, <1>10 DEF States
<1>13. SessionOK(s)'
  BY <1>1, <1>2, <1>7, <1>9, <1>11, <1>12 DEF SessionOK, db
<1>14. lock' \in Sessions \cup {None}
  BY <1>1, <1>2
<1> QED
  BY <1>1, <1>10, <1>11, <1>13, <1>14, OneSessionSteps

(* append_event raises, or HarvestRunner swallows what it raised.          *)
LEMMA RaiseStep ==
  ASSUME Inv, NEW s \in Sessions, AppendRaises(s)
  PROVE  Inv'
<1> PICK pc \in {"raised", "idle"} :
           /\ Goto(s, pc) /\ UNCHANGED <<disk, lock, work>>
           /\ session[s].pc = "inserted"
  BY DEF AppendRaises, AfterException
<1>1. /\ session' = [session EXCEPT ![s] = [session[s] EXCEPT !.pc = pc]]
      /\ disk' = disk /\ lock' = lock /\ work' = work
  BY DEF Goto, Inv, DatabaseOK
<1>2. /\ session' = [t \in Sessions |-> session'[t]]
      /\ session'[s] = [session[s] EXCEPT !.pc = pc]
      /\ \A t \in Sessions \ {s} : session'[t] = session[t]
  BY <1>1, GotoFrame
<1>3. SessionOK(s)
  BY DEF Inv
<1>4. session'[s].pc = pc /\ session'[s] \in [pc: States, row: Row \cup {NoRow}]
  BY <1>2, <1>3 DEF States, SessionOK
<1>5. SessionOK(s)'
  BY <1>1, <1>3, <1>4 DEF SessionOK
<1> QED
  BY <1>1, <1>2, <1>5, OneSessionSteps DEF Inv, DatabaseOK

(* A failed flush, or the end of a session without a commit.               *)
LEMMA DiscardStep ==
  ASSUME Inv, NEW s \in Sessions, FlushFails(s) \/ Close(s)
  PROVE  Inv'
<1> PICK pc \in {"idle", "broken"}, row \in Row \cup {NoRow} :
           /\ session' = [session EXCEPT ![s] = [pc |-> pc, row |-> row]]
           /\ Discard(s)
  <2>1. CASE FlushFails(s)
    <3>1. session[s] \in [pc: States, row: Row \cup {NoRow}]
      BY DEF Inv, SessionOK
    <3>2. [session[s] EXCEPT !.pc = "broken"] = [pc |-> "broken", row |-> session[s].row]
      BY <3>1
    <3>3. session' = [session EXCEPT ![s] = [session[s] EXCEPT !.pc = "broken"]]
      BY <2>1 DEF FlushFails, Goto
    <3>4. session' = [session EXCEPT ![s] = [pc |-> "broken", row |-> session[s].row]]
      BY <3>2, <3>3
    <3> QED
      BY <2>1, <3>1, <3>4 DEF FlushFails
  <2>2. CASE Close(s)
    BY <2>2 DEF Close
  <2> QED
    BY <2>1, <2>2
<1>1. /\ lock' = IF lock = s THEN None ELSE lock
      /\ work' = [work EXCEPT ![s] = Empty]
      /\ disk' = disk
  BY DEF Discard
<1>2. /\ session' = [t \in Sessions |-> session'[t]]
      /\ session'[s] = [pc |-> pc, row |-> row]
      /\ \A t \in Sessions \ {s} : session'[t] = session[t]
  BY GotoFrame
<1>3. /\ DOMAIN work' = Sessions /\ work'[s] = Empty
      /\ \A t \in Sessions \ {s} : work'[t] = work[t]
  BY <1>1, WorkFrame
<1>4. /\ lock' \in Sessions \cup {None} /\ lock' # s
      /\ \A t \in Sessions \ {s} : lock' = t <=> lock = t
  BY <1>1, ConstantsAssumption DEF Inv, DatabaseOK
<1>5. SessionOK(s)'
  BY <1>2, <1>3, <1>4, EmptySound DEF SessionOK, States
<1> QED
  BY <1>1, <1>2, <1>3, <1>4, <1>5, OneSessionSteps

LEMMA CommitStep ==
  ASSUME Inv, NEW s \in Sessions, Commit(s)
  PROVE  Inv'
<1>1. /\ session[s].pc = "idle" /\ lock = s /\ disk' = work[s] /\ lock' = None
      /\ work' = [work EXCEPT ![s] = Empty] /\ session' = session
  BY DEF Commit
<1>2. /\ DOMAIN work' = Sessions /\ work'[s] = Empty
      /\ \A t \in Sessions \ {s} : work'[t] = work[t]
  BY <1>1, WorkFrame
<1>3. Sound(work[s]) /\ Extends(work[s].rows, disk.rows) /\ None # s
  BY <1>1, ConstantsAssumption DEF Inv, SessionOK
<1>4. DatabaseOK'
  BY <1>1, <1>2, <1>3 DEF Inv, DatabaseOK
<1>5. ASSUME NEW t \in Sessions
      PROVE  SessionOK(t)'
  <2>1. SessionOK(t) /\ None # t
    BY ConstantsAssumption DEF Inv
  <2>2. CASE t = s
    BY <2>1, <2>2, <1>1, <1>2, <1>3, EmptySound DEF SessionOK
  <2>3. CASE t # s
    <3>1. work[t] = Empty /\ lock # t /\ work'[t] = Empty /\ lock' # t
      BY <2>1, <2>3, <1>1, <1>2 DEF SessionOK
    <3>2. Seen(t) = disk /\ Seen(t)' = disk'
      BY <3>1, <2>1, <1>1 DEF Seen
    <3>3. Len(disk.rows) \in Nat /\ Len(disk'.rows) \in Nat
      BY <1>1, <1>3, DatabaseFacts DEF Inv, DatabaseOK, Sound
    <3>4. session[t].pc = "ready" => Fits(disk'.rows, Len(disk'.rows), session[t].row)
      <4> SUFFICES ASSUME session[t].pc = "ready"
                   PROVE  Fits(disk'.rows, Len(disk'.rows), session[t].row)
        OBVIOUS
      <4>1. Fits(disk.rows, Len(disk.rows), session[t].row)
        BY <2>1, <3>2 DEF SessionOK
      <4> QED
        BY <4>1, <3>3, <1>1, <1>3, FitsExtension
    <3> QED
      BY <2>1, <3>1, <3>2, <3>4, <1>1, EmptySound DEF SessionOK
  <2> QED
    BY <2>2, <2>3
<1> QED
  BY <1>4, <1>5 DEF Inv

LEMMA InvStep ==
  ASSUME Inv, [Next]_vars
  PROVE  Inv'
<1>1. ASSUME NEW s \in Sessions, RepositoryCall(s) \/ SessionStep(s)
      PROVE  Inv'
  BY <1>1, CallStep, InsertStep, AppendEventStep, RaiseStep, DiscardStep, CommitStep
  DEF SessionStep
<1>2. CASE UNCHANGED vars
  BY <1>2 DEF vars, Inv, DatabaseOK, SessionOK, Seen
<1> QED
  BY <1>1, <1>2 DEF Next

LEMMA InvStart == Init => Inv
<1> SUFFICES ASSUME Init
             PROVE  Inv
  OBVIOUS
<1>1. DatabaseOK
  BY EmptySound DEF Init, DatabaseOK
<1>2. \A s \in Sessions : SessionOK(s)
  BY EmptySound, ConstantsAssumption DEF Init, SessionOK, States, NoRow
<1> QED
  BY <1>1, <1>2 DEF Inv

LEMMA Invariance == Spec => []Inv
BY InvStart, InvStep, PTL DEF Spec

----------------------------------------------------------------------------
(* The database and the sessions keep their types; only the holder of the  *)
(* lock has uncommitted rows.                                              *)
THEOREM LedgerTypeCorrect == Spec => []TypeOK
BY Invariance, InvImpliesTypes, PTL

(* The committed ledger always verifies, swallowed exceptions or not.      *)
THEOREM ChainAlwaysVerifies == Spec => []ChainVerifies
<1>1. Inv => ChainVerifies
  BY DEF Inv, DatabaseOK, Sound, ChainVerifies
<1> QED
  BY <1>1, Invariance, PTL

(* The versions of a key form one line, however sessions interleave.       *)
THEOREM LineageHolds == Spec => []OneLineage
<1>1. Inv => OneLineage
  <2> SUFFICES ASSUME Inv, NEW i \in RowsOf(disk, Revisable \cup {"challenge"})
               PROVE  LET row == disk.rows[i]
                      IN  /\ row.version = 1 <=> row.supersedes = None
                          /\ row.version # 1 =>
                               /\ row.supersedes \in VersionsOf(disk, row.type, row.key) \cap 1 .. i - 1
                               /\ disk.rows[row.supersedes].version = row.version - 1
                               /\ row.type = "challenge" => disk.rows[row.supersedes].refs = row.refs
                          /\ \A j \in VersionsOf(disk, row.type, row.key) \ {i} :
                               disk.rows[j].version # row.version
    BY Zenon DEF OneLineage
  <2> DEFINE row == disk.rows[i]
  <2>1. /\ i \in 1 .. Len(disk.rows) /\ row.type \notin Unversioned
        /\ Len(disk.rows) \in Nat /\ Lineage(disk)
        /\ \A j \in 1 .. Len(disk.rows) : disk.rows[j].version \in Nat
    BY DatabaseFacts, RowFacts
    DEF Inv, DatabaseOK, Sound, RowsOf, Revisable, Unversioned
  <2>2. Fits(disk.rows, i - 1, row)
    BY <2>1 DEF Lineage, AllFit
  <2>3. row.version # 1 =>
          row.supersedes \in VersionsOf(disk, row.type, row.key) \cap 1 .. i - 1
    BY <2>1, <2>2 DEF Fits, VersionsOf
  <2>4. ASSUME NEW j \in VersionsOf(disk, row.type, row.key) \ {i}
        PROVE  disk.rows[j].version # row.version
    <3>1. /\ j \in 1 .. Len(disk.rows) /\ j # i
          /\ disk.rows[j].type = row.type /\ disk.rows[j].key = row.key
      BY DEF VersionsOf
    <3>2. row.key # None
      BY <2>1, <2>2, ConstantsAssumption DEF Fits
    <3>3. CASE j < i
      BY <3>1, <3>2, <3>3, <2>1 DEF Lineage, Increasing
    <3>4. CASE i < j
      BY <3>1, <3>2, <3>4, <2>1 DEF Lineage, Increasing
    <3> QED
      BY <3>1, <3>3, <3>4, <2>1
  <2> QED
    BY <2>1, <2>2, <2>3, <2>4 DEF Fits
<1> QED
  BY <1>1, Invariance, PTL

----------------------------------------------------------------------------
(* Where nothing is swallowed, a session holds rows without an event only  *)
(* between the flush of a row and the append of its event.                 *)
Ledgered(db) ==
  /\ Len(db.events) = Len(db.rows)
  /\ \A i \in 1 .. Len(db.rows) : db.events[i].body = Body(db.rows[i], i)

LastUnledgered(db) ==
  /\ Len(db.rows) = Len(db.events) + 1
  /\ \A i \in 1 .. Len(db.events) : db.events[i].body = Body(db.rows[i], i)

LedgeredInv ==
  /\ Ledgered(disk)
  /\ \A s \in Sessions : lock = s =>
       /\ session[s].pc \in {"idle", "ready"} => Ledgered(work[s])
       /\ session[s].pc = "inserted" => LastUnledgered(work[s])

LEMMA LedgeredInsert ==
  ASSUME Inv, LedgeredInv, NEW s \in Sessions, Insert(s)
  PROVE  LedgeredInv'
<1> DEFINE db == Seen(s)
           row == session[s].row
           later == [db EXCEPT !.rows = Append(@, row)]
<1>1. /\ session[s].pc = "ready" /\ lock' = s /\ disk' = disk
      /\ session' = [session EXCEPT ![s] = [session[s] EXCEPT !.pc = "inserted"]]
      /\ work' = [work EXCEPT ![s] = later]
      /\ lock \in {None, s}
  BY DEF Insert, Goto
<1>2. Ledgered(db)
  BY <1>1 DEF LedgeredInv, Seen
<1>3. IsDatabase(db) /\ row \in Row
  BY <1>1, SeenSound DEF Inv, SessionOK
<1>4. /\ db.rows \in Seq(Row) /\ Len(db.rows) \in Nat /\ db.events \in Seq(Event)
      /\ db = [rows |-> db.rows, events |-> db.events]
  BY <1>3, DatabaseFacts DEF IsDatabase
<1> HIDE DEF db, row
<1>5. /\ later.events = db.events /\ Len(later.rows) = Len(db.rows) + 1
      /\ \A i \in 1 .. Len(db.rows) : later.rows[i] = db.rows[i]
  <2> DEFINE rows == Append(db.rows, row)
  <2> HIDE DEF Row, Event
  <2>1. Len(rows) = Len(db.rows) + 1 /\ \A i \in 1 .. Len(db.rows) : rows[i] = db.rows[i]
    BY <1>3, <1>4
  <2>2. later = [db EXCEPT !.rows = rows]
    OBVIOUS
  <2> HIDE DEF rows, later
  <2>3. later.rows = rows /\ later.events = db.events
    BY <1>4, <2>2
  <2> QED
    BY <2>1, <2>3
<1> HIDE DEF later
<1>6. LastUnledgered(later)
  BY <1>2, <1>4, <1>5 DEF Ledgered, LastUnledgered
<1>7. session'[s] = [session[s] EXCEPT !.pc = "inserted"] /\ work'[s] = later
  BY <1>1, GotoFrame, WorkFrame
<1>8. session'[s].pc = "inserted"
  <2>1. session[s] \in [pc: States, row: Row \cup {NoRow}]
    BY DEF Inv, SessionOK
  <2> QED
    BY <2>1, <1>7
<1> QED
  BY <1>1, <1>6, <1>7, <1>8 DEF LedgeredInv

LEMMA LedgeredAppend ==
  ASSUME Inv, LedgeredInv, NEW s \in Sessions, AppendEvent(s)
  PROVE  LedgeredInv'
<1> DEFINE db == work[s]
           body == Body(session[s].row, Len(db.rows))
           events == Append(db.events, EventAfter(db.events, body))
           later == [db EXCEPT !.events = events]
<1>1. /\ session[s].pc = "inserted"
      /\ work' = [work EXCEPT ![s] = later]
      /\ session' = [session EXCEPT ![s] = [session[s] EXCEPT !.pc = "idle"]]
      /\ disk' = disk /\ lock' = lock
  BY DEF AppendEvent, Goto, Inv, DatabaseOK
<1>2. /\ session[s].row \in Row /\ lock = s /\ Sound(db) /\ LastUnledgered(db)
      /\ session[s] \in [pc: States, row: Row \cup {NoRow}]
      /\ db.rows[Len(db.rows)] = session[s].row
  BY <1>1 DEF Inv, SessionOK, LedgeredInv
<1>3. /\ Chained(db.events) /\ db.events \in Seq(Event)
      /\ Len(db.rows) \in Nat /\ Len(db.events) \in Nat
      /\ db = [rows |-> db.rows, events |-> db.events]
  BY <1>2, DatabaseFacts DEF Sound, IsDatabase
<1> HIDE DEF db
<1>4. body \in Bodies
  BY <1>2, <1>3, RowFacts DEF Body, Bodies
<1>5. body = Body(db.rows[Len(db.rows)], Len(db.rows))
  BY <1>2
<1> HIDE DEF body
<1>6. /\ Len(events) = Len(db.events) + 1
      /\ \A i \in 1 .. Len(db.events) : events[i] = db.events[i]
      /\ events[Len(db.events) + 1].body = body
  BY <1>3, <1>4, EventAppends
<1> HIDE DEF events
<1>7. later.rows = db.rows /\ later.events = events
  BY <1>3
<1> HIDE DEF later
<1>8. Len(db.rows) = Len(db.events) + 1
  BY <1>2 DEF LastUnledgered
<1>9. ASSUME NEW i \in 1 .. Len(db.rows)
      PROVE  events[i].body = Body(db.rows[i], i)
  <2>1. CASE i = Len(db.rows)
    BY <2>1, <1>5, <1>6, <1>8
  <2>2. CASE i # Len(db.rows)
    <3>1. i \in 1 .. Len(db.events)
      BY <2>2, <1>3, <1>8
    <3> QED
      BY <3>1, <1>2, <1>6 DEF LastUnledgered
  <2> QED
    BY <2>1, <2>2
<1>10. Ledgered(later)
  BY <1>6, <1>7, <1>8, <1>9 DEF Ledgered
<1>11. session'[s].pc = "idle" /\ work'[s] = later
  BY <1>1, <1>2, GotoFrame, WorkFrame
<1> QED
  BY <1>1, <1>2, <1>10, <1>11 DEF LedgeredInv

(* The other steps leave the rows and events of every holder as they are.  *)
LEMMA LedgeredOtherwise ==
  ASSUME Swallowers = {}, Inv, LedgeredInv, NEW s \in Sessions,
         \/ RepositoryCall(s) \/ AppendRaises(s) \/ FlushFails(s)
         \/ Commit(s) \/ Close(s)
  PROVE  LedgeredInv'
<1>1. CASE RepositoryCall(s)
  <2>1. PICK row : Prepare(s, row)
    BY <1>1
    DEF RepositoryCall, AddSourceArtifact, AddEvidence, AddClaim, AddObservation,
        AddDerivedMetric, AddTaxonomyMapping, AddChallenge, ReviseChallenge, AddUnversioned,
        AddVersioned
  <2>2. /\ session[s].pc = "idle" /\ disk' = disk /\ lock' = lock /\ work' = work
        /\ session' = [session EXCEPT ![s] = [pc |-> "ready", row |-> row]]
    BY <2>1 DEF Prepare
  <2>3. /\ session'[s] = [pc |-> "ready", row |-> row]
        /\ \A t \in Sessions \ {s} : session'[t] = session[t]
    BY <2>2, GotoFrame
  <2> QED
    BY <2>2, <2>3 DEF LedgeredInv
<1>2. CASE AppendRaises(s)
  <2>1. /\ session[s].pc = "inserted" /\ disk' = disk /\ lock' = lock /\ work' = work
        /\ session' = [session EXCEPT ![s] = [session[s] EXCEPT !.pc = "raised"]]
    BY <1>2 DEF AppendRaises, AfterException, Goto
  <2>2. /\ session'[s] = [session[s] EXCEPT !.pc = "raised"]
        /\ \A t \in Sessions \ {s} : session'[t] = session[t]
    BY <2>1, GotoFrame
  <2>3. session[s] \in [pc: States, row: Row \cup {NoRow}]
    BY DEF Inv, SessionOK
  <2>4. session'[s].pc = "raised"
    BY <2>2, <2>3
  <2> QED
    BY <2>1, <2>2, <2>4 DEF LedgeredInv
<1>3. CASE FlushFails(s) \/ Close(s)
  <2>1. PICK new : session' = [session EXCEPT ![s] = new] /\ Discard(s)
    BY <1>3 DEF FlushFails, Close, Goto
  <2>2. /\ lock' = (IF lock = s THEN None ELSE lock) /\ disk' = disk
        /\ work' = [work EXCEPT ![s] = Empty]
    BY <2>1 DEF Discard
  <2>3. /\ \A t \in Sessions \ {s} : session'[t] = session[t] /\ work'[t] = work[t]
        /\ \A t \in Sessions : lock' = t => t # s /\ lock = t
    BY <2>1, <2>2, GotoFrame, WorkFrame, ConstantsAssumption
  <2> QED
    BY <2>2, <2>3 DEF LedgeredInv
<1>4. CASE Commit(s)
  <2>1. /\ session[s].pc = "idle" /\ lock = s /\ disk' = work[s] /\ lock' = None
    BY <1>4 DEF Commit
  <2> QED
    BY <2>1, ConstantsAssumption DEF LedgeredInv
<1> QED
  BY <1>1, <1>2, <1>3, <1>4

LEMMA LedgeredStep ==
  ASSUME Swallowers = {}, Inv, LedgeredInv, [Next]_vars
  PROVE  LedgeredInv'
<1>1. ASSUME NEW s \in Sessions, RepositoryCall(s) \/ SessionStep(s)
      PROVE  LedgeredInv'
  BY <1>1, LedgeredInsert, LedgeredAppend, LedgeredOtherwise DEF SessionStep
<1>2. CASE UNCHANGED vars
  BY <1>2 DEF vars, LedgeredInv, Ledgered, LastUnledgered
<1> QED
  BY <1>1, <1>2 DEF Next

LEMMA LedgeredStart == Init => LedgeredInv
<1> SUFFICES ASSUME Init
             PROVE  LedgeredInv
  OBVIOUS
<1>1. Ledgered(disk)
  BY DEF Init, Empty, Ledgered
<1> QED
  BY <1>1, ConstantsAssumption DEF Init, LedgeredInv

(* FR-007, where no session swallows what append_event raises: each        *)
(* committed row has its event, in the order of the rows.                  *)
THEOREM EveryWriteIsLedgered ==
  ASSUME Swallowers = {}
  PROVE  Spec => []EveryWriteLedgered
<1>1. Inv /\ LedgeredInv /\ [Next]_vars => LedgeredInv'
  BY LedgeredStep
<1>2. LedgeredInv => EveryWriteLedgered
  BY DEF LedgeredInv, Ledgered, EveryWriteLedgered
<1> QED
  BY <1>1, <1>2, LedgeredStart, Invariance, PTL DEF Spec

----------------------------------------------------------------------------
(* What HistoryLog sees of a ledgered database is its rows.                *)
Told(db) == [n \in 1 .. Len(db.events) |-> db.events[n].body.payload]

LEMMA HistoryIsRows ==
  ASSUME NEW db, IsDatabase(db), Ledgered(db)
  PROVE  Told(db) = db.rows
<1>1. db.rows \in Seq(Row) /\ Len(db.rows) \in Nat /\ Len(db.events) = Len(db.rows)
  BY DatabaseFacts DEF Ledgered
<1>2. db.rows = [n \in 1 .. Len(db.rows) |-> db.rows[n]]
  <2> DEFINE rows == db.rows
  <2>1. rows \in Seq(Row)
    BY <1>1
  <2> HIDE DEF Row, rows
  <2>2. rows = [n \in 1 .. Len(rows) |-> rows[n]]
    BY <2>1
  <2> QED
    BY <2>2 DEF rows
<1>3. ASSUME NEW n \in 1 .. Len(db.events)
      PROVE  db.events[n].body.payload = db.rows[n]
  <2>1. n \in 1 .. Len(db.rows)
    BY <1>1
  <2>2. db.events[n].body = Body(db.rows[n], n)
    BY <2>1 DEF Ledgered
  <2> QED
    BY <2>2 DEF Body
<1>4. 1 .. Len(db.events) = 1 .. Len(db.rows)
  BY <1>1
<1>5. Told(db) = [n \in 1 .. Len(db.rows) |-> db.rows[n]]
  BY <1>3, <1>4, Zenon DEF Told
<1> QED
  BY <1>2, <1>5

(* The rows of a sound database are well founded, as HistoryLog has it.    *)
LEMMA RowsWellFounded ==
  ASSUME NEW db, Sound(db), NEW n \in 1 .. Len(db.rows)
  PROVE  History!WellFounded(db.rows, n)
<1> DEFINE row == db.rows[n]
           earlier == {m \in 1 .. n - 1 : db.rows[m].type = row.type /\ db.rows[m].key = row.key}
<1>1. /\ Len(db.rows) \in Nat /\ n \in Nat /\ Lineage(db)
      /\ \A i \in 1 .. Len(db.rows) : /\ db.rows[i].version \in Nat
                                      /\ db.rows[i].version >= 1
  BY DatabaseFacts, RowFacts DEF Sound
<1>2. Fits(db.rows, n - 1, row)
  BY <1>1 DEF Lineage, AllFit
<1>3. ASSUME NEW m \in earlier, row.key # None
      PROVE  db.rows[m].version < row.version
  BY <1>1, <1>3 DEF Lineage, Increasing
<1>4. ASSUME NEW k \in earlier, NEW m \in earlier, m < k, row.key # None
      PROVE  db.rows[m].version < db.rows[k].version
  BY <1>1, <1>4 DEF Lineage, Increasing
<1>5. row.key = None <=> row.type \in Unversioned
  BY <1>2, ConstantsAssumption DEF Fits
<1>6. ASSUME row.version # 1
      PROVE  /\ row.key # None /\ row.supersedes \in earlier
             /\ row.version = db.rows[row.supersedes].version + 1
  <2>1. /\ row.type \notin Unversioned /\ row.supersedes \in 1 .. n - 1
        /\ db.rows[row.supersedes].type = row.type
        /\ db.rows[row.supersedes].key = row.key
        /\ db.rows[row.supersedes].version = row.version - 1
    BY <1>2, <1>6 DEF Fits
  <2> QED
    BY <2>1, <1>1, <1>5
<1>7. row.version = 1 => row.supersedes = None
  BY <1>2 DEF Fits
<1>8. row.key = None \/ earlier = {} => row.version = 1 /\ row.supersedes = None
  BY <1>6, <1>7
<1>9. ASSUME row.key # None, earlier # {}
      PROVE  \E m \in earlier : /\ \A k \in earlier : k <= m
                                /\ row.version = db.rows[m].version + 1
                                /\ row.supersedes = m
  <2>1. PICK any \in earlier : TRUE
    BY <1>9
  <2>2. row.version # 1
    BY <1>1, <1>3, <1>9, <2>1
  <2> DEFINE m == row.supersedes
  <2>3. m \in earlier /\ row.version = db.rows[m].version + 1
    BY <1>6, <2>2
  <2>4. ASSUME NEW k \in earlier
        PROVE  k <= m
    <3>1. db.rows[k].version < db.rows[m].version + 1
      BY <1>3, <1>9, <2>3
    <3>2. CASE m < k
      <4>1. db.rows[m].version < db.rows[k].version
        BY <1>4, <1>9, <2>3, <3>2
      <4>2. db.rows[m].version \in Nat /\ db.rows[k].version \in Nat
        BY <1>1, <2>3
      <4> QED
        BY <3>1, <4>1, <4>2
    <3>3. m \in Nat /\ k \in Nat
      BY <1>1, <2>3
    <3> QED
      BY <3>2, <3>3
  <2> QED
    BY <2>3, <2>4
<1>10. History!NextVersion(db.rows, n)
  BY <1>8, <1>9 DEF History!NextVersion, History!Earlier
<1>11. \A m \in row.refs : m \in 1 .. n - 1
  BY <1>2 DEF Fits
<1> QED
  BY <1>10, <1>11 DEF History!WellFounded

(* A commit adds the rows of its session to the history.                   *)
LEMMA HistoryStep ==
  ASSUME Inv, LedgeredInv, NEW s \in Sessions, Commit(s)
  PROVE  \/ disk'.rows = disk.rows
         \/ /\ Len(disk'.rows) > Len(disk.rows)
            /\ SubSeq(disk'.rows, 1, Len(disk.rows)) = disk.rows
            /\ \A n \in Len(disk.rows) + 1 .. Len(disk'.rows) :
                 History!WellFounded(disk'.rows, n)
<1> DEFINE old == disk.rows
           new == work[s].rows
<1>1. disk' = work[s] /\ Sound(work[s]) /\ Extends(new, old) /\ Sound(disk)
  BY DEF Commit, Inv, DatabaseOK, SessionOK
<1>2. old \in Seq(Row) /\ new \in Seq(Row) /\ Len(old) \in Nat /\ Len(new) \in Nat
  BY <1>1, DatabaseFacts DEF Sound
<1>3. \A n \in 1 .. Len(new) : History!WellFounded(new, n)
  BY <1>1, RowsWellFounded
<1>4. disk'.rows = new
  BY <1>1
<1>5. Len(old) <= Len(new) /\ \A i \in 1 .. Len(old) : new[i] = old[i]
  BY <1>1 DEF Extends
<1> HIDE DEF old, new, Row
<1>6. SubSeq(new, 1, Len(old)) = old
  <2>1. SubSeq(new, 1, Len(old)) = [i \in 1 .. Len(old) |-> new[i]]
    BY <1>2, <1>5
  <2>2. old = [i \in 1 .. Len(old) |-> old[i]]
    BY <1>2
  <2> QED
    BY <2>1, <2>2, <1>5
<1>7. CASE Len(new) = Len(old)
  <2>1. new = [i \in 1 .. Len(new) |-> new[i]] /\ old = [i \in 1 .. Len(old) |-> old[i]]
    BY <1>2
  <2> QED
    BY <2>1, <1>4, <1>5, <1>7 DEF old
<1>8. CASE Len(new) > Len(old)
  <2>1. \A n \in Len(old) + 1 .. Len(new) : n \in 1 .. Len(new)
    BY <1>2
  <2> QED
    BY <2>1, <1>3, <1>4, <1>6, <1>8 DEF old
<1> QED
  BY <1>2, <1>5, <1>7, <1>8

(* Where nothing is swallowed, readers see HistoryLog: whatever sessions   *)
(* do, the recorded history only grows, and each entry is the next version *)
(* of its key and cites what was recorded before it.                       *)
THEOREM HistoryOnlyGrows ==
  ASSUME Swallowers = {}
  PROVE  Spec => HistoryGrows
<1>1. Inv /\ LedgeredInv /\ [Next]_vars => LedgeredInv'
  BY LedgeredStep
<1>2. Init => History!Init
  BY DEF Init, Empty, History!Init
<1>3. ASSUME Inv, LedgeredInv, Inv', LedgeredInv', [Next]_vars
      PROVE  [History!Next]_(Told(disk))
  <2>1. IsDatabase(disk) /\ IsDatabase(disk') /\ Ledgered(disk) /\ Ledgered(disk')
    BY <1>3 DEF Inv, DatabaseOK, Sound, LedgeredInv
  <2>2. Told(disk) = disk.rows /\ Told(disk') = disk'.rows
    BY <2>1, HistoryIsRows
  <2>3. CASE \E s \in Sessions : Commit(s)
    BY <1>3, <2>2, <2>3, HistoryStep DEF History!Next, Told
  <2>4. CASE ~ \E s \in Sessions : Commit(s)
    <3>1. disk' = disk
      BY <1>3, <2>4
      DEF Next, vars, RepositoryCall, SessionStep, AddSourceArtifact, AddEvidence, AddClaim,
          AddObservation, AddDerivedMetric, AddTaxonomyMapping, AddChallenge, ReviseChallenge,
          AddUnversioned, AddVersioned, Prepare, Insert, AppendEvent, AppendRaises, FlushFails,
          Close, Discard
    <3> QED
      BY <3>1
  <2> QED
    BY <2>3, <2>4
<1>4. Inv /\ LedgeredInv /\ Inv' /\ LedgeredInv' /\ [Next]_vars => [History!Next]_(Told(disk))
  BY <1>3
<1> QED
  BY <1>1, <1>2, <1>4, LedgeredStart, Invariance, PTL DEF Spec, HistoryGrows, History!Spec, Told
=============================================================================
