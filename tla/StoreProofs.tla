---------------------------- MODULE StoreProofs ----------------------------
(***************************************************************************)
(* Theorems of ExchangeStore, for any number of requests, probes,          *)
(* employers, records and crashes: what is committed verifies; and, of     *)
(* whole requests, that they are atomic (the store implements              *)
(* AuditedStore), what is answered is on disk, a revoked employer does     *)
(* nothing any more, and a damaged volume stays as it is and is seen by    *)
(* the health probe.                                                       *)
(***************************************************************************)
EXTENDS ExchangeStore, TLAPS

(* An event appended to the audit table leaves the others in place.        *)
LEMMA AuditAppends ==
  ASSUME NEW audit \in Seq(Events), NEW body \in Bodies
  PROVE  /\ Audited(audit, body) \in Seq(Events)
         /\ Len(Audited(audit, body)) = Len(audit) + 1
         /\ \A i \in 1 .. Len(audit) : Audited(audit, body)[i] = audit[i]
         /\ Audited(audit, body)[Len(audit) + 1].body = body
<1> DEFINE previous == IF audit = <<>> THEN <<>> ELSE audit[Len(audit)].digest
           event == [seq |-> Len(audit) + 1, body |-> body, previous |-> previous,
                     digest |-> Append(previous, body)]
<1>1. previous \in Seq(Bodies)
  <2>1. CASE audit = <<>>
    BY <2>1
  <2>2. CASE audit # <<>>
    <3>1. Len(audit) \in 1 .. Len(audit)
      BY <2>2
    <3>2. audit[Len(audit)] \in Events
      BY <3>1
    <3>. QED  BY <2>2, <3>2 DEF Events
  <2>. QED  BY <2>1, <2>2
<1>2. event \in Events
  <2>1. Append(previous, body) \in Seq(Bodies)
    BY <1>1
  <2> HIDE DEF previous
  <2>. QED  BY <1>1, <2>1 DEF Events
<1>3. Audited(audit, body) = Append(audit, event) /\ event.body = body
  BY DEF Audited
<1> HIDE DEF event
<1>. QED  BY <1>2, <1>3

(* ... and extends the chain. *)
LEMMA ChainExtends ==
  ASSUME NEW audit \in Seq(Events), NEW body \in Bodies, Chained(audit)
  PROVE  Chained(Audited(audit, body))
<1> DEFINE new == Audited(audit, body)
           n == Len(audit)
<1>1. /\ Len(new) = n + 1 /\ n \in Nat
      /\ \A i \in 1 .. n : new[i] = audit[i]
  BY AuditAppends
<1>2. LET previous == IF n + 1 = 1 THEN <<>> ELSE new[n].digest
      IN  /\ new[n + 1].seq = n + 1
          /\ new[n + 1].previous = previous
          /\ new[n + 1].digest = Append(previous, new[n + 1].body)
  <2>1. CASE audit = <<>>
    BY <2>1 DEF Audited
  <2>2. CASE audit # <<>>
    <3>1. n \in 1 .. n /\ n + 1 # 1
      BY <2>2
    <3>2. new[n].digest = audit[n].digest
      BY <1>1, <3>1
    <3>3. new = Append(audit, [seq |-> n + 1, body |-> body, previous |-> audit[n].digest,
                               digest |-> Append(audit[n].digest, body)])
      BY <2>2 DEF Audited
    <3>4. new[n + 1] = [seq |-> n + 1, body |-> body, previous |-> audit[n].digest,
                        digest |-> Append(audit[n].digest, body)]
      BY <3>3
    <3>. QED  BY <3>1, <3>2, <3>4
  <2>. QED  BY <2>1, <2>2
<1> HIDE DEF new
<1>3. ASSUME NEW i \in 1 .. n
      PROVE  LET previous == IF i = 1 THEN <<>> ELSE new[i - 1].digest
             IN  /\ new[i].seq = i
                 /\ new[i].previous = previous
                 /\ new[i].digest = Append(previous, new[i].body)
  <2>1. new[i] = audit[i] /\ (i # 1 => new[i - 1] = audit[i - 1])
    BY <1>1
  <2>. QED  BY <2>1 DEF Chained
<1> DEFINE Linked(i) == LET previous == IF i = 1 THEN <<>> ELSE new[i - 1].digest
                        IN  /\ new[i].seq = i
                            /\ new[i].previous = previous
                            /\ new[i].digest = Append(previous, new[i].body)
<1>4. Linked(n + 1)
  <2>1. (n + 1) - 1 = n
    BY <1>1
  <2>. QED  BY <1>2, <2>1
<1>5. \A i \in 1 .. n : Linked(i)
  BY <1>3
<1>6. 1 .. Len(new) = (1 .. n) \cup {n + 1}
  BY <1>1
<1>7. (\A i \in 1 .. Len(new) : Linked(i)) => Chained(new)
  BY DEF Chained
<1> HIDE DEF Linked
<1>8. Chained(new)
  BY <1>4, <1>5, <1>6, <1>7
<1>. QED  BY <1>8 DEF new

(* What an appended event does to the events that write a record. *)
LEMMA WritesAppend ==
  ASSUME NEW audit \in Seq(Events), NEW body \in Bodies, NEW id
  PROVE  WritesOf(Audited(audit, body), id) =
           WritesOf(audit, id) \cup
             (IF body.digest # None /\ body.record = id THEN {Len(audit) + 1} ELSE {})
<1> DEFINE new == Audited(audit, body)
           n == Len(audit)
<1>1. /\ Len(new) = n + 1 /\ n \in Nat
      /\ \A i \in 1 .. n : new[i] = audit[i]
      /\ new[n + 1].body = body
  BY AuditAppends
<1>2. 1 .. Len(new) = (1 .. n) \cup {n + 1} /\ n + 1 \notin 1 .. n
  BY <1>1
<1> HIDE DEF new
<1>3. WritesOf(new, id) = WritesOf(audit, id) \cup
             (IF body.digest # None /\ body.record = id THEN {n + 1} ELSE {})
  BY <1>1, <1>2 DEF WritesOf
<1>. QED  BY <1>3 DEF new

(* A record is written when some event writes it. *)
LEMMA WrittenIff ==
  ASSUME NEW audit, NEW id
  PROVE  id \in WrittenIds(audit) <=> WritesOf(audit, id) # {}
BY DEF WrittenIds, WritesOf

(* Each written record has a last event that writes it: part of the        *)
(* inductive invariant, since it makes the CHOOSE of LastWrite a choice.   *)
IsLast(audit, id, i) ==
  i \in WritesOf(audit, id) /\ \A j \in WritesOf(audit, id) : j <= i

HasLast(audit) == \A id \in WrittenIds(audit) : \E i : IsLast(audit, id, i)

LEMMA LastWriteIsLast ==
  ASSUME NEW audit, NEW id, \E i : IsLast(audit, id, i)
  PROVE  IsLast(audit, id, LastWrite(audit, id))
BY DEF IsLast, LastWrite

(* The last event is the only one that is last. *)
LEMMA LastWriteUnique ==
  ASSUME NEW audit, NEW id, NEW i, IsLast(audit, id, i)
  PROVE  LastWrite(audit, id) = i
<1>1. IsLast(audit, id, LastWrite(audit, id))
  BY LastWriteIsLast
<1>2. \A a, b \in WritesOf(audit, id) : a <= b /\ b <= a => a = b
  BY DEF WritesOf
<1>. QED  BY <1>1, <1>2 DEF IsLast

(* An access event changes nothing of what the records should be. *)
LEMMA ExpectedAccess ==
  ASSUME NEW audit \in Seq(Events), NEW body \in Bodies, body.digest = None, HasLast(audit)
  PROVE  /\ Expected(Audited(audit, body)) = Expected(audit)
         /\ HasLast(Audited(audit, body))
<1> DEFINE new == Audited(audit, body)
<1>1. \A i \in 1 .. Len(audit) : new[i] = audit[i]
  BY AuditAppends
<1>2. ASSUME NEW id PROVE WritesOf(new, id) = WritesOf(audit, id)
  <2>1. WritesOf(new, id) = WritesOf(audit, id) \cup
          (IF body.digest # None /\ body.record = id THEN {Len(audit) + 1} ELSE {})
    BY WritesAppend
  <2>. QED  BY <2>1
<1> HIDE DEF new
<1>3. WrittenIds(new) = WrittenIds(audit)
  BY <1>2, WrittenIff
<1>4. ASSUME NEW id \in WrittenIds(audit)
      PROVE  new[LastWrite(new, id)] = audit[LastWrite(audit, id)]
  <2>1. LastWrite(new, id) = LastWrite(audit, id)
    BY <1>2 DEF LastWrite
  <2>2. IsLast(audit, id, LastWrite(audit, id))
    BY LastWriteIsLast DEF HasLast
  <2>3. LastWrite(audit, id) \in 1 .. Len(audit)
    BY <2>2 DEF IsLast, WritesOf
  <2>. QED  BY <1>1, <2>1, <2>3
<1>5. Expected(new) = Expected(audit)
  BY <1>3, <1>4 DEF Expected
<1>6. HasLast(new)
  BY <1>2, <1>3 DEF HasLast, IsLast
<1>. QED  BY <1>5, <1>6 DEF new

(* A write event changes it in the record it names, and to its row. *)
LEMMA ExpectedWrite ==
  ASSUME NEW audit \in Seq(Events), NEW body \in Bodies, body.digest # None, HasLast(audit)
  PROVE  /\ Expected(Audited(audit, body)) = Upsert(Expected(audit), body.record, body.digest)
         /\ HasLast(Audited(audit, body))
<1> DEFINE new == Audited(audit, body)
           n == Len(audit)
           me == body.record
<1>1. /\ n \in Nat
      /\ \A i \in 1 .. n : new[i] = audit[i]
      /\ new[n + 1].body = body
  BY AuditAppends
<1>2. ASSUME NEW id
      PROVE  WritesOf(new, id) = WritesOf(audit, id) \cup (IF id = me THEN {n + 1} ELSE {})
  <2>1. WritesOf(new, id) = WritesOf(audit, id) \cup
          (IF body.digest # None /\ body.record = id THEN {n + 1} ELSE {})
    BY WritesAppend
  <2>. QED  BY <2>1
<1> HIDE DEF new
<1>3. WrittenIds(new) = WrittenIds(audit) \cup {me}
  <2>1. \A id : id \in WrittenIds(new) <=> id \in WrittenIds(audit) \/ id = me
    BY <1>2, WrittenIff
  <2>. QED  BY <2>1
<1>4. IsLast(new, me, n + 1)
  <2>1. WritesOf(audit, me) \subseteq 1 .. n
    BY DEF WritesOf
  <2>2. WritesOf(new, me) = WritesOf(audit, me) \cup {n + 1}
    BY <1>2
  <2>. QED  BY <1>1, <2>1, <2>2 DEF IsLast
<1>5. new[LastWrite(new, me)].body = body
  BY <1>1, <1>4, LastWriteUnique
<1>6. ASSUME NEW id \in WrittenIds(audit), id # me
      PROVE  new[LastWrite(new, id)] = audit[LastWrite(audit, id)]
  <2>1. LastWrite(new, id) = LastWrite(audit, id)
    BY <1>2, <1>6 DEF LastWrite
  <2>2. IsLast(audit, id, LastWrite(audit, id))
    BY LastWriteIsLast DEF HasLast
  <2>3. LastWrite(audit, id) \in 1 .. n
    BY <2>2 DEF IsLast, WritesOf
  <2>. QED  BY <1>1, <2>1, <2>3
<1>7. Expected(new) = Upsert(Expected(audit), me, body.digest)
  BY <1>3, <1>5, <1>6 DEF Expected, Upsert
<1>8. HasLast(new)
  <2> SUFFICES ASSUME NEW id \in WrittenIds(new) PROVE \E i : IsLast(new, id, i)
    BY DEF HasLast
  <2>1. CASE id = me
    BY <1>4, <2>1
  <2>2. CASE id # me
    <3>1. PICK i : IsLast(audit, id, i)
      BY <1>3, <2>2 DEF HasLast
    <3>2. IsLast(new, id, i)
      BY <1>2, <2>2, <3>1 DEF IsLast
    <3>. QED  BY <3>2
  <2>. QED  BY <2>1, <2>2
<1>. QED  BY <1>7, <1>8 DEF new

----------------------------------------------------------------------------
(* A database that verifies, and whose written records have a last write. *)
Sound(db) == IsDatabase(db) /\ Verified(db) /\ HasLast(db.audit)

LEMMA EmptySound == Sound(Empty)
<1>1. IsDatabase(Empty)
  BY DEF IsDatabase, Empty
<1>2. Len(<<>>) = 0 /\ 1 .. 0 = {}
  OBVIOUS
<1>3. WrittenIds(<<>>) = {}
  BY <1>2 DEF WrittenIds
<1>4. Chained(<<>>)
  BY <1>2 DEF Chained
<1>5. Expected(<<>>) = [id \in {} |-> None]
  BY <1>3 DEF Expected
<1>. QED  BY <1>1, <1>3, <1>4, <1>5 DEF Sound, Verified, Covered, HasLast, Empty

(* Store.put keeps a database sound. *)
LEMMA PutSound ==
  ASSUME NEW db, Sound(db), NEW id \in Ids, NEW row \in Rows,
         NEW actor \in Employers \cup {Operator}
  PROVE  Sound(Put(db, id, row, actor))
<1> DEFINE body == Body(actor, "write", id, row)
           new == Audited(db.audit, body)
<1>1. /\ body \in Bodies /\ body.digest = row /\ body.record = id /\ row # None
      /\ db.audit \in Seq(Events)
  BY ConstantsAssumption DEF Body, Bodies, Sound, IsDatabase
<1> HIDE DEF body
<1>2. new \in Seq(Events)
  BY <1>1, AuditAppends
<1>3. Chained(new)
  BY <1>1, ChainExtends DEF Sound, Verified
<1>4. Expected(new) = Upsert(db.records, id, row) /\ HasLast(new)
  BY <1>1, ExpectedWrite DEF Sound, Verified, Covered
<1>5. /\ DOMAIN Upsert(db.records, id, row) \subseteq Ids
      /\ Upsert(db.records, id, row) \in [DOMAIN Upsert(db.records, id, row) -> Rows]
  BY DEF Upsert, Sound, IsDatabase
<1>6. Put(db, id, row, actor) = [records |-> Upsert(db.records, id, row), audit |-> new]
  BY DEF Put, body
<1> HIDE DEF new
<1>. QED  BY <1>2, <1>3, <1>4, <1>5, <1>6 DEF Sound, IsDatabase, Verified, Covered

(* ... and so does the access event that ends dispatch. *)
LEMMA AccessSound ==
  ASSUME NEW db, Sound(db), NEW actor \in Employers \cup {Operator}
  PROVE  Sound([db EXCEPT !.audit = Audited(@, Body(actor, "access", None, None))])
<1> DEFINE body == Body(actor, "access", None, None)
           new == Audited(db.audit, body)
<1>1. body \in Bodies /\ body.digest = None /\ db.audit \in Seq(Events)
  BY DEF Body, Bodies, Sound, IsDatabase
<1> HIDE DEF body
<1>2. new \in Seq(Events)
  BY <1>1, AuditAppends
<1>3. Chained(new)
  BY <1>1, ChainExtends DEF Sound, Verified
<1>4. Expected(new) = db.records /\ HasLast(new)
  BY <1>1, ExpectedAccess DEF Sound, Verified, Covered
<1>5. [db EXCEPT !.audit = Audited(@, Body(actor, "access", None, None))]
        = [records |-> db.records, audit |-> new]
  BY DEF Sound, IsDatabase, body
<1> HIDE DEF new
<1>. QED  BY <1>2, <1>3, <1>4, <1>5 DEF Sound, IsDatabase, Verified, Covered

----------------------------------------------------------------------------
PCs == {"new"} \cup InFlight \cup Answers

(* The inductive invariant: the committed database verifies, and so does   *)
(* what every connection sees, between any two statements of a request.    *)
AllSound == Sound(disk) /\ \A r \in Requests : Sound(work[r])

(* Moving one worker to a place changes no other worker and no other field. *)
LEMMA GotoTypes ==
  ASSUME TypeOK, NEW r \in Requests, NEW pc \in PCs, Goto(r, pc)
  PROVE  /\ worker' \in [Requests -> Workers]
         /\ worker'[r].pc = pc
         /\ \A q \in Requests : q # r => worker'[q] = worker[q]
<1> DEFINE new == [worker[r] EXCEPT !.pc = pc]
<1>1. worker \in [Requests -> Workers] /\ worker[r] \in Workers
  BY DEF TypeOK
<1>2. new \in Workers /\ new.pc = pc
  BY <1>1 DEF Workers, PCs
<1>3. worker' = [worker EXCEPT ![r] = new]
  BY <1>1 DEF Goto
<1> HIDE DEF new
<1>. QED  BY <1>1, <1>2, <1>3

(* A rollback leaves the committed database alone and frees the lock. *)
LEMMA RollbackKeeps ==
  ASSUME TypeOK, AllSound, NEW r \in Requests, NEW answer \in Answers,
         worker[r].pc \in InTransaction, Rollback(r, answer)
  PROVE  TypeOK' /\ AllSound'
<1>1. /\ worker' \in [Requests -> Workers]
      /\ worker'[r].pc = answer
      /\ \A q \in Requests : q # r => worker'[q] = worker[q]
  BY GotoTypes DEF Rollback, PCs
<1>2. /\ lock = r /\ lock' = None /\ r # None
      /\ UNCHANGED <<up, crashes, disk, probe>>
      /\ DOMAIN work' = Requests
      /\ work'[r] = Empty /\ \A q \in Requests : q # r => work'[q] = work[q]
  BY ConstantsAssumption DEF Rollback, TypeOK
<1>3. answer \notin InTransaction
  BY DEF Answers, InTransaction
<1>4. IsDatabase(Empty)
  BY EmptySound DEF Sound
<1>5. AllSound'
  BY <1>2, EmptySound DEF AllSound
<1>9. ASSUME NEW q \in Requests
      PROVE  /\ worker'[q].pc \in InTransaction <=> lock' = q
             /\ IsDatabase(work'[q])
             /\ lock' # q => work'[q] = Empty
  <2>1. /\ worker[q].pc \in InTransaction <=> lock = q
        /\ IsDatabase(work[q]) /\ IsDatabase(disk)
        /\ lock # q => work[q] = Empty
    BY DEF TypeOK
  <2>2. CASE q = r
    BY <1>1, <1>2, <1>3, <1>4, <2>1, <2>2
  <2>3. CASE q # r
    BY <1>1, <1>2, <1>3, <1>4, <2>1, <2>3, ConstantsAssumption
  <2>. QED  BY <2>2, <2>3
<1>. QED  BY <1>1, <1>2, <1>3, <1>4, <1>5, <1>9 DEF TypeOK

(* Changing what the lock's holder sees, and where it is, keeps the types. *)
LEMMA WorkStep ==
  ASSUME TypeOK, AllSound, NEW r \in Requests, NEW db, Sound(db),
         worker[r].pc \in InTransaction, DOMAIN work' = DOMAIN work, work'[r] = db,
         \A q \in Requests : q # r => work'[q] = work[q],
         worker' \in [Requests -> Workers], worker'[r].pc \in InTransaction,
         \A q \in Requests : q # r => worker'[q] = worker[q],
         UNCHANGED <<up, crashes, disk, lock, probe>>
  PROVE  TypeOK' /\ AllSound'
<1>1. /\ lock = r
      /\ DOMAIN work' = Requests
      /\ work'[r] = db /\ \A q \in Requests : q # r => work'[q] = work[q]
  BY DEF TypeOK
<1>2. IsDatabase(db)
  BY DEF Sound
<1>3. AllSound'
  BY <1>1 DEF AllSound
<1>. QED  BY <1>1, <1>2, <1>3 DEF TypeOK

(* Steps outside a transaction change nothing but one worker's place. *)
LEMMA OutsideStep ==
  ASSUME TypeOK, NEW r \in Requests,
         worker[r].pc \notin InTransaction,
         worker' \in [Requests -> Workers], worker'[r].pc \notin InTransaction,
         \A q \in Requests : q # r => worker'[q] = worker[q],
         UNCHANGED <<up, crashes, disk, lock, work, probe>>
  PROVE  TypeOK' /\ (AllSound => AllSound')
BY DEF TypeOK, AllSound

(* Taking the lock on a database that verifies. *)
LEMMA BeginStep ==
  ASSUME TypeOK, AllSound, NEW r \in Requests, Begin(r)
  PROVE  TypeOK' /\ AllSound'
<1>1. /\ worker' \in [Requests -> Workers] /\ worker'[r].pc = "open"
      /\ \A q \in Requests : q # r => worker'[q] = worker[q]
  BY GotoTypes DEF Begin, PCs, InFlight, InTransaction
<1>2. /\ lock = None /\ lock' = r /\ r # None
      /\ UNCHANGED <<up, crashes, disk, probe>>
      /\ DOMAIN work' = Requests
      /\ work'[r] = disk /\ \A q \in Requests : q # r => work'[q] = work[q]
  BY ConstantsAssumption DEF Begin, TypeOK
<1>3. AllSound'
  BY <1>2 DEF AllSound
<1>4. "open" \in InTransaction
  BY DEF InTransaction
<1>9. ASSUME NEW q \in Requests
      PROVE  /\ worker'[q].pc \in InTransaction <=> lock' = q
             /\ IsDatabase(work'[q])
             /\ lock' # q => work'[q] = Empty
  <2>1. /\ worker[q].pc \in InTransaction <=> lock = q
        /\ IsDatabase(work[q]) /\ IsDatabase(disk)
        /\ lock # q => work[q] = Empty
    BY DEF TypeOK
  <2>2. CASE q = r
    BY <1>1, <1>2, <1>3, <1>4, <2>1, <2>2
  <2>3. CASE q # r
    BY <1>1, <1>2, <1>3, <1>4, <2>1, <2>3, ConstantsAssumption
  <2>. QED  BY <2>2, <2>3
<1>. QED  BY <1>1, <1>2, <1>3, <1>4, <1>9 DEF TypeOK

(* A commit publishes what the holder of the lock sees. *)
LEMMA CommitStep ==
  ASSUME TypeOK, AllSound, NEW r \in Requests, Commit(r)
  PROVE  TypeOK' /\ AllSound'
<1>1. /\ worker' \in [Requests -> Workers] /\ worker'[r].pc = "committed"
      /\ \A q \in Requests : q # r => worker'[q] = worker[q]
  BY GotoTypes DEF Commit, PCs, InFlight
<1>2. worker[r].pc \in InTransaction /\ "committed" \notin InTransaction
  BY DEF Commit, InTransaction
<1>3. /\ lock = r /\ lock' = None /\ r # None
      /\ UNCHANGED <<up, crashes, probe>>
      /\ disk' = work[r]
      /\ DOMAIN work' = Requests
      /\ work'[r] = Empty /\ \A q \in Requests : q # r => work'[q] = work[q]
  BY <1>2, ConstantsAssumption DEF Commit, TypeOK
<1>4. AllSound' /\ IsDatabase(Empty)
  BY <1>3, EmptySound DEF AllSound, Sound
<1>9. ASSUME NEW q \in Requests
      PROVE  /\ worker'[q].pc \in InTransaction <=> lock' = q
             /\ IsDatabase(work'[q])
             /\ lock' # q => work'[q] = Empty
  <2>1. /\ worker[q].pc \in InTransaction <=> lock = q
        /\ IsDatabase(work[q]) /\ IsDatabase(disk)
        /\ lock # q => work[q] = Empty
    BY DEF TypeOK
  <2>2. CASE q = r
    BY <1>1, <1>2, <1>3, <1>4, <2>1, <2>2
  <2>3. CASE q # r
    BY <1>1, <1>2, <1>3, <1>4, <2>1, <2>3, ConstantsAssumption
  <2>. QED  BY <2>2, <2>3
<1>. QED  BY <1>1, <1>2, <1>3, <1>4, <1>9 DEF TypeOK

(* Dying loses every connection and keeps the committed database. *)
LEMMA CrashStep ==
  ASSUME TypeOK, Crash
  PROVE  TypeOK' /\ (AllSound => AllSound')
<1>1. \A r \in Requests : work'[r] = Empty
  BY DEF Crash
<1>2. (AllSound => AllSound') /\ IsDatabase(Empty)
  BY <1>1, EmptySound DEF Crash, AllSound, Sound
<1>3. ASSUME NEW r \in Requests
      PROVE  worker'[r] \in Workers /\ worker'[r].pc \notin InTransaction
  <2>1. worker[r] \in Workers
    BY DEF TypeOK
  <2>2. [worker[r] EXCEPT !.pc = "lost"] \in Workers
        /\ [worker[r] EXCEPT !.pc = "lost"].pc = "lost"
    BY <2>1 DEF Workers, Answers
  <2>3. "lost" \notin InTransaction
    BY DEF InTransaction
  <2>4. CASE worker[r].pc \in InFlight
    <3>1. worker'[r] = [worker[r] EXCEPT !.pc = "lost"]
      BY <2>4 DEF Crash
    <3>. QED  BY <2>2, <2>3, <3>1
  <2>5. CASE worker[r].pc \notin InFlight
    <3>1. worker'[r] = worker[r]
      BY <2>5 DEF Crash
    <3>. QED  BY <2>1, <2>5, <3>1 DEF InFlight
  <2>. QED  BY <2>4, <2>5
<1>4. worker' \in [Requests -> Workers]
  <2>1. worker' = [r \in Requests |-> worker'[r]]
    BY DEF Crash
  <2>. QED  BY <1>3, <2>1
<1>5. probe' \in [Probes -> [pc: {"new", "reading"} \cup Answers, audit: Seq(Events),
                            sound: BOOLEAN]]
  <2>1. ASSUME NEW p \in Probes
        PROVE  probe'[p] \in [pc: {"new", "reading"} \cup Answers, audit: Seq(Events),
                             sound: BOOLEAN]
    <3>1. probe[p] \in [pc: {"new", "reading"} \cup Answers, audit: Seq(Events), sound: BOOLEAN]
      BY DEF TypeOK
    <3>2. [probe[p] EXCEPT !.pc = "lost", !.audit = <<>>]
            \in [pc: {"new", "reading"} \cup Answers, audit: Seq(Events), sound: BOOLEAN]
      <4>1. <<>> \in Seq(Events) /\ "lost" \in Answers
        BY DEF Answers
      <4>. QED  BY <3>1, <4>1
    <3>. QED  BY <3>1, <3>2 DEF Crash
  <2>2. probe' = [p \in Probes |-> probe'[p]]
    BY DEF Crash
  <2>. QED  BY <2>1, <2>2
<1>6. /\ up' \in BOOLEAN /\ crashes' \in 0 .. MaxCrashes /\ lock' = None
      /\ DOMAIN work' = Requests /\ disk' = disk
  <2>1. crashes \in 0 .. MaxCrashes /\ MaxCrashes \in Nat
    BY ConstantsAssumption DEF TypeOK
  <2>2. crashes' \in 0 .. MaxCrashes
    <3>1. crashes < MaxCrashes /\ crashes' = crashes + 1
      BY DEF Crash
    <3>. QED  BY <2>1, <3>1
  <2>3. up' = FALSE /\ lock' = None /\ disk' = disk /\ work' = [r \in Requests |-> Empty]
    BY DEF Crash
  <2>4. DOMAIN work' = Requests /\ up' \in BOOLEAN
    BY <2>3
  <2>. QED  BY <2>2, <2>3, <2>4
<1>7. IsDatabase(disk')
  BY <1>6 DEF TypeOK
<1>8. \A r \in Requests : lock' # r
  BY <1>6, ConstantsAssumption
<1>. QED  BY <1>1, <1>2, <1>3, <1>4, <1>5, <1>6, <1>7, <1>8 DEF TypeOK

(* A probe that moves. *)
LEMMA ProbeStep ==
  ASSUME TypeOK, NEW p \in Probes, ProbeAudit(p) \/ ProbeRecords(p)
  PROVE  TypeOK' /\ (AllSound => AllSound')
<1> DEFINE T == [pc: {"new", "reading"} \cup Answers, audit: Seq(Events), sound: BOOLEAN]
<1>1. disk.audit \in Seq(Events) /\ <<>> \in Seq(Events) /\ Verified(disk) \in BOOLEAN
  BY DEF TypeOK, IsDatabase, Verified, Chained, Covered
<1>2. probe \in [Probes -> T]
  BY DEF TypeOK
<1>3. \E row \in T : probe' = [probe EXCEPT ![p] = row]
  <2>1. CASE ProbeAudit(p)
    <3> DEFINE a == [pc |-> "reading", audit |-> disk.audit, sound |-> Verified(disk)]
               b == [pc |-> "integrity_failure", audit |-> <<>>, sound |-> Verified(disk)]
    <3>1. a \in T /\ b \in T
      BY <1>1 DEF Answers
    <3>2. \/ probe' = [probe EXCEPT ![p] = a]
          \/ probe' = [probe EXCEPT ![p] = b]
      BY <2>1 DEF ProbeAudit
    <3> HIDE DEF a, b
    <3>. QED  BY <3>1, <3>2
  <2>2. CASE ProbeRecords(p)
    <3>1. probe[p] \in T
      BY <1>2
    <3>2. PICK pc \in {"ok", "integrity_failure"} :
            probe' = [probe EXCEPT ![p].audit = <<>>, ![p].pc = pc]
      BY <2>2 DEF ProbeRecords
    <3>3. probe' = [probe EXCEPT ![p] = [probe[p] EXCEPT !.audit = <<>>, !.pc = pc]]
      BY <1>2, <3>2
    <3>4. [probe[p] EXCEPT !.audit = <<>>, !.pc = pc] \in T
      BY <1>1, <3>1 DEF Answers
    <3>. QED  BY <3>3, <3>4
  <2>. QED  BY <2>1, <2>2
<1>4. probe' \in [Probes -> T]
  BY <1>2, <1>3
<1>5. UNCHANGED <<up, crashes, disk, lock, work, worker>>
  BY DEF ProbeAudit, ProbeRecords
<1>. QED  BY <1>4, <1>5 DEF TypeOK, AllSound

(* Steps of a request that has no transaction. *)
IdleStep(r) == BeginUnverified(r) \/ TimeOut(r) \/ Respond(r)

LEMMA IdleKeeps ==
  ASSUME TypeOK, NEW r \in Requests, IdleStep(r)
  PROVE  TypeOK' /\ (AllSound => AllSound')
<1>1. CASE BeginUnverified(r)
  BY <1>1, OutsideStep, GotoTypes DEF BeginUnverified, PCs, Answers, InTransaction
<1>2. CASE TimeOut(r)
  BY <1>2, OutsideStep, GotoTypes DEF TimeOut, PCs, Answers, InTransaction
<1>3. CASE Respond(r)
  <2>1. /\ worker[r].pc \notin InTransaction
        /\ UNCHANGED <<up, crashes, disk, lock, work, probe>>
    BY <1>3 DEF Respond, InTransaction
  <2>2. CASE Goto(r, "ok")
    BY <2>1, <2>2, OutsideStep, GotoTypes DEF PCs, Answers, InTransaction
  <2>3. CASE worker' = [worker EXCEPT ![r].pc = "waiting", ![r].op = "read"]
    <3> DEFINE new == [worker[r] EXCEPT !.pc = "waiting", !.op = "read"]
    <3>1. worker \in [Requests -> Workers] /\ worker[r] \in Workers
      BY DEF TypeOK
    <3>2. new \in Workers /\ new.pc = "waiting"
      BY <3>1 DEF Workers, InFlight
    <3>3. worker' = [worker EXCEPT ![r] = new]
      BY <2>3, <3>1
    <3> HIDE DEF new
    <3>4. /\ worker' \in [Requests -> Workers] /\ worker'[r].pc = "waiting"
          /\ \A q \in Requests : q # r => worker'[q] = worker[q]
      BY <3>1, <3>2, <3>3
    <3>5. "waiting" \notin InTransaction
      BY DEF InTransaction
    <3>. QED  BY <2>1, <3>4, <3>5, OutsideStep
  <2>. QED  BY <1>3, <2>2, <2>3 DEF Respond
<1>. QED  BY <1>1, <1>2, <1>3 DEF IdleStep

(* Every step of a request keeps the invariant. *)
LEMMA RequestStep ==
  ASSUME TypeOK, AllSound, NEW r \in Requests, Step(r)
  PROVE  TypeOK' /\ AllSound'
<1>0. /\ worker \in [Requests -> Workers] /\ worker[r] \in Workers
      /\ Sound(work[r]) /\ DOMAIN work = Requests
  BY DEF TypeOK, AllSound
<1>1. CASE Begin(r)
  BY <1>1, BeginStep
<1>2. CASE IdleStep(r)
  BY <1>2, IdleKeeps
<1>4. CASE Authenticate(r)
  <2>1. worker[r].pc \in InTransaction /\ {"authenticated"} \subseteq InTransaction \cap PCs
        /\ "unauthorized" \in Answers
    BY <1>4 DEF Authenticate, InTransaction, PCs, InFlight, Answers
  <2>2. CASE Rollback(r, "unauthorized")
    BY <2>1, <2>2, RollbackKeeps
  <2>3. CASE Goto(r, "authenticated") /\ UNCHANGED <<up, crashes, disk, lock, work, probe>>
    <3>1. work' = work
      BY <2>3
    <3>2. "authenticated" \in PCs /\ "authenticated" \in InTransaction
      BY <2>1
    <3>3. /\ worker' \in [Requests -> Workers] /\ worker'[r].pc = "authenticated"
          /\ \A q \in Requests : q # r => worker'[q] = worker[q]
      BY <2>3, <3>2, GotoTypes
    <3>. QED  BY <1>0, <2>1, <2>3, <3>1, <3>2, <3>3, WorkStep
  <2>. QED  BY <1>4, <2>2, <2>3 DEF Authenticate
<1>5. CASE Abort(r)
  BY <1>5, RollbackKeeps DEF Abort, Answers
<1>6. CASE Write(r)
  <2>1. PICK parties \in Parties, credential \in Employers \cup {None} :
          /\ MayWrite(r, parties, credential)
          /\ work' = [work EXCEPT ![r] =
               Put(@, worker[r].target, Row(parties, credential, @), worker[r].token)]
    BY <1>6 DEF Write
  <2> DEFINE row == Row(parties, credential, work[r])
             db == Put(work[r], worker[r].target, row, worker[r].token)
  <2>2. worker[r].target \in Ids
    BY <2>1 DEF MayWrite, Ids
  <2>3. row \in Rows
    BY <1>0 DEF Row, Rows, Sound, IsDatabase
  <2>4. worker[r].token \in Employers \cup {Operator}
    BY <1>0 DEF Workers
  <2>5. work' = [work EXCEPT ![r] = db]
    BY <1>0, <2>1
  <2> HIDE DEF row
  <2>6. Sound(db)
    BY <1>0, <2>2, <2>3, <2>4, PutSound
  <2> HIDE DEF db
  <2>7. worker[r].pc \in InTransaction /\ "written" \in InTransaction \cap PCs /\ Goto(r, "written")
        /\ UNCHANGED <<up, crashes, disk, lock, probe>>
    BY <1>6 DEF Write, InTransaction, PCs, InFlight
  <2>8. /\ worker' \in [Requests -> Workers] /\ worker'[r].pc = "written"
        /\ \A q \in Requests : q # r => worker'[q] = worker[q]
    BY <2>7, GotoTypes
  <2>9. /\ DOMAIN work' = DOMAIN work /\ work'[r] = db
        /\ \A q \in Requests : q # r => work'[q] = work[q]
    BY <1>0, <2>5
  <2>. QED  BY <2>6, <2>7, <2>8, <2>9, WorkStep
<1>7. CASE AuditAccess(r)
  <2> DEFINE db == [work[r] EXCEPT !.audit =
                      Audited(@, Body(worker[r].token, "access", None, None))]
             new == [worker[r] EXCEPT !.pc = "audited", !.receipt = Len(work[r].audit) + 1]
  <2>1. Sound(db)
    <3>1. worker[r].token \in Employers \cup {Operator}
      BY <1>0 DEF Workers
    <3>. QED  BY <1>0, <3>1, AccessSound
  <2>2. work' = [work EXCEPT ![r] = db]
    BY <1>0, <1>7 DEF AuditAccess
  <2>3. worker' = [worker EXCEPT ![r] = new]
    BY <1>0, <1>7 DEF AuditAccess
  <2>4. new \in Workers /\ new.pc = "audited"
    <3>1. Len(work[r].audit) + 1 \in Nat
      BY <1>0 DEF Sound, IsDatabase
    <3>. QED  BY <1>0, <3>1 DEF Workers, InFlight, InTransaction
  <2>5. /\ worker[r].pc \in InTransaction /\ "audited" \in InTransaction
        /\ UNCHANGED <<up, crashes, disk, lock, probe>>
    BY <1>7 DEF AuditAccess, InTransaction
  <2> HIDE DEF db, new
  <2>6. /\ worker' \in [Requests -> Workers] /\ worker'[r].pc = "audited"
        /\ \A q \in Requests : q # r => worker'[q] = worker[q]
    BY <1>0, <2>3, <2>4
  <2>7. /\ DOMAIN work' = DOMAIN work /\ work'[r] = db
        /\ \A q \in Requests : q # r => work'[q] = work[q]
    BY <1>0, <2>2
  <2>. QED  BY <2>1, <2>5, <2>6, <2>7, WorkStep
<1>8. CASE Commit(r)
  BY <1>8, CommitStep
<1>. QED  BY <1>1, <1>2, <1>4, <1>5, <1>6, <1>7, <1>8 DEF Step, IdleStep

LEMMA ArriveStep ==
  ASSUME TypeOK, NEW r \in Requests, NEW op \in Writes \cup {"read", "tool"},
         NEW token \in Employers \cup {Operator}, NEW target \in Ids \cup {None},
         Arrive(r, op, token, target)
  PROVE  TypeOK' /\ (AllSound => AllSound')
<1> DEFINE new == [worker[r] EXCEPT !.pc = "waiting", !.op = op, !.token = token,
                                    !.target = target]
<1>1. worker \in [Requests -> Workers] /\ worker[r] \in Workers
  BY DEF TypeOK
<1>2. new \in Workers /\ new.pc = "waiting"
  BY <1>1 DEF Workers, InFlight
<1>3. worker' = [worker EXCEPT ![r] = new]
  BY <1>1 DEF Arrive
<1> HIDE DEF new
<1>4. /\ worker' \in [Requests -> Workers] /\ worker'[r].pc = "waiting"
      /\ \A q \in Requests : q # r => worker'[q] = worker[q]
  BY <1>1, <1>2, <1>3
<1>5. /\ worker[r].pc \notin InTransaction /\ "waiting" \notin InTransaction
      /\ UNCHANGED <<up, crashes, disk, lock, work, probe>>
  BY DEF Arrive, InTransaction
<1>. QED  BY <1>4, <1>5, OutsideStep

LEMMA InvariantStep == TypeOK /\ AllSound /\ [Next]_vars => TypeOK' /\ AllSound'
<1> SUFFICES ASSUME TypeOK, AllSound, [Next]_vars PROVE TypeOK' /\ AllSound'
  OBVIOUS
<1>1. CASE UNCHANGED vars
  BY <1>1 DEF vars, TypeOK, AllSound
<1>2. CASE Restart
  BY <1>2 DEF Restart, TypeOK, AllSound
<1>. QED  BY <1>1, <1>2, RequestStep, ArriveStep, ProbeStep, CrashStep DEF Next, Ids

LEMMA InvariantStart == Init => TypeOK /\ AllSound
<1> SUFFICES ASSUME Init PROVE TypeOK /\ AllSound
  OBVIOUS
<1>1. AllSound
  BY EmptySound DEF Init, AllSound
<1>2. worker \in [Requests -> Workers] /\ \A r \in Requests : worker[r].pc \notin InTransaction
  BY DEF Init, Workers, InTransaction, Writes
<1>3. probe \in [Probes -> [pc: {"new", "reading"} \cup Answers, audit: Seq(Events),
                           sound: BOOLEAN]]
  <2>1. <<>> \in Seq(Events)
    OBVIOUS
  <2>. QED  BY <2>1 DEF Init
<1>4. IsDatabase(disk) /\ \A r \in Requests : IsDatabase(work[r])
  BY <1>1 DEF AllSound, Sound
<1>5. \A r \in Requests : lock # r /\ work[r] = Empty
  BY ConstantsAssumption DEF Init
<1>6. up \in BOOLEAN /\ crashes \in 0 .. MaxCrashes /\ lock = None /\ DOMAIN work = Requests
  <2>1. MaxCrashes \in Nat
    BY ConstantsAssumption
  <2>. QED  BY <2>1 DEF Init
<1>. QED  BY <1>1, <1>2, <1>3, <1>4, <1>5, <1>6 DEF TypeOK

(* Only the holder of the write lock is in a transaction, and every        *)
(* database and row keeps its shape (Store.transaction).                   *)
THEOREM StoreTypeCorrect == Spec => []TypeOK
BY InvariantStart, InvariantStep, PTL DEF Spec

(* The committed database always passes verification: with any number of   *)
(* concurrent requests, aborted at any statement, and any crashes.         *)
THEOREM CommittedAlwaysVerifies == Spec => []CommittedVerifies
<1>1. AllSound => CommittedVerifies
  BY DEF AllSound, Sound, CommittedVerifies
<1>. QED  BY <1>1, InvariantStart, InvariantStep, PTL DEF Spec
----------------------------------------------------------------------------
(* An event of the audit table takes the employer's credential away. *)
Revokes(body, employer) ==
  body.digest # None /\ body.record = employer /\ body.digest.credential = None

Revoked(audit, employer) == \E i \in 1 .. Len(audit) : Revokes(audit[i].body, employer)

(* A record names no credential but its own. *)
OwnRows(db) == \A id \in DOMAIN db.records : db.records[id].credential \in {None, id}

(* A revoked employer is on record without a credential. *)
RevokedRows(db) ==
  \A e \in Employers : Revoked(db.audit, e) =>
    e \in DOMAIN db.records /\ db.records[e].credential = None

(* NothingAfterRevocation, of any audit table. *)
NothingAfter(audit) ==
  \A i, j \in 1 .. Len(audit) : \A e \in Employers :
    i < j /\ Revokes(audit[i].body, e) => audit[j].body.actor # e

DbOK(db) == OwnRows(db) /\ RevokedRows(db) /\ NothingAfter(db.audit)

(* What MayWrite allows, of any database. *)
Permitted(db, actor, id, parties, credential) ==
  \/ /\ actor = Operator /\ id \in Employers /\ parties = Alone(id)
     /\ \/ credential = id /\ id \notin DOMAIN db.records
        \/ credential = None /\ id \in DOMAIN db.records
  \/ /\ id \in SignalIds /\ credential = None
     /\ \/ /\ id \notin DOMAIN db.records /\ actor = parties.tenant
           /\ parties.receiver # None =>
                /\ parties.receiver # actor /\ parties.receiver \in DOMAIN db.records
                /\ db.records[parties.receiver].credential # None
        \/ /\ id \in DOMAIN db.records /\ parties = db.records[id].parties
           /\ actor \in Writers(parties)

AccessBody(actor) == Body(actor, "access", None, None)

(* The database after a request that reads, and after one that writes. *)
Consulted(db, actor) == [db EXCEPT !.audit = Audited(@, AccessBody(actor))]

WrittenTo(db, actor, id, parties, credential) ==
  Put(db, id, Row(parties, credential, db), actor)

(* What a request has written so far is one permitted change of what is    *)
(* committed: nobody else commits until it ends.                           *)
HasWritten(r) ==
  \E parties \in Parties, credential \in Employers \cup {None} :
    /\ Permitted(disk, worker[r].token, worker[r].target, parties, credential)
    /\ work[r] = WrittenTo(disk, worker[r].token, worker[r].target, parties, credential)

IsWhole(r) ==
  \/ work[r] = Consulted(disk, worker[r].token)
  \/ \E parties \in Parties, credential \in Employers \cup {None} :
       /\ Permitted(disk, worker[r].token, worker[r].target, parties, credential)
       /\ work[r] = Consulted(WrittenTo(disk, worker[r].token, worker[r].target, parties,
                                        credential), worker[r].token)

Done == {"committed", "ok"}

(* The access event of an answered request. *)
HasReceipt(r) ==
  /\ worker[r].receipt \in 1 .. Len(disk.audit)
  /\ disk.audit[worker[r].receipt].body = AccessBody(worker[r].token)

PathOK(r) ==
  /\ worker[r].pc = "open" => work[r] = disk
  /\ worker[r].pc = "authenticated" => work[r] = disk
  /\ worker[r].pc = "written" => HasWritten(r)
  /\ worker[r].pc = "audited" => IsWhole(r) /\ worker[r].receipt = Len(work[r].audit)
  /\ worker[r].pc \in {"authenticated", "written", "audited"} =>
       Authentic(disk, worker[r].token)
  /\ worker[r].pc \in Done => HasReceipt(r)

Distinct ==
  \A r, q \in Requests :
    r # q /\ worker[r].pc \in Done /\ worker[q].pc \in Done =>
      worker[r].receipt # worker[q].receipt

RInv == TypeOK /\ AllSound /\ DbOK(disk) /\ Distinct /\ \A r \in Requests : PathOK(r)

----------------------------------------------------------------------------
(* What one more event does to the revocations. *)
LEMMA RevokedAppends ==
  ASSUME NEW audit \in Seq(Events), NEW body \in Bodies, NEW e
  PROVE  Revoked(Audited(audit, body), e) <=> Revoked(audit, e) \/ Revokes(body, e)
<1> DEFINE new == Audited(audit, body)
           n == Len(audit)
<1>1. /\ n \in Nat /\ Len(new) = n + 1 /\ new[n + 1].body = body
      /\ \A i \in 1 .. n : new[i] = audit[i]
  BY AuditAppends
<1>2. 1 .. n + 1 = (1 .. n) \cup {n + 1}
  BY <1>1
<1> HIDE DEF new
<1>3. Revoked(new, e) <=> Revoked(audit, e) \/ Revokes(body, e)
  BY <1>1, <1>2 DEF Revoked
<1> QED
  BY <1>3 DEF new

(* Who is not revoked may act. *)
LEMMA NothingAfterAppends ==
  ASSUME NEW audit \in Seq(Events), NEW body \in Bodies, NothingAfter(audit),
         body.actor \in Employers => ~Revoked(audit, body.actor)
  PROVE  NothingAfter(Audited(audit, body))
<1> DEFINE new == Audited(audit, body)
           n == Len(audit)
<1>1. /\ n \in Nat /\ Len(new) = n + 1 /\ new[n + 1].body = body
      /\ \A i \in 1 .. n : new[i] = audit[i]
  BY AuditAppends
<1> HIDE DEF new
<1>2. ASSUME NEW i \in 1 .. n + 1, NEW j \in 1 .. n + 1, NEW e \in Employers,
             i < j, Revokes(new[i].body, e)
      PROVE  new[j].body.actor # e
  <2>1. i \in 1 .. n /\ new[i] = audit[i]
    BY <1>1, <1>2
  <2>2. CASE j \in 1 .. n
    <3>1. new[j] = audit[j]
      BY <1>1, <2>2
    <3> QED
      BY <1>2, <2>1, <2>2, <3>1 DEF NothingAfter
  <2>3. CASE j = n + 1
    <3>1. Revoked(audit, e)
      BY <1>2, <2>1 DEF Revoked
    <3> QED
      BY <1>1, <2>3, <3>1
  <2> QED
    BY <1>1, <2>2, <2>3
<1>3. NothingAfter(new)
  BY <1>1, <1>2 DEF NothingAfter
<1> QED
  BY <1>3 DEF new

(* Whom authenticate lets in has not been revoked.                         *)
LEMMA AuthenticActive ==
  ASSUME NEW db, Sound(db), DbOK(db), NEW actor \in Employers, Authentic(db, actor)
  PROVE  /\ actor \in DOMAIN db.records /\ db.records[actor].credential = actor
         /\ ~Revoked(db.audit, actor)
<1>1. PICK id \in DOMAIN db.records : db.records[id].credential = actor
  BY ConstantsAssumption DEF Authentic
<1>2. id = actor
  BY <1>1, ConstantsAssumption DEF DbOK, OwnRows
<1> QED
  BY <1>1, <1>2, ConstantsAssumption DEF DbOK, RevokedRows

LEMMA AccessFacts ==
  ASSUME NEW actor \in Employers \cup {Operator}
  PROVE  /\ AccessBody(actor) \in Bodies /\ AccessBody(actor).digest = None
         /\ AccessBody(actor).actor = actor
         /\ \A e : ~Revokes(AccessBody(actor), e)
BY DEF AccessBody, Body, Bodies, Revokes

LEMMA ConsultedFacts ==
  ASSUME NEW db, Sound(db), NEW actor \in Employers \cup {Operator}
  PROVE  /\ Sound(Consulted(db, actor))
         /\ Consulted(db, actor).records = db.records
         /\ Consulted(db, actor).audit = Audited(db.audit, AccessBody(actor))
<1>1. Sound(Consulted(db, actor))
  BY AccessSound DEF Consulted, AccessBody
<1> QED
  BY <1>1 DEF Consulted, Sound, IsDatabase

LEMMA ConsultedOK ==
  ASSUME NEW db, Sound(db), DbOK(db), NEW actor \in Employers \cup {Operator},
         actor \in Employers => ~Revoked(db.audit, actor)
  PROVE  DbOK(Consulted(db, actor))
<1> DEFINE new == Consulted(db, actor)
           body == AccessBody(actor)
<1>1. /\ new.records = db.records /\ new.audit = Audited(db.audit, body)
      /\ db.audit \in Seq(Events)
  BY ConsultedFacts DEF Sound, IsDatabase
<1>2. /\ body \in Bodies /\ body.actor = actor
      /\ \A e : ~Revokes(body, e)
  BY AccessFacts
<1> HIDE DEF new, body
<1>3. OwnRows(new)
  BY <1>1 DEF DbOK, OwnRows
<1>4. RevokedRows(new)
  <2>1. \A e : Revoked(new.audit, e) <=> Revoked(db.audit, e)
    BY <1>1, <1>2, RevokedAppends
  <2> QED
    BY <1>1, <2>1 DEF DbOK, RevokedRows
<1>5. NothingAfter(new.audit)
  BY <1>1, <1>2, NothingAfterAppends DEF DbOK
<1> QED
  BY <1>3, <1>4, <1>5 DEF DbOK, new

WriteBody(db, actor, id, parties, credential) ==
  Body(actor, "write", id, Row(parties, credential, db))

LEMMA WrittenFacts ==
  ASSUME NEW db, NEW actor, NEW id, NEW parties, NEW credential,
         Sound(db), actor \in Employers \cup {Operator}, id \in Ids,
         parties \in Parties, credential \in Employers \cup {None}
  PROVE  /\ Sound(WrittenTo(db, actor, id, parties, credential))
         /\ Row(parties, credential, db) # None
         /\ Row(parties, credential, db).parties = parties
         /\ Row(parties, credential, db).credential = credential
         /\ WriteBody(db, actor, id, parties, credential) \in Bodies
         /\ WrittenTo(db, actor, id, parties, credential).records =
              Upsert(db.records, id, Row(parties, credential, db))
         /\ WrittenTo(db, actor, id, parties, credential).audit =
              Audited(db.audit, WriteBody(db, actor, id, parties, credential))
<1> DEFINE row == Row(parties, credential, db)
<1>1. row \in Rows /\ row.parties = parties /\ row.credential = credential
  BY DEF Row, Rows, Sound, IsDatabase
<1> HIDE DEF row
<1>2. Sound(WrittenTo(db, actor, id, parties, credential))
  BY <1>1, PutSound DEF WrittenTo, row
<1>3. row # None /\ WriteBody(db, actor, id, parties, credential) \in Bodies
  BY <1>1, ConstantsAssumption DEF WriteBody, Body, Bodies, row
<1> QED
  BY <1>1, <1>2, <1>3 DEF WrittenTo, Put, WriteBody, row

LEMMA WrittenOK ==
  ASSUME NEW db, Sound(db), DbOK(db), NEW actor \in Employers \cup {Operator}, NEW id \in Ids,
         NEW parties \in Parties, NEW credential \in Employers \cup {None},
         Permitted(db, actor, id, parties, credential),
         actor \in Employers => ~Revoked(db.audit, actor)
  PROVE  /\ DbOK(WrittenTo(db, actor, id, parties, credential))
         /\ actor \in Employers =>
              ~Revoked(WrittenTo(db, actor, id, parties, credential).audit, actor)
<1> DEFINE row == Row(parties, credential, db)
           body == WriteBody(db, actor, id, parties, credential)
           new == WrittenTo(db, actor, id, parties, credential)
<1>1. /\ row # None /\ row.parties = parties /\ row.credential = credential
      /\ body \in Bodies
      /\ new.records = Upsert(db.records, id, row)
      /\ new.audit = Audited(db.audit, body)
  BY WrittenFacts
<1>2. body.actor = actor /\ body.record = id /\ body.digest = row
  BY DEF WriteBody, Body
<1>9. db.audit \in Seq(Events)
  BY DEF Sound, IsDatabase
<1> HIDE DEF row, body, new
<1>3. /\ DOMAIN new.records = DOMAIN db.records \cup {id}
      /\ new.records[id] = row
      /\ \A x \in DOMAIN db.records : x # id => new.records[x] = db.records[x]
  BY <1>1 DEF Upsert
<1>4. OwnRows(new)
  <2> SUFFICES ASSUME NEW x \in DOMAIN new.records
               PROVE  new.records[x].credential \in {None, x}
    BY DEF OwnRows
  <2>1. CASE x = id
    BY <1>1, <1>3, <2>1, ConstantsAssumption DEF Permitted
  <2>2. CASE x # id
    BY <1>3, <2>2 DEF DbOK, OwnRows
  <2> QED
    BY <2>1, <2>2
<1>5. \A e \in Employers :
        Revoked(new.audit, e) <=> Revoked(db.audit, e) \/ (id = e /\ credential = None)
  <2>1. \A e : Revoked(new.audit, e) <=> Revoked(db.audit, e) \/ Revokes(body, e)
    BY <1>1, <1>9, RevokedAppends
  <2>2. \A e : Revokes(body, e) <=> id = e /\ credential = None
    BY <1>1, <1>2 DEF Revokes
  <2> QED
    BY <2>1, <2>2
<1>6. RevokedRows(new)
  <2> SUFFICES ASSUME NEW e \in Employers, Revoked(new.audit, e)
               PROVE  e \in DOMAIN new.records /\ new.records[e].credential = None
    BY DEF RevokedRows
  <2>1. CASE id = e
    <3>1. Revoked(db.audit, e) => e \in DOMAIN db.records
      BY DEF DbOK, RevokedRows
    <3>2. credential = None
      BY <1>5, <2>1, <3>1, ConstantsAssumption DEF Permitted
    <3> QED
      BY <1>1, <1>3, <2>1, <3>2
  <2>2. CASE id # e
    BY <1>3, <1>5, <2>2 DEF DbOK, RevokedRows
  <2> QED
    BY <2>1, <2>2
<1>7. NothingAfter(new.audit)
  BY <1>1, <1>2, <1>9, NothingAfterAppends DEF DbOK
<1>8. actor \in Employers => ~Revoked(new.audit, actor)
  <2>1. actor \in Employers => id \in SignalIds
    BY ConstantsAssumption DEF Permitted
  <2> QED
    BY <1>5, <2>1, ConstantsAssumption
<1> QED
  BY <1>4, <1>6, <1>7, <1>8 DEF DbOK, new

----------------------------------------------------------------------------
LEMMA WorkerFacts ==
  ASSUME TypeOK, NEW r \in Requests
  PROVE  /\ worker[r] \in Workers
         /\ worker[r].token \in Employers \cup {Operator}
         /\ worker[r].target \in Ids \cup {None} /\ worker[r].receipt \in Nat
         /\ worker[r].pc \in InTransaction <=> lock = r
         /\ None # r
<1>1. worker[r] \in Workers /\ (worker[r].pc \in InTransaction <=> lock = r)
  BY DEF TypeOK
<1> QED
  BY <1>1, ConstantsAssumption DEF Workers

(* What a request is about to commit: what is committed, and more of it.   *)
LEMMA WholeFacts ==
  ASSUME TypeOK, AllSound, DbOK(disk), NEW r \in Requests,
         IsWhole(r), Authentic(disk, worker[r].token)
  PROVE  /\ DbOK(work[r])
         /\ Len(disk.audit) \in Nat /\ Len(work[r].audit) \in Nat
         /\ Len(disk.audit) < Len(work[r].audit)
         /\ \A i \in 1 .. Len(disk.audit) : work[r].audit[i] = disk.audit[i]
         /\ work[r].audit[Len(work[r].audit)].body = AccessBody(worker[r].token)
<1> DEFINE actor == worker[r].token
           id == worker[r].target
           n == Len(disk.audit)
<1>1. /\ actor \in Employers \cup {Operator} /\ Sound(disk)
      /\ disk.audit \in Seq(Events) /\ n \in Nat
  BY WorkerFacts DEF AllSound, Sound, IsDatabase
<1>2. actor \in Employers => ~Revoked(disk.audit, actor)
  BY <1>1, AuthenticActive
<1> HIDE DEF actor, id
<1>3. ASSUME NEW db, Sound(db), DbOK(db), actor \in Employers => ~Revoked(db.audit, actor)
      PROVE  LET new == Consulted(db, actor)
             IN  /\ DbOK(new) /\ Len(db.audit) \in Nat /\ Len(new.audit) = Len(db.audit) + 1
                 /\ \A i \in 1 .. Len(db.audit) : new.audit[i] = db.audit[i]
                 /\ new.audit[Len(new.audit)].body = AccessBody(actor)
  <2>1. DbOK(Consulted(db, actor))
    BY <1>1, <1>3, ConsultedOK
  <2>2. /\ db.audit \in Seq(Events) /\ AccessBody(actor) \in Bodies
        /\ Consulted(db, actor).audit = Audited(db.audit, AccessBody(actor))
    BY <1>1, <1>3, ConsultedFacts, AccessFacts DEF Sound, IsDatabase
  <2> QED
    BY <2>1, <2>2, AuditAppends
<1>4. CASE work[r] = Consulted(disk, actor)
  BY <1>1, <1>2, <1>3, <1>4 DEF actor
<1>5. ASSUME NEW parties \in Parties, NEW credential \in Employers \cup {None},
             Permitted(disk, actor, id, parties, credential),
             work[r] = Consulted(WrittenTo(disk, actor, id, parties, credential), actor)
      PROVE  /\ DbOK(work[r]) /\ Len(work[r].audit) = n + 2
             /\ \A i \in 1 .. n : work[r].audit[i] = disk.audit[i]
             /\ work[r].audit[Len(work[r].audit)].body = AccessBody(actor)
  <2> DEFINE db == WrittenTo(disk, actor, id, parties, credential)
  <2>1. id \in Ids
    BY <1>5 DEF Permitted, Ids
  <2> DEFINE body == WriteBody(disk, actor, id, parties, credential)
  <2>2. Sound(db) /\ body \in Bodies /\ db.audit = Audited(disk.audit, body)
    BY <1>1, <2>1, WrittenFacts
  <2>3. DbOK(db) /\ (actor \in Employers => ~Revoked(db.audit, actor))
    BY <1>1, <1>2, <1>5, <2>1, WrittenOK
  <2>4. Len(db.audit) = n + 1 /\ \A i \in 1 .. n : db.audit[i] = disk.audit[i]
    BY <1>1, <2>2, AuditAppends
  <2>5. work[r] = Consulted(db, actor)
    BY <1>5
  <2> HIDE DEF db
  <2>6. /\ DbOK(work[r]) /\ Len(work[r].audit) = Len(db.audit) + 1
        /\ \A i \in 1 .. Len(db.audit) : work[r].audit[i] = db.audit[i]
        /\ work[r].audit[Len(work[r].audit)].body = AccessBody(actor)
    BY <1>3, <2>2, <2>3, <2>5
  <2>7. Len(work[r].audit) = n + 2 /\ \A i \in 1 .. n : i \in 1 .. Len(db.audit)
    BY <1>1, <2>4, <2>6
  <2> QED
    BY <2>4, <2>6, <2>7
<1> QED
  BY <1>1, <1>4, <1>5 DEF IsWhole, actor, id

(* A step of r that commits nothing keeps the others where they are. *)
LEMMA PathStep ==
  ASSUME RInv, NEW r \in Requests, TypeOK', AllSound', disk' = disk,
         \A q \in Requests : q # r => worker'[q] = worker[q] /\ work'[q] = work[q],
         PathOK(r)',
         worker'[r].pc \in Done => worker[r].pc \in Done /\ worker'[r].receipt = worker[r].receipt
  PROVE  RInv'
<1>1. DbOK(disk)'
  BY DEF RInv, DbOK, OwnRows, RevokedRows, NothingAfter, Revoked
<1>2. Distinct'
  BY DEF RInv, Distinct
<1>3. ASSUME NEW q \in Requests, q # r
      PROVE  PathOK(q)'
  <2>1. PathOK(q) /\ worker'[q] = worker[q] /\ work'[q] = work[q]
    BY <1>3 DEF RInv
  <2>2. HasReceipt(q) => HasReceipt(q)'
    BY <2>1 DEF HasReceipt
  <2>3. HasWritten(q) => HasWritten(q)'
    BY <2>1 DEF HasWritten
  <2>4. IsWhole(q) => IsWhole(q)'
    BY <2>1 DEF IsWhole
  <2>5. Authentic(disk, worker[q].token) => Authentic(disk, worker[q].token)'
    BY <2>1 DEF Authentic
  <2> QED
    BY <2>1, <2>2, <2>3, <2>4, <2>5 DEF PathOK
<1> QED
  BY <1>1, <1>2, <1>3 DEF RInv

(* A request that ends up outside a transaction, with no answer of worth.  *)
LEMMA LeaveStep ==
  ASSUME RInv, NEW r \in Requests, TypeOK', AllSound', disk' = disk,
         \A q \in Requests : q # r => worker'[q] = worker[q] /\ work'[q] = work[q],
         worker'[r].pc \notin InTransaction \cup Done
  PROVE  RInv'
<1>1. PathOK(r)'
  BY DEF PathOK, InTransaction, Done
<1> QED
  BY <1>1, PathStep

LEMMA GotoFacts ==
  ASSUME TypeOK, NEW r \in Requests, NEW pc, Goto(r, pc)
  PROVE  /\ worker'[r].pc = pc /\ worker'[r].op = worker[r].op
         /\ worker'[r].token = worker[r].token /\ worker'[r].target = worker[r].target
         /\ worker'[r].receipt = worker[r].receipt
         /\ \A q \in Requests : q # r => worker'[q] = worker[q]
<1>1. worker \in [Requests -> Workers] /\ worker[r] \in Workers
  BY DEF TypeOK
<1> QED
  BY <1>1 DEF Goto, Workers

LEMMA RollbackStep ==
  ASSUME RInv, NEW r \in Requests, NEW answer \in Answers, answer # "ok",
         TypeOK', AllSound', Rollback(r, answer)
  PROVE  RInv'
<1>1. TypeOK /\ DOMAIN work = Requests
  BY DEF RInv, TypeOK
<1>2. answer \notin InTransaction \cup Done
  BY DEF Answers, InTransaction, Done
<1>3. \A q \in Requests : q # r => work'[q] = work[q]
  BY <1>1 DEF Rollback
<1> QED
  BY <1>1, <1>2, <1>3, LeaveStep, GotoFacts DEF Rollback

LEMMA BeginPath ==
  ASSUME RInv, NEW r \in Requests, TypeOK', AllSound', Begin(r)
  PROVE  RInv'
<1>1. TypeOK /\ DOMAIN work = Requests
  BY DEF RInv, TypeOK
<1>2. /\ worker'[r].pc = "open" /\ work'[r] = disk /\ disk' = disk
      /\ \A q \in Requests : q # r => worker'[q] = worker[q] /\ work'[q] = work[q]
  BY <1>1, GotoFacts DEF Begin
<1>3. PathOK(r)'
  BY <1>2 DEF PathOK, Done
<1>4. worker'[r].pc \notin Done
  BY <1>2 DEF Done
<1> QED
  BY <1>2, <1>3, <1>4, PathStep

LEMMA AuthenticatePath ==
  ASSUME RInv, NEW r \in Requests, TypeOK', AllSound', Authenticate(r)
  PROVE  RInv'
<1>1. CASE Rollback(r, "unauthorized")
  BY <1>1, RollbackStep DEF Answers
<1>2. CASE /\ Authentic(work[r], worker[r].token) /\ Goto(r, "authenticated")
           /\ UNCHANGED <<up, crashes, disk, lock, work, probe>>
  <2>1. TypeOK /\ worker[r].pc = "open" /\ work[r] = disk
    BY DEF RInv, PathOK, Authenticate
  <2>2. /\ worker'[r].pc = "authenticated" /\ worker'[r].token = worker[r].token
        /\ \A q \in Requests : q # r => worker'[q] = worker[q]
    BY <1>2, <2>1, GotoFacts
  <2>3. disk' = disk /\ work' = work /\ Authentic(disk, worker'[r].token)
    BY <1>2, <2>1, <2>2
  <2>4. Authentic(disk, worker[r].token)'
    BY <2>3 DEF Authentic
  <2>5. PathOK(r)'
    BY <2>1, <2>2, <2>3, <2>4 DEF PathOK, Done
  <2>6. worker'[r].pc \notin Done
    BY <2>2 DEF Done
  <2> QED
    BY <2>2, <2>3, <2>5, <2>6, PathStep
<1> QED
  BY <1>1, <1>2 DEF Authenticate

(* The guards of a write are what Permitted says of it. *)
LEMMA MayWritePermitted ==
  ASSUME TypeOK, NEW r \in Requests, work[r] = disk,
         NEW parties \in Parties, NEW credential \in Employers \cup {None},
         MayWrite(r, parties, credential)
  PROVE  Permitted(disk, worker[r].token, worker[r].target, parties, credential)
BY DEF MayWrite, Permitted

LEMMA WritePath ==
  ASSUME RInv, NEW r \in Requests, TypeOK', AllSound', Write(r)
  PROVE  RInv'
<1>1. /\ TypeOK /\ DOMAIN work = Requests /\ worker[r].pc = "authenticated"
      /\ work[r] = disk /\ Authentic(disk, worker[r].token)
  BY DEF RInv, TypeOK, PathOK, Write
<1>2. PICK parties \in Parties, credential \in Employers \cup {None} :
        /\ MayWrite(r, parties, credential)
        /\ work' = [work EXCEPT ![r] =
             Put(@, worker[r].target, Row(parties, credential, @), worker[r].token)]
  BY DEF Write
<1>3. Permitted(disk, worker[r].token, worker[r].target, parties, credential)
  BY <1>1, <1>2, MayWritePermitted
<1>4. /\ worker'[r].pc = "written" /\ worker'[r].token = worker[r].token
      /\ worker'[r].target = worker[r].target /\ disk' = disk
      /\ \A q \in Requests : q # r => worker'[q] = worker[q]
  BY <1>1, GotoFacts DEF Write
<1>5. /\ work'[r] = WrittenTo(disk, worker[r].token, worker[r].target, parties, credential)
      /\ \A q \in Requests : q # r => work'[q] = work[q]
  BY <1>1, <1>2 DEF WrittenTo
<1>6. HasWritten(r)'
  BY <1>3, <1>4, <1>5 DEF HasWritten, Permitted, WrittenTo
<1>7. Authentic(disk, worker[r].token)'
  BY <1>1, <1>4 DEF Authentic
<1>8. PathOK(r)'
  BY <1>4, <1>6, <1>7 DEF PathOK, Done
<1>9. worker'[r].pc \notin Done
  BY <1>4 DEF Done
<1> QED
  BY <1>4, <1>5, <1>8, <1>9, PathStep

LEMMA AuditAccessPath ==
  ASSUME RInv, NEW r \in Requests, TypeOK', AllSound', AuditAccess(r)
  PROVE  RInv'
<1>1. /\ TypeOK /\ DOMAIN work = Requests /\ worker \in [Requests -> Workers]
      /\ worker[r] \in Workers /\ PathOK(r) /\ Sound(work[r])
  BY DEF RInv, TypeOK, AllSound
<1> DEFINE new == [worker[r] EXCEPT !.pc = "audited", !.receipt = Len(work[r].audit) + 1]
<1>2. /\ worker'[r].pc = "audited" /\ worker'[r].token = worker[r].token
      /\ worker'[r].target = worker[r].target /\ worker'[r].receipt = Len(work[r].audit) + 1
      /\ \A q \in Requests : q # r => worker'[q] = worker[q]
  <2>1. worker' = [worker EXCEPT ![r] = new]
    BY <1>1 DEF AuditAccess
  <2>2. /\ new.pc = "audited" /\ new.token = worker[r].token
        /\ new.target = worker[r].target /\ new.receipt = Len(work[r].audit) + 1
    BY <1>1 DEF Workers
  <2> HIDE DEF new
  <2> QED
    BY <1>1, <2>1, <2>2
<1>3. /\ work'[r] = Consulted(work[r], worker[r].token) /\ disk' = disk
      /\ \A q \in Requests : q # r => work'[q] = work[q]
  BY <1>1 DEF AuditAccess, Consulted, AccessBody
<1>4. worker'[r].receipt = Len(work'[r].audit)
  <2>1. /\ worker[r].token \in Employers \cup {Operator} /\ work[r].audit \in Seq(Events)
        /\ AccessBody(worker[r].token) \in Bodies
    BY <1>1, WorkerFacts, AccessFacts DEF Sound, IsDatabase
  <2>2. work'[r].audit = Audited(work[r].audit, AccessBody(worker[r].token))
    BY <1>1, <1>3, <2>1, ConsultedFacts
  <2> QED
    BY <1>2, <2>1, <2>2, AuditAppends
<1>5. worker[r].pc \in {"authenticated", "written"} /\ Authentic(disk, worker[r].token)
  BY <1>1 DEF AuditAccess, PathOK
<1>6. Authentic(disk, worker[r].token)'
  BY <1>2, <1>3, <1>5 DEF Authentic
<1>7. IsWhole(r)'
  <2>1. CASE worker[r].pc = "authenticated"
    <3>1. work'[r] = Consulted(disk, worker[r].token)
      BY <1>1, <1>3, <2>1 DEF PathOK
    <3>2. work'[r] = Consulted(disk', worker'[r].token)
      BY <1>2, <1>3, <3>1
    <3> QED
      BY <3>2 DEF IsWhole, Consulted, AccessBody
  <2>2. CASE worker[r].pc = "written"
    <3>1. PICK parties \in Parties, credential \in Employers \cup {None} :
            /\ Permitted(disk, worker[r].token, worker[r].target, parties, credential)
            /\ work[r] = WrittenTo(disk, worker[r].token, worker[r].target, parties, credential)
      BY <1>1, <2>2 DEF PathOK, HasWritten
    <3>2. /\ Permitted(disk', worker'[r].token, worker'[r].target, parties, credential)
          /\ work'[r] = Consulted(WrittenTo(disk', worker'[r].token, worker'[r].target, parties,
                                            credential), worker'[r].token)
      BY <1>2, <1>3, <3>1
    <3> QED
      BY <3>2 DEF IsWhole, Permitted, WrittenTo, Consulted, AccessBody
  <2> QED
    BY <1>5, <2>1, <2>2
<1>8. PathOK(r)'
  BY <1>2, <1>4, <1>6, <1>7 DEF PathOK, Done
<1>9. worker'[r].pc \notin Done
  BY <1>2 DEF Done
<1> QED
  BY <1>2, <1>3, <1>8, <1>9, PathStep

LEMMA RespondPath ==
  ASSUME RInv, NEW r \in Requests, TypeOK', AllSound', Respond(r)
  PROVE  RInv'
<1>1. /\ TypeOK /\ worker \in [Requests -> Workers] /\ worker[r].pc = "committed"
      /\ PathOK(r) /\ disk' = disk /\ work' = work
  BY DEF RInv, TypeOK, Respond
<1>2. CASE Goto(r, "ok")
  <2>1. /\ worker'[r].pc = "ok" /\ worker'[r].token = worker[r].token
        /\ worker'[r].receipt = worker[r].receipt
        /\ \A q \in Requests : q # r => worker'[q] = worker[q]
    BY <1>1, <1>2, GotoFacts
  <2>2. HasReceipt(r)
    BY <1>1 DEF PathOK, Done
  <2>3. HasReceipt(r)'
    BY <1>1, <2>1, <2>2 DEF HasReceipt
  <2>4. PathOK(r)'
    BY <2>1, <2>3 DEF PathOK
  <2>5. worker[r].pc \in Done
    BY <1>1 DEF Done
  <2> QED
    BY <1>1, <2>1, <2>4, <2>5, PathStep
<1>3. CASE worker' = [worker EXCEPT ![r].pc = "waiting", ![r].op = "read"]
  <2>1. worker'[r].pc = "waiting" /\ \A q \in Requests : q # r => worker'[q] = worker[q]
    BY <1>1, <1>3 DEF Workers
  <2>2. worker'[r].pc \notin InTransaction \cup Done
    BY <2>1 DEF InTransaction, Done
  <2> QED
    BY <1>1, <2>1, <2>2, LeaveStep
<1> QED
  BY <1>2, <1>3 DEF Respond

LEMMA CommitPath ==
  ASSUME RInv, NEW r \in Requests, TypeOK', AllSound', Commit(r)
  PROVE  RInv'
<1>1. /\ TypeOK /\ AllSound /\ DbOK(disk) /\ worker[r].pc = "audited" /\ lock = r
      /\ PathOK(r) /\ disk' = work[r]
  BY DEF RInv, Commit, TypeOK, InTransaction
<1>2. /\ IsWhole(r) /\ worker[r].receipt = Len(work[r].audit)
      /\ Authentic(disk, worker[r].token)
  BY <1>1 DEF PathOK
<1>3. /\ DbOK(disk')
      /\ Len(disk.audit) \in Nat /\ Len(disk'.audit) \in Nat
      /\ Len(disk.audit) < Len(disk'.audit)
      /\ \A i \in 1 .. Len(disk.audit) : disk'.audit[i] = disk.audit[i]
      /\ disk'.audit[Len(disk'.audit)].body = AccessBody(worker[r].token)
  BY <1>1, <1>2, WholeFacts
<1>4. /\ worker'[r].pc = "committed" /\ worker'[r].token = worker[r].token
      /\ worker'[r].receipt = Len(disk'.audit)
      /\ \A q \in Requests : q # r => worker'[q] = worker[q]
  BY <1>1, <1>2, GotoFacts DEF Commit
<1>5. PathOK(r)'
  <2>1. HasReceipt(r)'
    BY <1>3, <1>4 DEF HasReceipt, AccessBody
  <2> QED
    BY <1>4, <2>1 DEF PathOK
<1>6. ASSUME NEW q \in Requests, q # r
      PROVE  /\ PathOK(q)'
             /\ worker'[q].pc \in Done => worker'[q].receipt < worker'[r].receipt
                                          /\ worker'[q].receipt \in Nat
  <2>1. /\ worker'[q] = worker[q] /\ worker[q].pc \notin InTransaction /\ PathOK(q)
        /\ worker[q].receipt \in Nat
    BY <1>1, <1>4, <1>6, WorkerFacts DEF RInv
  <2>2. worker'[q].pc \in Done =>
          /\ worker[q].receipt \in 1 .. Len(disk.audit)
          /\ disk.audit[worker[q].receipt].body = AccessBody(worker[q].token)
    BY <2>1 DEF PathOK, HasReceipt
  <2>3. worker'[q].pc \in Done => HasReceipt(q)'
    <3> SUFFICES ASSUME worker'[q].pc \in Done PROVE HasReceipt(q)'
      OBVIOUS
    <3>1. /\ worker'[q].receipt \in 1 .. Len(disk'.audit)
          /\ disk'.audit[worker'[q].receipt].body = AccessBody(worker'[q].token)
      BY <1>3, <2>1, <2>2
    <3> QED
      BY <3>1 DEF HasReceipt, AccessBody
  <2>4. PathOK(q)'
    BY <2>1, <2>3 DEF PathOK, InTransaction
  <2>5. worker'[q].pc \in Done => worker'[q].receipt < worker'[r].receipt
    BY <1>3, <1>4, <2>1, <2>2
  <2> QED
    BY <2>1, <2>4, <2>5
<1>7. Distinct'
  <2> SUFFICES ASSUME NEW a \in Requests, NEW b \in Requests, a # b,
                      worker'[a].pc \in Done, worker'[b].pc \in Done
               PROVE  worker'[a].receipt # worker'[b].receipt
    BY DEF Distinct
  <2>1. CASE a = r
    BY <1>3, <1>4, <1>6, <2>1
  <2>2. CASE b = r
    BY <1>3, <1>4, <1>6, <2>2
  <2>3. CASE a # r /\ b # r
    BY <1>4, <2>3 DEF RInv, Distinct
  <2> QED
    BY <2>1, <2>2, <2>3
<1>8. DbOK(disk)'
  BY <1>3 DEF DbOK, OwnRows, RevokedRows, NothingAfter, Revoked
<1> QED
  BY <1>5, <1>6, <1>7, <1>8 DEF RInv

LEMMA CrashPath ==
  ASSUME RInv, TypeOK', AllSound', Crash
  PROVE  RInv'
<1>1. TypeOK /\ disk' = disk
  BY DEF RInv, Crash
<1>2. DbOK(disk)'
  BY <1>1 DEF RInv, DbOK, OwnRows, RevokedRows, NothingAfter, Revoked
<1>3. ASSUME NEW r \in Requests
      PROVE  /\ worker'[r].pc \in Done => worker'[r] = worker[r]
             /\ worker'[r].pc \notin InTransaction
  <2>1. CASE worker[r].pc \in InFlight
    <3>1. worker'[r] = [worker[r] EXCEPT !.pc = "lost"] /\ worker[r] \in Workers
      BY <1>1, <2>1 DEF Crash, TypeOK
    <3>2. worker'[r].pc = "lost"
      BY <3>1 DEF Workers
    <3> QED
      BY <3>2 DEF Done, InTransaction
  <2>2. CASE worker[r].pc \notin InFlight
    BY <2>2 DEF Crash, InFlight
  <2> QED
    BY <2>1, <2>2
<1>4. ASSUME NEW r \in Requests
      PROVE  PathOK(r)'
  <2>1. PathOK(r)
    BY DEF RInv
  <2>2. worker'[r].pc \in Done => HasReceipt(r)'
    BY <1>1, <1>3, <2>1 DEF PathOK, HasReceipt
  <2> QED
    BY <1>3, <2>2 DEF PathOK, InTransaction
<1>5. Distinct'
  BY <1>3 DEF RInv, Distinct
<1> QED
  BY <1>2, <1>4, <1>5 DEF RInv

LEMMA RInvStep == RInv /\ [Next]_vars => RInv'
<1> SUFFICES ASSUME RInv, [Next]_vars PROVE RInv'
  OBVIOUS
<1>1. TypeOK' /\ AllSound'
  BY InvariantStep DEF RInv
<1>2. TypeOK /\ DOMAIN work = Requests
  BY DEF RInv, TypeOK
<1>3. ASSUME UNCHANGED <<disk, work, worker>>
      PROVE  RInv'
  <2>1. ASSUME NEW r \in Requests
        PROVE  PathOK(r)'
    BY <1>3 DEF RInv, PathOK, HasWritten, Permitted, WrittenTo, IsWhole, Consulted, AccessBody,
                HasReceipt, Authentic
  <2>2. DbOK(disk)' /\ Distinct'
    BY <1>3 DEF RInv, DbOK, OwnRows, RevokedRows, NothingAfter, Revoked, Distinct
  <2> QED
    BY <1>1, <2>1, <2>2 DEF RInv
<1>4. CASE UNCHANGED vars
  BY <1>3, <1>4 DEF vars
<1>5. CASE Restart
  BY <1>3, <1>5 DEF Restart
<1>6. CASE \E p \in Probes : ProbeAudit(p) \/ ProbeRecords(p)
  BY <1>3, <1>6 DEF ProbeAudit, ProbeRecords
<1>7. CASE Crash
  BY <1>1, <1>7, CrashPath
<1>8. ASSUME NEW r \in Requests, Step(r)
      PROVE  RInv'
  <2>1. CASE Begin(r)
    BY <1>1, <2>1, BeginPath
  <2>2. CASE BeginUnverified(r) \/ TimeOut(r)
    <3>1. /\ worker'[r].pc \in {"integrity_failure", "busy"} /\ disk' = disk
          /\ \A q \in Requests : q # r => worker'[q] = worker[q] /\ work'[q] = work[q]
      BY <1>2, <2>2, GotoFacts DEF BeginUnverified, TimeOut
    <3>2. worker'[r].pc \notin InTransaction \cup Done
      BY <3>1 DEF InTransaction, Done
    <3> QED
      BY <1>1, <3>1, <3>2, LeaveStep
  <2>3. CASE Authenticate(r)
    BY <1>1, <2>3, AuthenticatePath
  <2>4. CASE Abort(r)
    BY <1>1, <2>4, RollbackStep DEF Abort, Answers
  <2>5. CASE Write(r)
    BY <1>1, <2>5, WritePath
  <2>6. CASE AuditAccess(r)
    BY <1>1, <2>6, AuditAccessPath
  <2>7. CASE Commit(r)
    BY <1>1, <2>7, CommitPath
  <2>8. CASE Respond(r)
    BY <1>1, <2>8, RespondPath
  <2> QED
    BY <1>8, <2>1, <2>2, <2>3, <2>4, <2>5, <2>6, <2>7, <2>8 DEF Step
<1>9. ASSUME NEW r \in Requests, NEW op, NEW token, NEW target, Arrive(r, op, token, target)
      PROVE  RInv'
  <2>1. worker \in [Requests -> Workers]
    BY <1>2 DEF TypeOK
  <2>2. /\ worker'[r].pc = "waiting" /\ disk' = disk
        /\ \A q \in Requests : q # r => worker'[q] = worker[q] /\ work'[q] = work[q]
    BY <1>9, <2>1 DEF Arrive, Workers
  <2>3. worker'[r].pc \notin InTransaction \cup Done
    BY <2>2 DEF InTransaction, Done
  <2> QED
    BY <1>1, <2>2, <2>3, LeaveStep
<1> QED
  BY <1>4, <1>5, <1>6, <1>7, <1>8, <1>9 DEF Next

LEMMA RInvStart == Init => RInv
<1> SUFFICES ASSUME Init PROVE RInv
  OBVIOUS
<1>1. TypeOK /\ AllSound
  BY InvariantStart
<1>2. DOMAIN disk.records = {} /\ disk.audit = <<>> /\ Len(disk.audit) = 0
  BY DEF Init, Empty
<1>3. DbOK(disk)
  BY <1>2 DEF DbOK, OwnRows, RevokedRows, NothingAfter, Revoked
<1>4. \A r \in Requests : worker[r].pc = "new"
  BY DEF Init
<1>5. Distinct /\ \A r \in Requests : PathOK(r)
  BY <1>4 DEF Distinct, PathOK, Done
<1> QED
  BY <1>1, <1>3, <1>5 DEF RInv

(* An answer is never given for work that is not on disk: its access event *)
(* is committed, is the request's own, and survives every crash (dispatch, *)
(* Store.transaction).                                                     *)
THEOREM AnswersAreDurable == Spec => []AnsweredIsDurable
<1>1. RInv => AnsweredIsDurable
  BY DEF RInv, AnsweredIsDurable, PathOK, HasReceipt, AccessBody, Done, Distinct
<1> QED
  BY <1>1, RInvStart, RInvStep, PTL DEF Spec

(* A revoked employer is the actor of no later event, whatever requests of *)
(* its were queued or half done when it was revoked (revoke, authenticate).*)
THEOREM RevocationIsFinal == Spec => []NothingAfterRevocation
<1>1. RInv => NothingAfterRevocation
  BY DEF RInv, DbOK, NothingAfter, Revokes, NothingAfterRevocation
<1> QED
  BY <1>1, RInvStart, RInvStep, PTL DEF Spec

----------------------------------------------------------------------------
(* The journal of AuditedStore is what the audit table says was done. *)
Journal(audit) == [i \in 1 .. Len(audit) |-> audit[i].body]

LEMMA SameSequence ==
  ASSUME NEW S, NEW s \in Seq(S), NEW t \in Seq(S), Len(s) = Len(t),
         \A i \in 1 .. Len(s) : s[i] = t[i]
  PROVE  s = t
<1>1. s = [i \in 1 .. Len(s) |-> s[i]] /\ t = [i \in 1 .. Len(t) |-> t[i]]
  OBVIOUS
<1> QED
  BY <1>1

LEMMA JournalFacts ==
  ASSUME NEW audit \in Seq(Events)
  PROVE  /\ Journal(audit) \in Seq(Bodies) /\ Len(Journal(audit)) = Len(audit)
         /\ \A i \in 1 .. Len(audit) : Journal(audit)[i] = audit[i].body
<1>1. \A i \in 1 .. Len(audit) : audit[i] \in Events
  OBVIOUS
<1>2. \A i \in 1 .. Len(audit) : audit[i].body \in Bodies
  BY <1>1 DEF Events
<1>3. Len(audit) \in Nat
  OBVIOUS
<1>4. Journal(audit) \in [1 .. Len(audit) -> Bodies]
  BY <1>2 DEF Journal
<1> QED
  BY <1>3, <1>4 DEF Journal

LEMMA JournalAppends ==
  ASSUME NEW audit \in Seq(Events), NEW body \in Bodies
  PROVE  /\ Journal(audit) \in Seq(Bodies) /\ Len(Journal(audit)) = Len(audit)
         /\ Journal(Audited(audit, body)) = Append(Journal(audit), body)
<1> DEFINE new == Audited(audit, body)
           n == Len(audit)
           told == Journal(audit)
           retold == Journal(new)
<1>1. /\ n \in Nat /\ new \in Seq(Events) /\ Len(new) = n + 1 /\ new[n + 1].body = body
      /\ \A i \in 1 .. n : new[i] = audit[i]
  BY AuditAppends
<1>2. /\ told \in Seq(Bodies) /\ Len(told) = n
      /\ \A i \in 1 .. n : told[i] = audit[i].body
  BY JournalFacts
<1>3. /\ retold \in Seq(Bodies) /\ Len(retold) = n + 1
      /\ \A i \in 1 .. n + 1 : retold[i] = new[i].body
  BY <1>1, JournalFacts
<1> HIDE DEF new, told, retold
<1>4. /\ Append(told, body) \in Seq(Bodies) /\ Len(Append(told, body)) = n + 1
      /\ \A i \in 1 .. n : Append(told, body)[i] = told[i]
      /\ Append(told, body)[n + 1] = body
  BY <1>2
<1>5. \A i \in 1 .. n + 1 : retold[i] = Append(told, body)[i]
  <2> SUFFICES ASSUME NEW i \in 1 .. n + 1 PROVE retold[i] = Append(told, body)[i]
    OBVIOUS
  <2>1. CASE i \in 1 .. n
    BY <1>1, <1>2, <1>3, <1>4, <2>1
  <2>2. CASE i = n + 1
    BY <1>1, <1>3, <1>4, <2>2
  <2>3. n \in Nat
    BY <1>1
  <2> HIDE DEF n
  <2>4. i \in 1 .. n \/ i = n + 1
    BY <2>3
  <2> QED
    BY <2>1, <2>2, <2>4
<1>6. retold = Append(told, body)
  BY <1>3, <1>4, <1>5, SameSequence
<1> QED
  BY <1>2, <1>6 DEF new, told, retold

LEMMA EntitledFacts ==
  ASSUME Sound(disk), DbOK(disk), NEW actor \in Employers \cup {Operator}, Authentic(disk, actor)
  PROVE  Atomic!Entitled(actor)
BY AuthenticActive, ConstantsAssumption DEF Atomic!Entitled

(* A commit is one step of AuditedStore. *)
LEMMA CommitIsAtomic ==
  ASSUME RInv, NEW r \in Requests, Commit(r)
  PROVE  Atomic!Next
<1> DEFINE actor == worker[r].token
           id == worker[r].target
           body == AccessBody(actor)
<1>1. /\ TypeOK /\ Sound(disk) /\ DbOK(disk) /\ IsWhole(r) /\ Authentic(disk, actor)
      /\ disk' = work[r] /\ disk.audit \in Seq(Events)
  BY DEF RInv, AllSound, PathOK, Commit, Sound, IsDatabase
<1>2. actor \in Employers \cup {Operator}
  BY <1>1, WorkerFacts
<1>3. Atomic!Entitled(actor)
  BY <1>1, <1>2, EntitledFacts
<1>4. body \in Bodies /\ body = Atomic!Access(actor)
  BY <1>2, AccessFacts DEF AccessBody, Body, Atomic!Access
<1>5. CASE disk' = Consulted(disk, actor)
  <2>1. disk'.records = disk.records /\ disk'.audit = Audited(disk.audit, body)
    BY <1>1, <1>2, <1>5, ConsultedFacts
  <2>2. Journal(disk'.audit) = Append(Journal(disk.audit), body)
    BY <1>1, <1>4, <2>1, JournalAppends
  <2>3. PICK who \in Employers \cup {Operator} : who = actor
    BY <1>2
  <2>4. Atomic!Consult(who)
    BY <1>4, <2>1, <2>2, <2>3 DEF Atomic!Consult, Atomic!Access, Journal
  <2> QED
    BY <1>3, <2>3, <2>4 DEF Atomic!Next
<1>6. ASSUME NEW parties \in Parties, NEW credential \in Employers \cup {None},
             Permitted(disk, actor, id, parties, credential),
             disk' = Consulted(WrittenTo(disk, actor, id, parties, credential), actor)
      PROVE  Atomic!Next
  <2> DEFINE db == WrittenTo(disk, actor, id, parties, credential)
             row == Row(parties, credential, disk)
             change == WriteBody(disk, actor, id, parties, credential)
             journal == Journal(disk.audit)
  <2>1. id \in Ids
    BY <1>6 DEF Permitted, Ids
  <2>2. /\ Sound(db) /\ change \in Bodies
        /\ db.records = Upsert(disk.records, id, row) /\ db.audit = Audited(disk.audit, change)
    BY <1>1, <1>2, <2>1, WrittenFacts
  <2>3. /\ journal \in Seq(Bodies) /\ Len(journal) = Len(disk.audit)
        /\ Journal(db.audit) = Append(journal, change)
    BY <1>1, <2>2, JournalAppends
  <2>4. db.audit \in Seq(Events)
    BY <2>2 DEF Sound, IsDatabase
  <2>5. row = [parties |-> parties, credential |-> credential, payload |-> Len(journal) + 1]
    BY <2>3 DEF Row
  <2>6. change = Atomic!Change(actor, id, row)
    BY DEF WriteBody, Body, Atomic!Change
  <2> HIDE DEF db, row, change
  <2>7. disk'.records = db.records /\ disk'.audit = Audited(db.audit, body)
    BY <1>2, <1>6, <2>2, ConsultedFacts DEF db
  <2>8. Journal(disk'.audit) = Append(Append(journal, change), body)
    BY <1>4, <2>3, <2>4, <2>7, JournalAppends
  <2>9. Journal(disk'.audit) = journal \o <<change, body>>
    <3> HIDE DEF journal, body
    <3>1. Append(Append(journal, change), body) = journal \o <<change, body>>
      BY <1>4, <2>2, <2>3
    <3> QED
      BY <2>8, <3>1
  <2>10. Atomic!MayChange(actor, id, parties)
    <3>1. parties.receiver \in Employers \cup {None}
      BY <1>6 DEF Parties
    <3> QED
      BY <1>6, <3>1 DEF Permitted, Alone, Writers, Atomic!MayChange, Atomic!Entitled
  <2>11. Atomic!Change1(actor, id, parties, credential)
    BY <1>4, <2>2, <2>5, <2>6, <2>7, <2>9, <2>10 DEF Atomic!Change1, Upsert, Journal
  <2>12. credential \in {None, id} \ SignalIds
    BY <1>6, ConstantsAssumption DEF Permitted
  <2>13. parties \in [tenant: Employers, receiver: Employers \cup {None}]
    BY <1>6 DEF Parties
  <2> QED
    BY <1>2, <1>3, <2>1, <2>11, <2>12, <2>13 DEF Atomic!Next, Ids
<1> QED
  BY <1>1, <1>5, <1>6 DEF IsWhole

(* Only a commit changes what is committed. *)
LEMMA OnlyCommits ==
  ASSUME [Next]_vars, ~ \E r \in Requests : Commit(r)
  PROVE  disk' = disk
<1>1. ASSUME NEW r \in Requests, Step(r)
      PROVE  disk' = disk
  BY <1>1 DEF Step, Begin, BeginUnverified, TimeOut, Authenticate, Rollback, Abort, Write,
              AuditAccess, Respond
<1>2. ASSUME NEW r \in Requests, NEW op, NEW token, NEW target, Arrive(r, op, token, target)
      PROVE  disk' = disk
  BY <1>2 DEF Arrive
<1> QED
  BY <1>1, <1>2 DEF Next, vars, ProbeAudit, ProbeRecords, Crash, Restart

(* Concurrent requests are atomic and serial: to whoever reads the         *)
(* database, each of them ran alone, at once and with a valid credential,  *)
(* or not at all (Store.transaction, dispatch).                            *)
THEOREM RequestsAreAtomic == Spec => RequestsAtomic
<1>1. Init => Atomic!Init
  <2> SUFFICES ASSUME Init PROVE Atomic!Init
    OBVIOUS
  <2>1. disk.records = [id \in {} |-> None] /\ disk.audit = <<>>
    BY DEF Init, Empty
  <2>2. Len(disk.audit) = 0
    BY <2>1
  <2>3. Journal(disk.audit) = <<>>
    BY <2>2 DEF Journal
  <2> QED
    BY <2>1, <2>3 DEF Atomic!Init, Journal
<1>2. RInv /\ [Next]_vars => [Atomic!Next]_(Atomic!vars)
  <2> SUFFICES ASSUME RInv, [Next]_vars PROVE [Atomic!Next]_(Atomic!vars)
    OBVIOUS
  <2>1. CASE \E r \in Requests : Commit(r)
    BY <2>1, CommitIsAtomic
  <2>2. CASE ~ \E r \in Requests : Commit(r)
    BY <2>2, OnlyCommits DEF Atomic!vars
  <2> QED
    BY <2>1, <2>2
<1> QED
  BY <1>1, <1>2, RInvStart, RInvStep, PTL DEF Spec, RequestsAtomic, Atomic!Spec

----------------------------------------------------------------------------
(* A volume that may be damaged (DamagedSpec). *)
Damaged == ~Verified(disk) /\ lock = None

(* A probe that started on a damaged database looks at the one that is     *)
(* there: nobody has changed it since.                                     *)
ProbeOK(p) ==
  /\ probe[p].pc = "ok" => probe[p].sound
  /\ probe[p].pc = "reading" /\ ~probe[p].sound =>
       /\ ~Verified(disk) /\ Chained(disk.audit) /\ probe[p].audit = disk.audit

DInv == TypeOK /\ (AllSound \/ Damaged) /\ \A p \in Probes : ProbeOK(p)

DNext == Next \/ \E id \in Employers \cup SignalIds : Damage(id)

(* Requests turn away from a database that does not verify. *)
LEMMA DamagedStep ==
  ASSUME TypeOK, Damaged, [Next]_vars
  PROVE  TypeOK' /\ disk' = disk /\ lock' = None
<1>1. ASSUME NEW r \in Requests
      PROVE  worker[r].pc \notin InTransaction
  BY ConstantsAssumption DEF TypeOK, Damaged
<1>2. ASSUME NEW r \in Requests, Step(r)
      PROVE  TypeOK' /\ disk' = disk /\ lock' = None
  <2>1. ~Begin(r)
    BY DEF Begin, Damaged
  <2>2. ~(Authenticate(r) \/ Abort(r) \/ Write(r) \/ AuditAccess(r) \/ Commit(r))
    BY <1>1 DEF Authenticate, Abort, Write, AuditAccess, Commit, InTransaction
  <2>3. IdleStep(r)
    BY <1>2, <2>1, <2>2 DEF Step, IdleStep
  <2>4. disk' = disk /\ lock' = lock
    BY <2>3 DEF IdleStep, BeginUnverified, TimeOut, Respond
  <2> QED
    BY <2>3, <2>4, IdleKeeps DEF Damaged
<1>3. ASSUME NEW r \in Requests, NEW op \in Writes \cup {"read", "tool"},
             NEW token \in Employers \cup {Operator},
             NEW target \in Employers \cup SignalIds \cup {None}, Arrive(r, op, token, target)
      PROVE  TypeOK' /\ disk' = disk /\ lock' = None
  BY <1>3, ArriveStep DEF Ids, Arrive, Damaged
<1>4. ASSUME NEW p \in Probes, ProbeAudit(p) \/ ProbeRecords(p)
      PROVE  TypeOK' /\ disk' = disk /\ lock' = None
  BY <1>4, ProbeStep DEF ProbeAudit, ProbeRecords, Damaged
<1>5. CASE Crash
  BY <1>5, CrashStep DEF Crash
<1>6. CASE Restart
  BY <1>6 DEF Restart, Damaged
<1>7. CASE UNCHANGED vars
  BY <1>7 DEF vars, TypeOK, Damaged
<1> QED
  BY <1>2, <1>3, <1>4, <1>5, <1>6, <1>7 DEF Next

(* Damage does not verify. *)
LEMMA DamageBreaks ==
  ASSUME TypeOK, NEW id, Damage(id)
  PROVE  TypeOK' /\ Damaged'
<1>1. /\ IsDatabase(disk) /\ Covered(disk) /\ id \in DOMAIN disk.records
      /\ UNCHANGED <<up, crashes, lock, work, worker, probe>> /\ lock = None
  BY DEF TypeOK, Damage, Verified
<1>2. IsDatabase(disk') /\ disk'.audit = disk.audit /\ disk'.records # disk.records
  <2>1. CASE disk' = [disk EXCEPT !.records = [x \in DOMAIN @ \ {id} |-> @[x]]]
    <3>1. /\ disk'.audit = disk.audit
          /\ disk'.records = [x \in DOMAIN disk.records \ {id} |-> disk.records[x]]
          /\ disk' = [records |-> disk'.records, audit |-> disk'.audit]
      BY <1>1, <2>1 DEF IsDatabase
    <3>2. DOMAIN disk'.records = DOMAIN disk.records \ {id}
      BY <3>1
    <3>3. disk'.records \in [DOMAIN disk'.records -> Rows]
      BY <1>1, <3>1, <3>2 DEF IsDatabase
    <3> QED
      BY <1>1, <3>1, <3>2, <3>3 DEF IsDatabase
  <2>2. ASSUME NEW i \in WritesOf(disk.audit, id),
               disk.audit[i].body.digest # disk.records[id],
               disk' = [disk EXCEPT !.records[id] = disk.audit[i].body.digest]
        PROVE  IsDatabase(disk') /\ disk'.audit = disk.audit /\ disk'.records # disk.records
    <3> DEFINE row == disk.audit[i].body.digest
    <3>1. i \in 1 .. Len(disk.audit) /\ row # None
      BY DEF WritesOf
    <3>2. disk.audit[i] \in Events
      BY <1>1, <3>1 DEF IsDatabase
    <3>3. row \in Rows
      BY <3>1, <3>2 DEF Events, Bodies
    <3> HIDE DEF row
    <3>4. /\ disk'.audit = disk.audit
          /\ disk'.records = [disk.records EXCEPT ![id] = row]
          /\ disk' = [records |-> disk'.records, audit |-> disk'.audit]
      BY <1>1, <2>2 DEF IsDatabase, row
    <3>5. DOMAIN disk'.records = DOMAIN disk.records /\ disk'.records[id] = row
      BY <1>1, <3>4
    <3>6. disk'.records \in [DOMAIN disk'.records -> Rows]
      BY <1>1, <3>3, <3>4, <3>5 DEF IsDatabase
    <3>7. row # disk.records[id]
      BY <2>2 DEF row
    <3> QED
      BY <1>1, <3>4, <3>5, <3>6, <3>7 DEF IsDatabase
  <2> QED
    BY <2>1, <2>2 DEF Damage
<1>3. ~Verified(disk)'
  BY <1>1, <1>2 DEF Verified, Covered
<1>4. TypeOK'
  BY <1>1, <1>2 DEF TypeOK
<1> QED
  BY <1>1, <1>3, <1>4 DEF Damaged

LEMMA ProbeKeeps ==
  ASSUME DInv, [DNext]_vars, NEW p \in Probes
  PROVE  ProbeOK(p)'
<1>1. ProbeOK(p) /\ TypeOK /\ (AllSound => Verified(disk))
  BY DEF DInv, AllSound, Sound
<1>2. ASSUME probe'[p] = probe[p], Verified(disk) \/ disk' = disk
      PROVE  ProbeOK(p)'
  <2>1. probe[p].pc = "reading" /\ ~probe[p].sound =>
          /\ ~Verified(disk') /\ Chained(disk'.audit) /\ probe[p].audit = disk'.audit
    BY <1>1, <1>2 DEF ProbeOK
  <2> QED
    BY <1>1, <1>2, <2>1 DEF ProbeOK, Verified, Covered, Chained, Expected, WrittenIds, LastWrite,
                            WritesOf
<1>3. Verified(disk) \/ disk' = disk
  <2>1. CASE [Next]_vars
    BY <2>1, <1>1, DamagedStep DEF DInv
  <2>2. CASE \E id \in Employers \cup SignalIds : Damage(id)
    BY <2>2 DEF Damage
  <2> QED
    BY <2>1, <2>2 DEF DNext
<1>4. probe \in [Probes -> [pc: {"new", "reading"} \cup Answers, audit: Seq(Events),
                            sound: BOOLEAN]]
  BY <1>1 DEF TypeOK
<1>5. ASSUME ProbeAudit(p)
      PROVE  ProbeOK(p)'
  <2>1. disk' = disk
    BY <1>5 DEF ProbeAudit
  <2>2. CASE Chained(disk.audit)
    <3>1. probe'[p] = [pc |-> "reading", audit |-> disk.audit, sound |-> Verified(disk)]
      BY <1>4, <1>5, <2>2 DEF ProbeAudit
    <3>2. /\ probe'[p].pc = "reading" /\ probe'[p].audit = disk'.audit
          /\ ~probe'[p].sound => ~Verified(disk')
      BY <2>1, <3>1
    <3> QED
      BY <2>1, <2>2, <3>2 DEF ProbeOK, Verified, Covered, Chained, Expected, WrittenIds,
                              LastWrite, WritesOf
  <2>3. CASE ~Chained(disk.audit)
    <3>1. probe'[p].pc = "integrity_failure"
      BY <1>4, <1>5, <2>3 DEF ProbeAudit
    <3> QED
      BY <3>1 DEF ProbeOK
  <2> QED
    BY <2>2, <2>3
<1>6. ASSUME ProbeRecords(p)
      PROVE  ProbeOK(p)'
  <2> DEFINE seen == [records |-> disk.records, audit |-> probe[p].audit]
  <2>1. /\ probe[p].pc = "reading" /\ disk' = disk
        /\ probe'[p].sound = probe[p].sound
        /\ probe'[p].pc = IF Covered(seen) THEN "ok" ELSE "integrity_failure"
    BY <1>4, <1>6 DEF ProbeRecords
  <2>2. Covered(seen) => probe[p].sound
    <3> SUFFICES ASSUME ~probe[p].sound PROVE ~Covered(seen)
      OBVIOUS
    <3>1. ~Covered(disk) /\ probe[p].audit = disk.audit
      BY <1>1, <2>1 DEF ProbeOK, Verified
    <3> QED
      BY <3>1 DEF Covered
  <2> QED
    BY <2>1, <2>2 DEF ProbeOK
<1>7. CASE Crash
  <2>1. CASE probe[p].pc = "reading"
    <3>1. probe'[p] = [probe[p] EXCEPT !.pc = "lost", !.audit = <<>>]
      BY <1>7, <2>1 DEF Crash
    <3>2. probe'[p].pc = "lost"
      BY <1>4, <3>1
    <3> QED
      BY <3>2 DEF ProbeOK
  <2>2. CASE probe[p].pc # "reading"
    <3>1. probe'[p] = probe[p]
      BY <1>7, <2>2 DEF Crash
    <3> QED
      BY <1>2, <1>3, <3>1
  <2> QED
    BY <2>1, <2>2
<1>8. CASE \E q \in Probes \ {p} : ProbeAudit(q) \/ ProbeRecords(q)
  <2>1. probe'[p] = probe[p]
    BY <1>4, <1>8 DEF ProbeAudit, ProbeRecords
  <2> QED
    BY <1>2, <1>3, <2>1
<1>9. CASE probe' = probe
  BY <1>2, <1>3, <1>9
<1> QED
  <2>1. ASSUME NEW r \in Requests, Step(r)
        PROVE  probe' = probe
    BY <2>1 DEF Step, Begin, BeginUnverified, TimeOut, Authenticate, Rollback, Abort, Write,
                AuditAccess, Commit, Respond
  <2>2. ASSUME NEW r \in Requests, NEW op, NEW token, NEW target, Arrive(r, op, token, target)
        PROVE  probe' = probe
    BY <2>2 DEF Arrive
  <2> QED
    BY <1>5, <1>6, <1>7, <1>8, <1>9, <2>1, <2>2 DEF DNext, Next, vars, Restart, Damage

LEMMA DInvStep ==
  ASSUME DInv, [DNext]_vars
  PROVE  DInv' /\ (~Verified(disk) => disk' = disk)
<1>1. \A p \in Probes : ProbeOK(p)'
  BY ProbeKeeps
<1>2. AllSound => Verified(disk)
  BY DEF AllSound, Sound
<1>3. CASE \E id \in Employers \cup SignalIds : Damage(id)
  BY <1>1, <1>3, DamageBreaks DEF DInv, Damage
<1>4. CASE [Next]_vars /\ AllSound
  BY <1>1, <1>2, <1>4, InvariantStep DEF DInv
<1>5. CASE [Next]_vars /\ Damaged
  <2>1. TypeOK' /\ disk' = disk /\ lock' = None
    BY <1>5, DamagedStep DEF DInv
  <2>2. ~Verified(disk')
    BY <1>5, <2>1 DEF Damaged
  <2>3. Damaged'
    BY <2>1, <2>2 DEF Damaged, Verified, Covered, Chained, Expected, WrittenIds, LastWrite,
                      WritesOf
  <2> QED
    BY <1>1, <2>1, <2>3 DEF DInv
<1> QED
  BY <1>3, <1>4, <1>5 DEF DInv, DNext

LEMMA DInvStart == Init => DInv
<1>1. Init => \A p \in Probes : ProbeOK(p)
  BY DEF Init, ProbeOK
<1> QED
  BY <1>1, InvariantStart DEF DInv

(* The store fails closed: whatever requests come, a database that does    *)
(* not verify is neither extended nor repaired (Store.transaction raises   *)
(* before the request sees the connection).                                *)
THEOREM FailsClosed == DamagedSpec => DamageNotExtended
<1>1. DInv /\ [DNext]_vars => DInv' /\ [~Verified(disk) => disk' = disk]_vars
  BY DInvStep
<1> QED
  BY <1>1, DInvStart, PTL DEF DamagedSpec, DamageNotExtended, DNext

(* A health probe that starts on a damaged database never says it is well, *)
(* although it reads the two tables at two moments (health, Store.verify). *)
THEOREM HealthFailsClosed == DamagedSpec => []HealthSeesDamage
<1>1. DInv => HealthSeesDamage
  BY DEF DInv, ProbeOK, HealthSeesDamage
<1>2. DInv /\ [DNext]_vars => DInv'
  BY DInvStep
<1> QED
  BY <1>1, <1>2, DInvStart, PTL DEF DamagedSpec, DNext


=============================================================================
