--------------------------- MODULE ExchangeStore ---------------------------
(***************************************************************************)
(* The store of the employer exchange (src/mijobs/exchange/store.py) and   *)
(* the requests that run on it (app.py): every request is a worker thread  *)
(* that opens its own SQLite connection and runs one BEGIN IMMEDIATE       *)
(* transaction (an MCP tool call runs two); a health probe reads without   *)
(* one.  Requests may be refused or fail at any statement, wait too long   *)
(* for the lock, and the process may die and start again.                  *)
(*                                                                         *)
(* SHA-256 and HMAC values are modelled as the value they are taken of, so *)
(* equal digests mean equal contents; a digest in the chain is the         *)
(* sequence of the bodies it covers.  Every encryption gives a payload of  *)
(* its own, here the number of the event that records it.                  *)
(***************************************************************************)
EXTENDS Naturals, Sequences, FiniteSets

CONSTANTS
  Requests,    \* HTTP requests, one worker thread each
  Probes,      \* GET /health requests, on the event loop
  Employers,   \* ids of employer records; each names its credential too
  SignalIds,   \* ids of the other records
  Operator,    \* the operator and the operator's token
  None,        \* NULL
  MaxCrashes   \* bound of the crashes of a behaviour

VARIABLES
  up,       \* whether the server process runs
  crashes,  \* how often it died
  disk,     \* the committed database: its records and its audit table
  lock,     \* the request that holds SQLite's write lock, or None
  work,     \* what the connection of each request sees
  worker,   \* where each request is, and what it asks
  probe     \* where each health probe is

vars == <<up, crashes, disk, lock, work, worker, probe>>

Writes == {"provision", "revoke", "save"}
InTransaction == {"open", "authenticated", "written", "audited"}
InFlight == InTransaction \cup {"waiting", "committed"}
Answers == {"ok", "unauthorized", "refused", "integrity_failure", "busy", "lost"}

Ids == Employers \cup SignalIds
Parties == [tenant: Employers, receiver: Employers \cup {None}]
Rows == [parties: Parties, credential: Employers \cup {None}, payload: Nat]

ASSUME ConstantsAssumption ==
  /\ Operator \notin Employers /\ None \notin Employers /\ None # Operator
  /\ Employers \cap SignalIds = {} /\ None \notin SignalIds
  /\ None \notin Requests /\ None \notin Rows
  /\ MaxCrashes \in Nat

----------------------------------------------------------------------------
Empty == [records |-> [id \in {} |-> None], audit |-> <<>>]

(* Store.put's row, and the body of an event of Store.audit.  Whose record *)
(* it is: its tenant's, and a transition also the receiving_tenant's.      *)
Alone(tenant) == [tenant |-> tenant, receiver |-> None]

Row(parties, credential, db) ==
  [parties |-> parties, credential |-> credential, payload |-> Len(db.audit) + 1]

Body(actor, operation, record, digest) ==
  [actor |-> actor, operation |-> operation, record |-> record, digest |-> digest]

(* Store.audit: the next event, chained to the last one. *)
Audited(audit, body) ==
  LET previous == IF audit = <<>> THEN <<>> ELSE audit[Len(audit)].digest
  IN  Append(audit, [seq |-> Len(audit) + 1, body |-> body, previous |-> previous,
                     digest |-> Append(previous, body)])

(* Store.verify, the audit table: numbered without a gap, each event       *)
(* chained to the one before it.                                           *)
Chained(audit) ==
  \A i \in 1 .. Len(audit) :
    LET previous == IF i = 1 THEN <<>> ELSE audit[i - 1].digest
    IN  /\ audit[i].seq = i
        /\ audit[i].previous = previous
        /\ audit[i].digest = Append(previous, audit[i].body)

(* The events that write the record, and the digests the last ones name.   *)
WritesOf(audit, id) ==
  {i \in 1 .. Len(audit) : audit[i].body.digest # None /\ audit[i].body.record = id}

WrittenIds(audit) ==
  {audit[i].body.record : i \in {j \in 1 .. Len(audit) : audit[j].body.digest # None}}

LastWrite(audit, id) ==
  CHOOSE i \in WritesOf(audit, id) : \A j \in WritesOf(audit, id) : j <= i

Expected(audit) == [id \in WrittenIds(audit) |-> audit[LastWrite(audit, id)].body.digest]

(* Store.verify, the records table: exactly the rows the events describe. *)
Covered(db) == db.records = Expected(db.audit)

Verified(db) == Chained(db.audit) /\ Covered(db)

(* Mutant: any employer on record is let in. *)
KnownEmployer(db, token) == token = Operator \/ token \in DOMAIN db.records

(* Store.authenticate. *)
Authentic(db, token) ==
  \/ token = Operator
  \/ \E id \in DOMAIN db.records : db.records[id].credential = token

----------------------------------------------------------------------------
Init ==
  /\ up = TRUE
  /\ crashes = 0
  /\ disk = Empty
  /\ lock = None
  /\ work = [r \in Requests |-> Empty]
  /\ worker = [r \in Requests |->
                 [pc |-> "new", op |-> "read", token |-> Operator, target |-> None,
                  receipt |-> 0]]
  /\ probe = [p \in Probes |-> [pc |-> "new", audit |-> <<>>, sound |-> TRUE]]

Goto(r, pc) == worker' = [worker EXCEPT ![r].pc = pc]

(* What a request may ask for.  One for an id of another kind, or from an  *)
(* employer for what only the operator may do, is refused as a read is.    *)
Sensible(op, token, target) ==
  CASE op \in {"provision", "revoke"} -> token = Operator /\ target \in Employers
    [] op = "save" -> target \in SignalIds
    [] OTHER -> target = None

(* A request reaches its worker thread (app.py, api). *)
Arrive(r, op, token, target) ==
  /\ up
  /\ worker[r].pc = "new"
  /\ Sensible(op, token, target)
  /\ worker' = [worker EXCEPT ![r].pc = "waiting", ![r].op = op, ![r].token = token,
                              ![r].target = target]
  /\ UNCHANGED <<up, crashes, disk, lock, work, probe>>

(* Mutant: a deferred BEGIN, which takes no lock. *)
BeginDeferred(r) ==
  /\ worker[r].pc = "waiting"
  /\ Verified(disk)
  /\ work' = [work EXCEPT ![r] = disk]
  /\ Goto(r, "open")
  /\ UNCHANGED <<up, crashes, disk, lock, probe>>

(* Mutant: the transaction starts without verify. *)
BeginUnchecked(r) ==
  /\ worker[r].pc = "waiting"
  /\ lock = None
  /\ lock' = r
  /\ work' = [work EXCEPT ![r] = disk]
  /\ Goto(r, "open")
  /\ UNCHANGED <<up, crashes, disk, probe>>

(* Store.transaction: BEGIN IMMEDIATE, then verify on what it sees. *)
Begin(r) ==
  /\ worker[r].pc = "waiting"
  /\ lock = None
  /\ Verified(disk)
  /\ lock' = r
  /\ work' = [work EXCEPT ![r] = disk]
  /\ Goto(r, "open")
  /\ UNCHANGED <<up, crashes, disk, probe>>

(* ... and verify fails: the transaction ends where it began. *)
BeginUnverified(r) ==
  /\ worker[r].pc = "waiting"
  /\ lock = None
  /\ ~Verified(disk)
  /\ Goto(r, "integrity_failure")
  /\ UNCHANGED <<up, crashes, disk, lock, work, probe>>

(* BEGIN IMMEDIATE waits at most 10 s for the lock of another connection. *)
TimeOut(r) ==
  /\ worker[r].pc = "waiting"
  /\ lock # None
  /\ Goto(r, "busy")
  /\ UNCHANGED <<up, crashes, disk, lock, work, probe>>

(* Mutant: an aborted transaction leaves its connection open. *)
RollbackLeaksLock(r, answer) ==
  /\ work' = [work EXCEPT ![r] = Empty]
  /\ Goto(r, answer)
  /\ UNCHANGED <<up, crashes, disk, lock, probe>>

(* Leaving the with blocks on an exception: roll back, close, answer. *)
Rollback(r, answer) ==
  /\ lock' = None
  /\ work' = [work EXCEPT ![r] = Empty]
  /\ Goto(r, answer)
  /\ UNCHANGED <<up, crashes, disk, probe>>

Authenticate(r) ==
  /\ worker[r].pc = "open"
  /\ IF Authentic(work[r], worker[r].token)
       THEN /\ Goto(r, "authenticated")
            /\ UNCHANGED <<up, crashes, disk, lock, work, probe>>
       ELSE Rollback(r, "unauthorized")

(* The service raises, or a statement fails, before the commit. *)
Abort(r) ==
  /\ worker[r].pc \in InTransaction
  /\ Rollback(r, "refused")

(* Who may save a record that is there: close_signal its tenant or the     *)
(* operator; decide the two employers of a transition, and nobody else.    *)
Writers(parties) ==
  IF parties.receiver = None THEN {parties.tenant, Operator}
                             ELSE {parties.tenant, parties.receiver}

(* What a request may write in its record: the operator provisions a new   *)
(* employer and revokes one it finds, taking the credential away; an       *)
(* employer posts a signal, or proposes a transition to another active     *)
(* employer; either is saved again under the tenant it had, whoever saves. *)
MayWrite(r, parties, credential) ==
  LET records == work[r].records
      id == worker[r].target
      actor == worker[r].token
      active == {e \in Employers \cap DOMAIN records : records[e].credential # None}
  IN  \/ /\ worker[r].op = "provision"
         /\ actor = Operator /\ id \in Employers \ DOMAIN records
         /\ parties = Alone(id) /\ credential = id
      \/ /\ worker[r].op = "revoke"
         /\ actor = Operator /\ id \in Employers \cap DOMAIN records
         /\ parties = Alone(id) /\ credential = None
      \/ /\ worker[r].op = "save"
         /\ actor # Operator /\ id \in SignalIds \ DOMAIN records
         /\ parties.tenant = actor /\ credential = None
         /\ parties.receiver \in {None} \cup (active \ {actor})
      \/ /\ worker[r].op = "save"
         /\ id \in SignalIds \cap DOMAIN records
         /\ parties = records[id].parties /\ credential = None
         /\ actor \in Writers(parties)

Upsert(records, id, row) ==
  [x \in DOMAIN records \cup {id} |-> IF x = id THEN row ELSE records[x]]

(* Mutant: the row is written and its event is not. *)
PutUnaudited(db, id, row, actor) == [db EXCEPT !.records = Upsert(@, id, row)]

(* Store.put: the row and the event that describes it. *)
Put(db, id, row, actor) ==
  [records |-> Upsert(db.records, id, row),
   audit |-> Audited(db.audit, Body(actor, "write", id, row))]

Write(r) ==
  /\ worker[r].pc = "authenticated"
  /\ \E parties \in Parties, credential \in Employers \cup {None} :
       /\ MayWrite(r, parties, credential)
       /\ work' = [work EXCEPT ![r] =
            Put(@, worker[r].target, Row(parties, credential, @), worker[r].token)]
  /\ Goto(r, "written")
  /\ UNCHANGED <<up, crashes, disk, lock, probe>>

(* dispatch ends with an access event.  The receipt is a history variable: *)
(* the number of that event.                                               *)
AuditAccess(r) ==
  /\ worker[r].pc = (IF worker[r].op \in Writes THEN "written" ELSE "authenticated")
  /\ work' = [work EXCEPT ![r].audit =
                Audited(@, Body(worker[r].token, "access", None, None))]
  /\ worker' = [worker EXCEPT ![r].pc = "audited", ![r].receipt = Len(work[r].audit) + 1]
  /\ UNCHANGED <<up, crashes, disk, lock, probe>>

(* Mutant: the connection is closed without a commit. *)
CloseUncommitted(r) ==
  /\ worker[r].pc = "audited"
  /\ lock' = None
  /\ work' = [work EXCEPT ![r] = Empty]
  /\ Goto(r, "committed")
  /\ UNCHANGED <<up, crashes, disk, probe>>

(* Leaving the with blocks normally: COMMIT, close. *)
Commit(r) ==
  /\ worker[r].pc = "audited"
  /\ disk' = work[r]
  /\ lock' = None
  /\ work' = [work EXCEPT ![r] = Empty]
  /\ Goto(r, "committed")
  /\ UNCHANGED <<up, crashes, probe>>

(* The answer goes out, or mcp_request, which has run GET /api/me, runs    *)
(* the tool in a second transaction.                                       *)
Respond(r) ==
  /\ worker[r].pc = "committed"
  /\ \/ worker[r].op = "tool" /\ worker' = [worker EXCEPT ![r].pc = "waiting", ![r].op = "read"]
     \/ worker[r].op # "tool" /\ Goto(r, "ok")
  /\ UNCHANGED <<up, crashes, disk, lock, work, probe>>

(* The process dies: connections and answers are lost, what is committed   *)
(* stays.                                                                  *)
Crash ==
  /\ up
  /\ crashes < MaxCrashes
  /\ up' = FALSE
  /\ crashes' = crashes + 1
  /\ lock' = None
  /\ work' = [r \in Requests |-> Empty]
  /\ worker' = [r \in Requests |->
                  IF worker[r].pc \in InFlight THEN [worker[r] EXCEPT !.pc = "lost"]
                                               ELSE worker[r]]
  /\ probe' = [p \in Probes |->
                 IF probe[p].pc = "reading" THEN [probe[p] EXCEPT !.pc = "lost", !.audit = <<>>]
                                            ELSE probe[p]]
  /\ UNCHANGED disk

(* Store.__init__ verifies before it serves. *)
Restart ==
  /\ ~up
  /\ Verified(disk)
  /\ up' = TRUE
  /\ UNCHANGED <<crashes, disk, lock, work, worker, probe>>

(* GET /health runs verify on a connection without a transaction: its two  *)
(* SELECTs see the database at two moments.                                *)
ProbeAudit(p) ==
  /\ up
  /\ probe[p].pc = "new"
  /\ probe' = [probe EXCEPT ![p] =
       IF Chained(disk.audit) THEN [pc |-> "reading", audit |-> disk.audit, sound |-> Verified(disk)]
         ELSE [pc |-> "integrity_failure", audit |-> <<>>, sound |-> Verified(disk)]]
  /\ UNCHANGED <<up, crashes, disk, lock, work, worker>>

(* Mutant: the records are only counted off against the events. *)
ProbeIds(p) ==
  /\ probe[p].pc = "reading"
  /\ LET same == DOMAIN disk.records = DOMAIN Expected(probe[p].audit)
     IN  probe' = [probe EXCEPT ![p].audit = <<>>,
                                ![p].pc = IF same THEN "ok" ELSE "integrity_failure"]
  /\ UNCHANGED <<up, crashes, disk, lock, work, worker>>

ProbeRecords(p) ==
  /\ probe[p].pc = "reading"
  /\ LET seen == [records |-> disk.records, audit |-> probe[p].audit]
     IN  probe' = [probe EXCEPT ![p].audit = <<>>,
                                ![p].pc = IF Covered(seen) THEN "ok" ELSE "integrity_failure"]
  /\ UNCHANGED <<up, crashes, disk, lock, work, worker>>

(* A record goes back to an earlier version of itself, or is lost, as when *)
(* the volume is put together from copies taken at different moments.      *)
Damage(id) ==
  /\ Verified(disk)
  /\ lock = None
  /\ id \in DOMAIN disk.records
  /\ \/ disk' = [disk EXCEPT !.records = [x \in DOMAIN @ \ {id} |-> @[x]]]
     \/ \E i \in WritesOf(disk.audit, id) :
          /\ disk.audit[i].body.digest # disk.records[id]
          /\ disk' = [disk EXCEPT !.records[id] = disk.audit[i].body.digest]
  /\ UNCHANGED <<up, crashes, lock, work, worker, probe>>

Step(r) ==
  \/ Begin(r) \/ BeginUnverified(r) \/ TimeOut(r)
  \/ Authenticate(r) \/ Abort(r) \/ Write(r) \/ AuditAccess(r) \/ Commit(r) \/ Respond(r)

Next ==
  \/ \E r \in Requests :
       \/ Step(r)
       \/ \E op \in Writes \cup {"read", "tool"}, token \in Employers \cup {Operator},
             target \in Employers \cup SignalIds \cup {None} : Arrive(r, op, token, target)
  \/ \E p \in Probes : ProbeAudit(p) \/ ProbeRecords(p)
  \/ Crash
  \/ Restart

Spec == Init /\ [][Next]_vars

(* The volume may also be damaged, and the operating system runs every     *)
(* thread: a worker that can step does.                                    *)
DamagedSpec ==
  /\ Init
  /\ [][Next \/ \E id \in Employers \cup SignalIds : Damage(id)]_vars
  /\ \A r \in Requests : WF_vars(Step(r))

----------------------------------------------------------------------------
Bodies == [actor: Employers \cup {Operator}, operation: {"write", "access"},
           record: Ids \cup {None}, digest: Rows \cup {None}]
Events == [seq: Nat, body: Bodies, previous: Seq(Bodies), digest: Seq(Bodies)]
Workers == [pc: {"new"} \cup InFlight \cup Answers, op: Writes \cup {"read", "tool"},
            token: Employers \cup {Operator}, target: Ids \cup {None}, receipt: Nat]

IsDatabase(db) ==
  /\ db = [records |-> db.records, audit |-> db.audit]
  /\ DOMAIN db.records \subseteq Ids
  /\ db.records \in [DOMAIN db.records -> Rows]
  /\ db.audit \in Seq(Events)

(* Who holds the lock is in its transaction, and nobody else is; a         *)
(* connection outside a transaction has no pending change.                 *)
TypeOK ==
  /\ up \in BOOLEAN /\ crashes \in 0 .. MaxCrashes
  /\ IsDatabase(disk)
  /\ lock \in Requests \cup {None}
  /\ DOMAIN work = Requests
  /\ worker \in [Requests -> Workers]
  /\ probe \in [Probes -> [pc: {"new", "reading"} \cup Answers, audit: Seq(Events),
                           sound: BOOLEAN]]
  /\ \A r \in Requests :
       /\ worker[r].pc \in InTransaction <=> lock = r
       /\ IsDatabase(work[r])
       /\ lock # r => work[r] = Empty

(* Whatever the requests, crashes and failures, the committed database     *)
(* passes its own verification, so no restart and no later request is      *)
(* turned away (Store.transaction, FR-003).                                *)
CommittedVerifies == Verified(disk)

(* Revocation takes effect at once: after the event that takes an          *)
(* employer's credential away, no event in the journal has that employer   *)
(* as its actor - whatever was queued, or between its two MCP transactions *)
(* (FR-002).                                                               *)
NothingAfterRevocation ==
  \A i, j \in 1 .. Len(disk.audit) :
    LET body == disk.audit[i].body
    IN  i < j /\ body.digest # None /\ body.record \in Employers /\ body.digest.credential = None
          => disk.audit[j].body.actor # body.record

(* An answer is never given for work that is not on disk: the access event *)
(* of an answered request is committed, is the request's own and no other  *)
(* answered request's, and survives every crash (FR-003).                  *)
AnsweredIsDurable ==
  \A r \in Requests : worker[r].pc \in {"committed", "ok"} =>
    /\ worker[r].receipt \in 1 .. Len(disk.audit)
    /\ disk.audit[worker[r].receipt].body = Body(worker[r].token, "access", None, None)
    /\ \A q \in Requests \ {r} :
         worker[q].pc \in {"committed", "ok"} => worker[q].receipt # worker[r].receipt

(* Concurrent requests behave as if each ran alone and at once: the        *)
(* committed database is a state of AuditedStore and changes as it does.   *)
Atomic == INSTANCE AuditedStore WITH
  records <- disk.records,
  journal <- [i \in 1 .. Len(disk.audit) |-> disk.audit[i].body]

(* Requests are atomic and serial, whichever employer's record they save   *)
(* (Store.transaction, Service.decide).                                    *)
RequestsAtomic == Atomic!Spec

(* No transaction, however it ends, keeps the write lock: it comes back    *)
(* again and again while threads are scheduled, on a sound database and on *)
(* a damaged one (Store.connect).                                          *)
LockReturns == []<>(lock = None)

(* The store fails closed: a database that does not verify is not extended *)
(* or repaired by any request (Store.transaction raises 503).              *)
DamageNotExtended == [][~Verified(disk) => disk' = disk]_vars

(* A health probe that starts on a damaged database does not call it ok.   *)
HealthSeesDamage == \A p \in Probes : probe[p].pc = "ok" => probe[p].sound

(* tests/test_exchange.py:119 asserts that health answers 200 after legal  *)
(* requests: a probe never reports damage where there is none.             *)
HealthHonest == \A p \in Probes : probe[p].pc # "integrity_failure"
=============================================================================
