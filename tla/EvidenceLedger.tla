--------------------------- MODULE EvidenceLedger ---------------------------
(***************************************************************************)
(* The evidence database of src/mijobs (repository.py, ledger.py, db.py):  *)
(* append-only tables of evidence and the hash-chained ledger of the       *)
(* events that record them, written by the SQLAlchemy sessions of CLI      *)
(* commands, harvests and MCP calls.                                       *)
(*                                                                         *)
(* The database is SQLite, driven as the code drives it: what a session    *)
(* reads before its first INSERT it reads from the committed database, one *)
(* statement at a time; the INSERT takes the write lock, and from there to *)
(* COMMIT the session sees its own rows on top of a database that stands   *)
(* still.  An INSERT that fails rolls the whole transaction back and       *)
(* leaves the session unusable until it is closed.                         *)
(*                                                                         *)
(* Rows are numbered in the order they are inserted, and the number of a   *)
(* row stands for its uuid; of its columns the model keeps its key, its    *)
(* version, the rows it refers to and, as one value, what it says.  A      *)
(* SHA-256 value is the value it is taken of.  The triggers of db.py       *)
(* refuse UPDATE and DELETE, and no action here does either.               *)
(***************************************************************************)
EXTENDS Naturals, Sequences, FiniteSets

CONSTANTS
  Sessions,    \* sessions, each used by one caller at a time
  Swallowers,  \* those of HarvestRunner, which catches what a task raises
  Keys,        \* values of the columns observation_key, claim_key, ...
  Contents,    \* what rows say: the columns of data
  None,        \* NULL
  MaxRows      \* bound of the rows of the database

VARIABLES
  disk,     \* the committed database: its rows and its ledger events
  lock,     \* the session that holds SQLite's write lock, or None
  work,     \* what the session that holds the lock sees
  session   \* where each session is, and the row it is about to insert

vars == <<disk, lock, work, session>>

Unversioned == {"source_artifact", "evidence_edge"}
Revisable == {"observation", "claim", "derived_metric", "taxonomy_mapping"}
Types == Unversioned \cup Revisable \cup {"challenge"}

Row == [type: Types, key: Keys \cup {None}, version: Nat \ {0},
        supersedes: Nat \cup {None}, refs: SUBSET Nat, says: Contents]

ASSUME ConstantsAssumption ==
  /\ Swallowers \subseteq Sessions
  /\ None \notin Sessions /\ None \notin Keys /\ None \notin Nat
  /\ MaxRows \in Nat

----------------------------------------------------------------------------
Empty == [rows |-> <<>>, events |-> <<>>]

(* A SELECT reads the session's own transaction, or the committed tables.  *)
Seen(s) == IF lock = s THEN work[s] ELSE disk

RowsOf(db, types) == {i \in 1 .. Len(db.rows) : db.rows[i].type \in types}

VersionsOf(db, type, key) ==
  {i \in 1 .. Len(db.rows) : db.rows[i].type = type /\ db.rows[i].key = key}

(* ... ORDER BY version DESC LIMIT 1 *)
Current(db, type, key) ==
  CHOOSE i \in VersionsOf(db, type, key) :
    \A j \in VersionsOf(db, type, key) : db.rows[j].version <= db.rows[i].version

FirstVersion(type, key, refs, says) ==
  [type |-> type, key |-> key, version |-> 1, supersedes |-> None, refs |-> refs,
   says |-> says]

(* The next version of a key and the row it supersedes. *)
NextVersionOf(db, type, key, refs, says) ==
  LET first == FirstVersion(type, key, refs, says)
      current == Current(db, type, key)
  IN  IF VersionsOf(db, type, key) = {}
        THEN first
        ELSE [first EXCEPT !.version = db.rows[current].version + 1, !.supersedes = current]

(* Mutant: what a row refers to is not looked up. *)
AnyRefs(db, type, refs) ==
  refs \subseteq 1 .. MaxRows /\ Cardinality(refs) = (IF type \in {"source_artifact", "claim"} THEN 0 ELSE 1)

(* The rows a new row may refer to: checked by session.get or, for an      *)
(* observation's artifact, by the foreign key.                             *)
ValidRefs(db, type, refs) ==
  CASE type \in {"source_artifact", "claim"} -> refs = {}
    [] type \in {"observation", "taxonomy_mapping"} ->
         \E a \in RowsOf(db, {"source_artifact"}) : refs = {a}
    [] type = "derived_metric" ->
         refs # {} /\ refs \subseteq RowsOf(db, {"observation", "claim", "derived_metric"})
    [] type = "challenge" -> \E c \in RowsOf(db, {"claim"}) : refs = {c}
    [] type = "evidence_edge" ->
         \E c \in RowsOf(db, {"claim"}), e \in RowsOf(db, Revisable \cup {"source_artifact"}) :
           db.rows[e].type # "taxonomy_mapping" /\ refs = {c, e}

(* Mutant: no unique constraint. *)
NoConstraint(db, row) == TRUE

(* UniqueConstraint(<key>, "version") *)
Unique(db, row) ==
  row.key # None =>
    \A i \in VersionsOf(db, row.type, row.key) : db.rows[i].version # row.version

Body(row, id) == [type |-> row.type, entity |-> id, payload |-> row]

HeadHash(events) == IF events = <<>> THEN <<>> ELSE events[Len(events)].digest

(* Mutant: the head of the chain is read outside the transaction. *)
EventAfterCommitted(events, body) ==
  [sequence |-> Len(events) + 1, body |-> body, previous |-> HeadHash(disk.events),
   digest |-> Append(HeadHash(disk.events), body)]

(* append_event: the next event, chained to the last one. *)
EventAfter(events, body) ==
  [sequence |-> Len(events) + 1, body |-> body, previous |-> HeadHash(events),
   digest |-> Append(HeadHash(events), body)]

(* verify_ledger. *)
Chained(events) ==
  \A n \in 1 .. Len(events) :
    /\ events[n].sequence = n
    /\ events[n].previous = (IF n = 1 THEN <<>> ELSE events[n - 1].digest)
    /\ events[n].digest = Append(events[n].previous, events[n].body)

----------------------------------------------------------------------------
NoRow == [type |-> None]

Init ==
  /\ disk = Empty
  /\ lock = None
  /\ work = [s \in Sessions |-> Empty]
  /\ session = [s \in Sessions |-> [pc |-> "idle", row |-> NoRow]]

Goto(s, pc) == session' = [session EXCEPT ![s].pc = pc]

Prepare(s, row) ==
  /\ session[s].pc = "idle"
  /\ Len(Seen(s).rows) < MaxRows
  /\ session' = [session EXCEPT ![s] = [pc |-> "ready", row |-> row]]
  /\ UNCHANGED <<disk, lock, work>>

(* A row without a key is always its own first version. *)
AddUnversioned(s, type, refs, says) ==
  /\ type \in Unversioned
  /\ ValidRefs(Seen(s), type, refs)
  /\ Prepare(s, FirstVersion(type, None, refs, says))

AddSourceArtifact(s, says) == AddUnversioned(s, "source_artifact", {}, says)

AddEvidence(s, refs, says) == AddUnversioned(s, "evidence_edge", refs, says)

(* A row with a key is the next version of it. *)
AddVersioned(s, type, key, refs, says) ==
  /\ type \in Revisable
  /\ ValidRefs(Seen(s), type, refs)
  /\ Prepare(s, NextVersionOf(Seen(s), type, key, refs, says))

AddObservation(s, key, refs, says) == AddVersioned(s, "observation", key, refs, says)

AddDerivedMetric(s, key, refs, says) == AddVersioned(s, "derived_metric", key, refs, says)

AddTaxonomyMapping(s, key, refs, says) == AddVersioned(s, "taxonomy_mapping", key, refs, says)

AddClaim(s, key, says) == AddVersioned(s, "claim", key, {}, says)

(* add_challenge: version 1, whether or not the key is taken. *)
AddChallenge(s, key, refs, says) ==
  /\ ValidRefs(Seen(s), "challenge", refs)
  /\ Prepare(s, FirstVersion("challenge", key, refs, says))

(* revise_challenge: of the claim that the challenge is about. *)
ReviseChallenge(s, key, says) ==
  /\ VersionsOf(Seen(s), "challenge", key) # {}
  /\ LET current == Current(Seen(s), "challenge", key)
     IN  Prepare(s, NextVersionOf(Seen(s), "challenge", key, Seen(s).rows[current].refs, says))

(* session.flush() of the row: it takes the write lock. *)
Insert(s) ==
  /\ session[s].pc = "ready"
  /\ lock \in {None, s}
  /\ Len(Seen(s).rows) < MaxRows
  /\ Unique(Seen(s), session[s].row)
  /\ lock' = s
  /\ work' = [work EXCEPT ![s] = [Seen(s) EXCEPT !.rows = Append(@, session[s].row)]]
  /\ Goto(s, "inserted")
  /\ UNCHANGED disk

(* append_event for the row just inserted, and its flush. *)
AppendEvent(s) ==
  /\ session[s].pc = "inserted"
  /\ work' = [work EXCEPT ![s].events =
       Append(@, EventAfter(@, Body(session[s].row, Len(work[s].rows))))]
  /\ Goto(s, "idle")
  /\ UNCHANGED <<disk, lock>>

(* HarvestRunner catches the exception and goes on to the next task; all   *)
(* others let it through and leave the session's with block.               *)
AfterException(s) == IF s \in Swallowers THEN "idle" ELSE "raised"

(* canonical_json refuses the payload (NaN, an infinity): append_event     *)
(* raises, and the row stays in the transaction.                           *)
AppendRaises(s) ==
  /\ session[s].pc = "inserted"
  /\ Goto(s, AfterException(s))
  /\ UNCHANGED <<disk, lock, work>>

(* Mutant: the objects of the rolled back transaction stay in the session. *)
DiscardKeepsRows(s) ==
  /\ lock' = IF lock = s THEN None ELSE lock
  /\ UNCHANGED <<disk, work>>

(* Roll back: the lock is handed back and the session's rows are gone. *)
Discard(s) ==
  /\ lock' = IF lock = s THEN None ELSE lock
  /\ work' = [work EXCEPT ![s] = Empty]
  /\ UNCHANGED disk

(* A flush fails: no lock within 5 s, a version already taken, a full disk *)
(* - SQLAlchemy rolls back and refuses the session's further use.          *)
FlushFails(s) ==
  /\ session[s].pc \in {"ready", "inserted"}
  /\ Discard(s)
  /\ Goto(s, "broken")

Commit(s) ==
  /\ session[s].pc = "idle"
  /\ lock = s
  /\ disk' = work[s]
  /\ lock' = None
  /\ work' = [work EXCEPT ![s] = Empty]
  /\ UNCHANGED session

(* Mutant: the connection goes back to the pool without a rollback. *)
CloseWithoutRollback(s) ==
  /\ session[s].pc # "idle" \/ lock = s
  /\ session' = [session EXCEPT ![s] = [pc |-> "idle", row |-> NoRow]]
  /\ UNCHANGED <<disk, lock, work>>

(* The session is closed without a commit: an exception leaves the with    *)
(* block, or the process dies.                                             *)
Close(s) ==
  /\ session[s].pc # "idle" \/ lock = s
  /\ session' = [session EXCEPT ![s] = [pc |-> "idle", row |-> NoRow]]
  /\ Discard(s)

RepositoryCall(s) ==
  \E says \in Contents :
    \/ AddSourceArtifact(s, says)
    \/ \E key \in Keys : AddClaim(s, key, says) \/ ReviseChallenge(s, key, says)
    \/ \E refs \in SUBSET (1 .. MaxRows) :
         \/ AddEvidence(s, refs, says)
         \/ \E key \in Keys :
              \/ AddObservation(s, key, refs, says)
              \/ AddDerivedMetric(s, key, refs, says)
              \/ AddTaxonomyMapping(s, key, refs, says)
              \/ AddChallenge(s, key, refs, says)

SessionStep(s) ==
  \/ Insert(s) \/ AppendEvent(s) \/ AppendRaises(s) \/ FlushFails(s)
  \/ Commit(s) \/ Close(s)

Next == \E s \in Sessions : RepositoryCall(s) \/ SessionStep(s)

Spec == Init /\ [][Next]_vars

----------------------------------------------------------------------------
Bodies == [type: Types, entity: Nat, payload: Row]
Event == [sequence: Nat, body: Bodies, previous: Seq(Bodies), digest: Seq(Bodies)]

IsDatabase(db) ==
  /\ db = [rows |-> db.rows, events |-> db.events]
  /\ db.rows \in Seq(Row)
  /\ db.events \in Seq(Event)

(* Only the holder of the lock has uncommitted rows, and every session     *)
(* with a row inserted or an exception to deal with holds it.              *)
TypeOK ==
  /\ IsDatabase(disk)
  /\ lock \in Sessions \cup {None}
  /\ DOMAIN work = Sessions
  /\ session \in [Sessions -> [pc: {"idle", "ready", "inserted", "raised", "broken"},
                            row: Row \cup {NoRow}]]
  /\ \A s \in Sessions :
       /\ IsDatabase(work[s])
       /\ lock # s => work[s] = Empty
       /\ session[s].pc \in {"ready", "inserted"} => session[s].row \in Row
       /\ session[s].pc \in {"inserted", "raised"} => lock = s
       /\ session[s].pc = "broken" => lock # s

(* The committed ledger verifies whatever sessions interleave, fail or die *)
(* (FR-008): no two of them chain an event to the same head.               *)
ChainVerifies == Chained(disk.events)

(* FR-007: "Append a hash-chained ledger event for every evidentiary       *)
(* write".  The committed events record the committed rows as they are,    *)
(* each of them once and in the order they were inserted.                  *)
EveryWriteLedgered ==
  /\ Len(disk.events) = Len(disk.rows)
  /\ \A i \in 1 .. Len(disk.rows) : disk.events[i].body = Body(disk.rows[i], i)

(* FR-004: the versions of a key form one line from 1 on, each superseding *)
(* the one before - no two sessions that read the same current version     *)
(* fork it - and a revised challenge stays about its claim.                *)
OneLineage ==
  \A i \in RowsOf(disk, Revisable \cup {"challenge"}) :
    LET row == disk.rows[i]
    IN  /\ row.version = 1 <=> row.supersedes = None
        /\ row.version # 1 =>
             /\ row.supersedes \in VersionsOf(disk, row.type, row.key) \cap 1 .. i - 1
             /\ disk.rows[row.supersedes].version = row.version - 1
             /\ row.type = "challenge" => disk.rows[row.supersedes].refs = row.refs
        /\ \A j \in VersionsOf(disk, row.type, row.key) \ {i} :
             disk.rows[j].version # row.version

(* Read through the ledger, the database is a history as HistoryLog        *)
(* describes it: it only grows, by whole transactions, and never cites     *)
(* what is not recorded before.                                            *)
History == INSTANCE HistoryLog WITH
  history <- [n \in 1 .. Len(disk.events) |-> disk.events[n].body.payload]

(* Commits extend the history and change none of it (CONTRIBUTING.md:8     *)
(* "Never rewrite evidence history").                                      *)
HistoryGrows == History!Spec
=============================================================================
