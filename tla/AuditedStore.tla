---------------------------- MODULE AuditedStore ----------------------------
(***************************************************************************)
(* What the exchange store promises its callers: one request at a time,    *)
(* each with a valid credential, each leaving its trace in one journal     *)
(* that only grows, and no record that changes without one, or by anyone   *)
(* but those it belongs to.                                                *)
(***************************************************************************)
EXTENDS Naturals, Sequences

CONSTANTS Employers, SignalIds, Operator, None

VARIABLES records, journal

vars == <<records, journal>>

Init ==
  /\ records = [id \in {} |-> None]
  /\ journal = <<>>

(* The operator, or an employer whose stored record holds a credential. *)
Entitled(actor) ==
  \/ actor = Operator
  \/ actor \in DOMAIN records /\ records[actor].credential # None

(* Who may write a record, and whose it is then.  An employer's record is   *)
(* the operator's to write.  Another one is made by its tenant, alone or    *)
(* with a receiver, an entitled employer too; from then on it belongs to    *)
(* the two of them, or to the tenant and the operator if it has no receiver.*)
MayChange(actor, id, parties) ==
  \/ /\ actor = Operator
     /\ id \in Employers /\ parties = [tenant |-> id, receiver |-> None]
  \/ /\ actor = parties.tenant
     /\ id \in SignalIds /\ id \notin DOMAIN records
     /\ parties.receiver # None => parties.receiver # actor /\ Entitled(parties.receiver)
  \/ /\ id \in SignalIds /\ id \in DOMAIN records
     /\ parties = records[id].parties
     /\ actor \in {parties.tenant,
                   IF parties.receiver = None THEN Operator ELSE parties.receiver}

Access(actor) == [actor |-> actor, operation |-> "access", record |-> None, digest |-> None]

Change(actor, id, row) ==
  [actor |-> actor, operation |-> "write", record |-> id, digest |-> row]

(* A request that only reads. *)
Consult(actor) ==
  /\ journal' = Append(journal, Access(actor))
  /\ UNCHANGED records

(* A request that writes one record. *)
Change1(actor, id, parties, credential) ==
  LET row == [parties |-> parties, credential |-> credential, payload |-> Len(journal) + 1]
  IN  /\ MayChange(actor, id, parties)
      /\ journal' = journal \o <<Change(actor, id, row), Access(actor)>>
      /\ records' = [x \in DOMAIN records \cup {id} |-> IF x = id THEN row ELSE records[x]]

(* A record holds no credential but that of the employer it is about. *)
Next ==
  \E actor \in Employers \cup {Operator} :
    /\ Entitled(actor)
    /\ \/ Consult(actor)
       \/ \E id \in Employers \cup SignalIds,
             parties \in [tenant: Employers, receiver: Employers \cup {None}] :
            \E credential \in {None, id} \ SignalIds : Change1(actor, id, parties, credential)

Spec == Init /\ [][Next]_vars
=============================================================================
