----------------------------- MODULE HttpQuota -----------------------------
(***************************************************************************)
(* The outbound quotas of sources/http_policy.py: every client of          *)
(* governed_client, in whatever process, reserves a time for its next      *)
(* request to a provider in one shared database, sleeps until then, and    *)
(* records a cooldown when the provider answers 429 or 503.                *)
(*                                                                         *)
(* One bucket (provider) is modelled; what the requests to the others do   *)
(* to its rows is Sweep.  Time is that of the host's clock, in units of    *)
(* the model's own.  A client reads the clock, then waits for the database *)
(* up to MaxLag, and so acts on a time that is past.                       *)
(***************************************************************************)
EXTENDS Integers, Sequences, FiniteSets

CONSTANTS
  Clients,     \* threads and processes that hold a governed_client
  Interval,    \* seconds between two requests
  Limits,      \* pairs of a window and the most requests in it
  Retention,   \* rows older than this are deleted
  MaxWait,     \* the longest sleep
  MinCooldown, \* the shortest cooldown
  RetryAfters, \* what a provider may ask for
  MaxLag,      \* the longest wait for the database
  MaxTime      \* bound of the clock

VARIABLES
  now,         \* the clock
  requests,    \* the rows of the table requests: the times reserved
  cooldown,    \* the row of the table cooldown, 0 if there is none
  client,      \* where each client is, the time it goes by - of the clock when
               \* it read it, or when its request is due - and the end of the
               \* cooldown that it is about to record
  reserved,    \* history: the time reserved and the time due of each request
  blocked      \* history: when each cooldown was asked for, when it was
               \* recorded, and until when

vars == <<now, requests, cooldown, client, reserved, blocked>>

ASSUME ConstantsAssumption ==
  /\ {Retention, MaxWait, MinCooldown, MaxLag, MaxTime} \subseteq Nat
  /\ Interval \in Nat \ {0} /\ MaxLag + Interval <= Retention
  /\ RetryAfters \subseteq Int
  /\ \A limit \in Limits : limit[1] \in 1 .. Retention /\ limit[2] \in Nat

----------------------------------------------------------------------------
Larger(a, b) == IF a >= b THEN a ELSE b

Idle == [pc |-> "idle", at |-> 0, until |-> 0]

Goto(c, pc, at) == client' = [client EXCEPT ![c] = [pc |-> pc, at |-> at, until |-> 0]]

(* The epoch is past: the first request of all need not wait. *)
Init ==
  /\ now = Interval
  /\ requests = {} /\ cooldown = 0
  /\ client = [c \in Clients |-> Idle]
  /\ reserved = <<>> /\ blocked = {}

Tick ==
  /\ now < MaxTime
  /\ now' = now + 1
  /\ UNCHANGED <<requests, cooldown, client, reserved, blocked>>

(* moment = time.time(), and the wait for the write lock begins. *)
Ask(c) ==
  /\ client[c].pc = "idle"
  /\ Goto(c, "asking", now)
  /\ UNCHANGED <<now, requests, cooldown, reserved, blocked>>

Kept(moment) == {at \in requests : at >= moment - Retention}

(* Mutant: requests that are still to come are not counted. *)
RecentPast(moment, window) == {at \in Kept(moment) : at > moment - window /\ at <= moment}

Recent(moment, window) == {at \in Kept(moment) : at > moment - window}

WithinLimits(moment) == \A limit \in Limits : Cardinality(Recent(moment, limit[1])) < limit[2]

(* Mutant: the interval is kept from the last request that was sent. *)
AfterLastSent(moment) ==
  LET sent == {at \in Kept(moment) : at <= moment}
      last == IF sent = {} THEN 0 ELSE CHOOSE at \in sent : \A other \in sent : other <= at
  IN  Larger(moment, last + Interval)

Scheduled(moment) ==
  LET last == IF Kept(moment) = {} THEN 0
              ELSE CHOOSE at \in Kept(moment) : \A other \in Kept(moment) : other <= at
  IN  Larger(moment, last + Interval)

(* Mutant: however long the queue. *)
GrantedAnyDelay(moment) == cooldown <= moment /\ WithinLimits(moment)

Granted(moment) ==
  /\ cooldown <= moment
  /\ WithinLimits(moment)
  /\ Scheduled(moment) - moment <= MaxWait

(* QuotaStore.reserve gets the lock, and the client sleeps for the delay   *)
(* that it returns.                                                        *)
Reserve(c) ==
  LET moment == client[c].at
      at == Scheduled(moment)
      due == now + (at - moment)
  IN  /\ client[c].pc = "asking"
      /\ now - moment <= MaxLag
      /\ Granted(moment)
      /\ requests' = Kept(moment) \cup {at}
      /\ Goto(c, "sleeping", due)
      /\ reserved' = Append(reserved, [at |-> at, due |-> due])
      /\ UNCHANGED <<now, cooldown, blocked>>

(* A cooldown, a limit or the queue raises, and so does a lock that does   *)
(* not come; the transaction is rolled back.                               *)
Refuse(c) ==
  /\ client[c].pc = "asking"
  /\ ~Granted(client[c].at) \/ now - client[c].at >= MaxLag
  /\ Goto(c, "idle", 0)
  /\ UNCHANGED <<now, requests, cooldown, reserved, blocked>>

Send(c) ==
  /\ client[c].pc = "sleeping"
  /\ now >= client[c].at
  /\ Goto(c, "sent", 0)
  /\ UNCHANGED <<now, requests, cooldown, reserved, blocked>>

(* Any other answer, or none. *)
Answered(c) ==
  /\ client[c].pc = "sent"
  /\ Goto(c, "idle", 0)
  /\ UNCHANGED <<now, requests, cooldown, reserved, blocked>>

(* Mutant: the last answer decides. *)
LastAnswer(until) == until

(* until = MAX(until, excluded.until) *)
Extended(until) == Larger(cooldown, until)

(* 429 or 503: QuotaStore.block computes the end of the cooldown, and then *)
(* its INSERT waits for the write lock.                                    *)
Throttled(c) ==
  /\ client[c].pc = "sent"
  /\ \E seconds \in RetryAfters :
       client' = [client EXCEPT ![c] = [pc |-> "blocking", at |-> now,
                                        until |-> now + Larger(MinCooldown, seconds)]]
  /\ UNCHANGED <<now, requests, cooldown, reserved, blocked>>

(* ... which comes: the cooldown is recorded, and the client told so. *)
Block(c) ==
  LET until == client[c].until
  IN  /\ client[c].pc = "blocking"
      /\ now - client[c].at <= MaxLag
      /\ cooldown' = Extended(until)
      /\ blocked' = blocked \cup {[asked |-> client[c].at, from |-> now, until |-> until]}
      /\ Goto(c, "idle", 0)
      /\ UNCHANGED <<now, requests, reserved>>

(* ... or does not come: block raises, and no cooldown is recorded. *)
BlockFails(c) ==
  /\ client[c].pc = "blocking"
  /\ now - client[c].at >= MaxLag
  /\ Goto(c, "idle", 0)
  /\ UNCHANGED <<now, requests, cooldown, reserved, blocked>>

(* The process dies; what it reserved stays reserved, and what it has not  *)
(* recorded is not.                                                        *)
Die(c) ==
  /\ client[c].pc \in {"asking", "sleeping", "blocking"}
  /\ Goto(c, "idle", 0)
  /\ UNCHANGED <<now, requests, cooldown, reserved, blocked>>

(* A reservation in another bucket deletes the old rows of all buckets. *)
Sweep ==
  /\ \E moment \in now - MaxLag .. now : requests' = Kept(moment)
  /\ requests' # requests
  /\ UNCHANGED <<now, cooldown, client, reserved, blocked>>

ClientStep(c) ==
  \/ Ask(c) \/ Reserve(c) \/ Refuse(c) \/ Send(c) \/ Answered(c)
  \/ Throttled(c) \/ Block(c) \/ BlockFails(c) \/ Die(c)

Next == Tick \/ Sweep \/ \E c \in Clients : ClientStep(c)

Spec == Init /\ [][Next]_vars

----------------------------------------------------------------------------
(* And nothing is reserved, or slept, further ahead than MaxWait. *)
TypeOK ==
  /\ now \in Nat /\ cooldown \in Nat
  /\ requests \subseteq 0 .. now + MaxWait
  /\ client \in [Clients -> [pc: {"idle", "asking", "sleeping", "sent", "blocking"},
                             at: Nat, until: Nat]]
  /\ \A c \in Clients : client[c].at <= now + MaxWait
  /\ reserved \in Seq([at: Nat, due: Nat])
  /\ blocked \subseteq [asked: Nat, from: Nat, until: Nat]

(* Reservations are spaced (docs/source-policy.md:7 "with 1.1-second       *)
(* spacing"): each is for at least Interval after every one before it,     *)
(* though clients reserve on a stale clock, rows are swept, and clients    *)
(* die.                                                                    *)
SpacedReservations ==
  \A i, j \in 1 .. Len(reserved) : i < j => reserved[j].at >= reserved[i].at + Interval

(* Requests go out within the quota (docs/source-policy.md:7 "per rolling  *)
(* 24 hours"): no window of the provider's, less the longest wait for the  *)
(* database, has more requests due than its limit.                         *)
QuotaKept ==
  \A limit \in Limits : \A i \in 1 .. Len(reserved) :
    Cardinality({j \in 1 .. Len(reserved) :
                   /\ reserved[j].due <= reserved[i].due
                   /\ reserved[j].due > reserved[i].due - (limit[1] - MaxLag)}) <= limit[2]

(* A cooldown silences every client (docs/source-policy.md:15 "records a   *)
(* cooldown honoring Retry-After"): it is recorded within MaxLag of the    *)
(* answer that asks for it, or not at all; and once it is, and the         *)
(* requests reserved until then have gone out, within MaxWait, none is due *)
(* before its end, whatever shorter cooldowns follow.                      *)
CooldownDrains ==
  \A b \in blocked :
    /\ b.from <= b.asked + MaxLag
    /\ \A i \in 1 .. Len(reserved) :
         ~(b.from + MaxWait < reserved[i].due /\ reserved[i].due < b.until)
=============================================================================
