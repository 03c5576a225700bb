----------------------------- MODULE Rendezvous -----------------------------
(***************************************************************************)
(* tools/production_together/coordination_server.py: the memory-only       *)
(* meeting point of the two devices of one acceptance run.  The first      *)
(* invite starts the run's lifetime; roles then leave checkpoints that     *)
(* never change.  Requests come from both devices in any order, repeated   *)
(* at will, and each is answered under RendezvousState._lock.              *)
(***************************************************************************)
EXTENDS Integers, FiniteSets

CONSTANTS RunIds,          \* run IDs that requests carry
          run_id,          \* the configured one
          Invites,         \* well-formed invites
          Roles, Names,    \* checkpoint keys
          Values,          \* checkpoint values
          ttl_seconds,
          MAX_CHECKPOINTS,
          MaxClock         \* bound: the clock stops here

VARIABLES clock,
          stored,          \* _stored
          checkpoints,     \* _checkpoints
          expired,         \* _expired
          answer,          \* the latest answer of this moment
          told,            \* what each key has been reported to be
          born             \* when an invite was first accepted

rendezvous == <<clock, stored, checkpoints, expired, answer, told, born>>

Keys == Roles \X Names
InviteKey == <<"invite", "invite">>
Malformed == "malformed"

ASSUME RendezvousAssumption ==
    /\ run_id \in RunIds
    /\ ttl_seconds \in Nat \ {0}
    /\ MAX_CHECKPOINTS \in Nat
    /\ InviteKey \notin Keys    \* the path of the invite is not a checkpoint's

NoInvite == [value |-> "none", expires_at |-> 0]
NoAnswer == [code |-> 0, key |-> InviteKey, value |-> "none"]

\* _expire_locked, which every operation calls first.
\* One moment too late.
IsDueLate == stored # NoInvite /\ clock > stored.expires_at
IsDue == stored # NoInvite /\ clock >= stored.expires_at
Expired == expired \/ IsDue
Stored == IF IsDue THEN NoInvite ELSE stored
Checkpoints == IF IsDue THEN <<>> ELSE checkpoints
ExpireLocked == expired' = Expired

\* _json.
Answer(code, key, value) ==
    /\ answer' = [code |-> code, key |-> key, value |-> value]
    /\ told' = IF code = 200 THEN [told EXCEPT ![key] = @ \cup {value}] ELSE told

\* _valid_query, _read_payload, _valid_invite and the checks of payload
\* fields: a request that fails one changes nothing, not even the expiry.
Refuse(key, value, run) ==
    /\ value = Malformed \/ run # run_id
    /\ Answer(IF value = Malformed THEN 400 ELSE 404, key, value)
    /\ UNCHANGED <<stored, checkpoints, expired, born>>

\* _put_invite and put.
PutInvite(invite, run) ==
    /\ invite # Malformed /\ run = run_id
    /\ ExpireLocked
    /\ checkpoints' = Checkpoints
    /\ IF Expired \/ Stored # NoInvite
       THEN /\ Answer(IF Expired THEN 410
                      ELSE IF Stored.value = invite THEN 200 ELSE 409, InviteKey, invite)
            /\ stored' = Stored
            /\ UNCHANGED born
       ELSE /\ Answer(200, InviteKey, invite)
            /\ stored' = [value |-> invite, expires_at |-> clock + ttl_seconds]
            /\ born' = IF born = -1 THEN clock ELSE born

\* _get_invite and get.
GetInvite(run) ==
    /\ run = run_id
    /\ ExpireLocked
    /\ stored' = Stored /\ checkpoints' = Checkpoints
    /\ IF Expired THEN Answer(410, InviteKey, "none")
       ELSE IF Stored = NoInvite THEN Answer(404, InviteKey, "none")
       ELSE Answer(200, InviteKey, Stored.value)
    /\ UNCHANGED born

\* A checkpoint may be written again.
PutStatusAgain(key, value) ==
    IF Expired THEN 410
    ELSE IF Stored = NoInvite THEN 409
    ELSE IF key \notin DOMAIN Checkpoints /\ Cardinality(DOMAIN Checkpoints) >= MAX_CHECKPOINTS THEN 429
    ELSE 200

\* _put_checkpoint and put_checkpoint.
PutStatus(key, value) ==
    IF Expired THEN 410
    ELSE IF Stored = NoInvite THEN 409
    ELSE IF key \in DOMAIN Checkpoints
         THEN IF Checkpoints[key] = value THEN 200 ELSE 409
    ELSE IF Cardinality(DOMAIN Checkpoints) >= MAX_CHECKPOINTS THEN 429
    ELSE 200

PutCheckpoint(key, value, run) ==
    /\ value # Malformed /\ run = run_id
    /\ ExpireLocked
    /\ stored' = Stored
    /\ Answer(PutStatus(key, value), key, value)
    /\ checkpoints' = IF PutStatus(key, value) = 200
                      THEN [k \in DOMAIN Checkpoints \cup {key} |->
                               IF k = key THEN value ELSE Checkpoints[k]]
                      ELSE Checkpoints
    /\ UNCHANGED born

\* _get_checkpoint and get_checkpoint.
GetCheckpoint(key, run) ==
    /\ run = run_id
    /\ ExpireLocked
    /\ stored' = Stored /\ checkpoints' = Checkpoints
    /\ IF Expired THEN Answer(410, key, "none")
       ELSE IF key \notin DOMAIN Checkpoints THEN Answer(404, key, "none")
       ELSE Answer(200, key, Checkpoints[key])
    /\ UNCHANGED born

Tick == /\ clock < MaxClock
        /\ clock' = clock + 1
        /\ answer' = NoAnswer
        /\ UNCHANGED <<stored, checkpoints, expired, told, born>>

RendezvousInit ==
    /\ clock = 0
    /\ stored = NoInvite /\ checkpoints = <<>> /\ expired = FALSE
    /\ answer = NoAnswer
    /\ told = [k \in Keys \cup {InviteKey} |-> {}]
    /\ born = -1

Request(run) ==
    \/ \E invite \in Invites \cup {Malformed} :
          PutInvite(invite, run) \/ Refuse(InviteKey, invite, run)
    \/ GetInvite(run)
    \/ \E key \in Keys, value \in Values \cup {Malformed} :
          PutCheckpoint(key, value, run) \/ Refuse(key, value, run)
    \/ \E key \in Keys : GetCheckpoint(key, run)

RendezvousNext ==
    \/ Tick
    \/ \E run \in RunIds : Request(run) /\ UNCHANGED clock

RendezvousSpec == RendezvousInit /\ [][RendezvousNext]_rendezvous

-----------------------------------------------------------------------------

RendezvousTypeOK ==
    /\ clock \in Nat /\ born \in Nat \cup {-1}
    /\ expired \in BOOLEAN
    /\ stored \in {NoInvite} \cup [value : Invites, expires_at : Nat]
    /\ DOMAIN checkpoints \subseteq Keys
    /\ \A k \in DOMAIN checkpoints : checkpoints[k] \in Values

(* Whatever the two devices publish, retry or read, everyone is told one   *)
(* and the same value of each key: a successful PUT and every successful   *)
(* GET agree, also across the expiry of the run.                           *)
OneStory == \A k \in DOMAIN told : Cardinality(told[k]) <= 1

(* A run has one lifetime, counted from the first invite: nobody gets a    *)
(* success before it or after it, and a repeated PUT does not extend it.   *)
OneLifetime == answer.code = 200 => born # -1 /\ clock < born + ttl_seconds
=============================================================================
