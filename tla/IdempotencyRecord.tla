-------------------------- MODULE IdempotencyRecord -------------------------
(***************************************************************************)
(* One row of idempotency_records, the row of one scope and key, and the   *)
(* statements of repository/idempotency_repo.go on it.  Idempotency and    *)
(* SystemOperationLock are the two services that use such rows.            *)
(*                                                                         *)
(* Time is a clock that counts up to MaxTime.  All times are instants of   *)
(* it; 0 stands for NULL, which no comparison below tells from an instant  *)
(* that has passed.                                                        *)
(***************************************************************************)
EXTENDS Naturals

CONSTANTS
    Prints,   \* request fingerprints
    MaxTime   \* bound: the last instant of the clock

ASSUME RecordAssumption == MaxTime \in Nat

VARIABLES
    clock,
    id,            \* id of the row, 0 while there is none
    lastId,        \* the last id given out
    state,         \* its status
    fingerprint,   \* request_fingerprint
    lockedUntil,
    expiresAt

record == <<id, lastId, state, fingerprint, lockedUntil, expiresAt>>

RecordStates == {"processing", "succeeded", "failed_retryable"}

RecordTypeOK ==
    /\ clock \in 1 .. MaxTime + 1
    /\ id \in Nat /\ lastId \in Nat /\ id <= lastId
    /\ state \in RecordStates
    /\ fingerprint \in Prints
    /\ lockedUntil \in Nat
    /\ expiresAt \in Nat

RecordInit ==
    /\ clock = 1
    /\ id = 0 /\ lastId = 0
    /\ state = "succeeded" /\ fingerprint \in Prints
    /\ lockedUntil = 0 /\ expiresAt = 0

(* INSERT ... ON CONFLICT DO NOTHING found no row.                         *)
CreateProcessing(print, until, expires) ==
    /\ id = 0
    /\ lastId' = lastId + 1 /\ id' = lastId + 1
    /\ state' = "processing" /\ fingerprint' = print
    /\ lockedUntil' = until /\ expiresAt' = expires

(* Variant: the lock of the row is not looked at.                          *)
ReclaimableLocked(i, from, now) == id = i /\ state = from

(* WHERE id = i AND status = from AND locked_until <= now                  *)
Reclaimable(i, from, now) == id = i /\ state = from /\ lockedUntil <= now

(* TryReclaim of a row it matches; the fingerprint stays the old one.      *)
TryReclaim(until, expires) ==
    /\ state' = "processing"
    /\ lockedUntil' = until /\ expiresAt' = expires
    /\ UNCHANGED <<id, lastId, fingerprint>>

(* WHERE id = i AND status = 'processing' AND request_fingerprint = print  *)
Extendable(i, print) == id = i /\ state = "processing" /\ fingerprint = print

ExtendProcessingLock(until, expires) ==
    /\ lockedUntil' = until /\ expiresAt' = expires
    /\ UNCHANGED <<id, lastId, state, fingerprint>>

(* Both UPDATEs are by id only.                                            *)
Mark(i, to, until, expires) ==
    IF id = i
    THEN /\ state' = to /\ lockedUntil' = until /\ expiresAt' = expires
         /\ UNCHANGED <<id, lastId, fingerprint>>
    ELSE UNCHANGED record

MarkSucceeded(i, expires) == Mark(i, "succeeded", 0, expires)

MarkFailedRetryable(i, until, expires) == Mark(i, "failed_retryable", until, expires)

(* Variant: rows are deleted one instant early.                            *)
ExpiredEarly == expiresAt <= clock + 1

(* WHERE expires_at <= now                                                 *)
Expired == expiresAt <= clock

(* The cleanup service deletes the row.                                    *)
DeleteExpired ==
    /\ id # 0 /\ Expired
    /\ id' = 0
    /\ UNCHANGED <<lastId, state, fingerprint, lockedUntil, expiresAt>>

=============================================================================
