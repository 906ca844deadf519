------------------------------- MODULE Storage -------------------------------
(***************************************************************************)
(* The certificate storage of the primary, node/bft/src/helpers/storage.rs:*)
(* the current round, the garbage collection round and the certificates    *)
(* above it.  The three maps `rounds`, `certificates` and `batch_ids` hold *)
(* the same certificates under different keys and are one set here;        *)
(* timestamps, signatures (always forged for the whole committee) and      *)
(* transmissions are abstracted away.                                      *)
(*                                                                         *)
(* A certificate carries the run of the process that made it, because a    *)
(* batch made again after a restart is signed again and has another ID.    *)
(***************************************************************************)
EXTENDS Committee

CONSTANT MaxGcRounds        \* the number of rounds kept in storage

ASSUME StorageAssumption == MaxGcRounds \in Nat \ {0}

VARIABLES current_round,    \* the round of the primary, at least 1
          gc_round,         \* rounds up to this one were collected
          certificates      \* the certificates in storage

storageVars == <<current_round, gc_round, certificates>>

CertificateID == [author : Validator, round : Nat, run : Nat]

Certificate == [author : Validator, round : Nat, run : Nat,
                previous : SUBSET CertificateID]

ID(c) == [author |-> c.author, round |-> c.round, run |-> c.run]

IDs(C) == {ID(c) : c \in C}

Authors(C) == {c.author : c \in C}

\* Mutant: the subtraction does not saturate.
PlainSub(a, b) == a - b

SaturatingSub(a, b) == IF a > b THEN a - b ELSE 0

MaxOf(a, b) == IF a >= b THEN a ELSE b

-----------------------------------------------------------------------------
(* Queries.                                                                *)

CertificatesFor(round) == {c \in certificates : c.round = round}

ContainsInRoundFrom(round, author) ==
    \E c \in certificates : c.round = round /\ c.author = author

\* The part of check_batch_header about the previous certificates.
PreviousOk(c) ==
    c.round - 1 > gc_round =>
        /\ CertificatesFor(c.round - 1) # {}
        /\ \A id \in c.previous :
              id.round = c.round - 1 /\ id \in IDs(certificates)
        /\ \A i, j \in c.previous : i.author = j.author => i = j
        /\ IsQuorum(Authors(c.previous))

\* insert_certificate succeeds: the round is above GC and check_certificate holds.
CanInsert(c) ==
    /\ c.round > gc_round
    /\ ID(c) \notin IDs(certificates)
    /\ ~ContainsInRoundFrom(c.round, c.author)
    /\ PreviousOk(c)

-----------------------------------------------------------------------------
(* Operations.                                                             *)

\* insert_certificate and insert_certificate_atomic; a refused certificate
\* leaves the storage as it was.
InsertCertificate(c) ==
    certificates' = IF CanInsert(c) THEN certificates \cup {c} ELSE certificates

\* Mutant: garbage collection removes one round too many.
GarbageCollectOneMore(next_round) ==
    LET next_gc == SaturatingSub(next_round, MaxGcRounds)
    IN  IF next_gc > gc_round
        THEN /\ gc_round' = next_gc
             /\ certificates' = {c \in certificates : c.round \notin gc_round..(next_gc + 1)}
        ELSE UNCHANGED <<gc_round, certificates>>

\* garbage_collect_certificates.
GarbageCollect(next_round) ==
    LET next_gc == SaturatingSub(next_round, MaxGcRounds)
    IN  IF next_gc > gc_round
        THEN /\ gc_round' = next_gc
             /\ certificates' = {c \in certificates : c.round \notin gc_round..next_gc}
        ELSE UNCHANGED <<gc_round, certificates>>

\* increment_to_next_round, where latest is the round of the latest block,
\* which is also the starting round of the latest committee.
Incremented(round, latest) ==
    IF round + 1 < current_round THEN current_round
    ELSE IF round + 1 < latest THEN MaxOf(current_round, latest)
    ELSE round + 1

\* The loop of try_increment_to_the_next_round that moves the storage to the
\* round before next_round, if that is within the GC range.
FastForwarded(next_round) ==
    IF current_round + MaxGcRounds >= next_round
    THEN MaxOf(current_round, next_round - 1)
    ELSE current_round
=============================================================================
