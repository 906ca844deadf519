--------------------------- MODULE StorageService ---------------------------
(***************************************************************************)
(* The persistent storage service of the transmissions,                    *)
(* node/bft/storage-service/src/persistent.rs: two maps in the database    *)
(* from a transmission ID to the certificates that hold it, and an LRU     *)
(* cache in memory in front of the first.  The cache of the aborted IDs is *)
(* written and never read, and is left out.                                *)
(*                                                                         *)
(* The operations on a set of IDs are one write to the database per ID,    *)
(* and a crash may come between two of them: an operator below is the work *)
(* on one ID.  A body is the one its ID names.  Database errors, which the *)
(* code logs and otherwise ignores, are left out.                          *)
(***************************************************************************)
EXTENDS Naturals, FiniteSets

CONSTANTS TransmissionID,
          CacheCapacity     \* the capacity of the LRU cache

ASSUME ServiceAssumption == CacheCapacity \in Nat \ {0}

VARIABLES transmissions,                \* ID -> the certificates that hold it
          aborted_transmission_ids,     \* likewise, for the aborted ones
          cache_transmissions           \* the IDs in the LRU cache

databaseVars == <<transmissions, aborted_transmission_ids>>
serviceVars == <<databaseVars, cache_transmissions>>

Empty == [t \in {} |-> {}]

\* open: the maps are those on disk, the cache is empty.
Open == cache_transmissions' = {}

-----------------------------------------------------------------------------
(* Queries.                                                                *)

Stored == DOMAIN transmissions \cup DOMAIN aborted_transmission_ids

\* contains_transmission.
ContainsTransmission(t) == t \in Stored

\* get_transmission: the cache first, and never the aborted ones.
GetTransmission(t) == t \in cache_transmissions \/ t \in DOMAIN transmissions

\* find_missing_transmissions: what a certificate declares, the caller provides and
\* storage lacks; it fails unless the rest is stored or aborted.
FindMissing(ids, provided) == (ids \cap provided) \ Stored

\* Mutant: what nobody provides is not missed.
AnyUnprovided(ids, provided, aborted) == TRUE

NoneUnprovided(ids, provided, aborted) == ids \subseteq Stored \cup provided \cup aborted

-----------------------------------------------------------------------------
(* Updates of one entry.                                                   *)

\* The map with the certificate among the holders of t.
With(map, t, certificate) ==
    [u \in DOMAIN map \cup {t} |->
        (IF u \in DOMAIN map THEN map[u] ELSE {})
            \cup (IF u = t THEN {certificate} ELSE {})]

\* Mutant: an entry without holders stays.
WithoutKeepingEmpty(map, t, certificate) ==
    [u \in DOMAIN map |-> IF u = t THEN map[u] \ {certificate} ELSE map[u]]

\* The map without it; an entry that loses its last holder goes.
Without(map, t, certificate) ==
    [u \in {v \in DOMAIN map : v # t \/ map[v] \ {certificate} # {}} |->
        IF u = t THEN map[u] \ {certificate} ELSE map[u]]

\* LruCache::put, where the least recent entry may be any.
CachePut(t) ==
    IF t \in cache_transmissions \/ Cardinality(cache_transmissions) < CacheCapacity
    THEN cache_transmissions' = cache_transmissions \cup {t}
    ELSE \E old \in cache_transmissions :
            cache_transmissions' = (cache_transmissions \ {old}) \cup {t}

\* insert_transmissions, for an ID of the certificate: an ID that is neither in the
\* map nor among the missing ones given is passed over.
InsertTransmission(t, certificate, missing) ==
    /\ IF t \in DOMAIN transmissions \cup missing
       THEN /\ transmissions' = With(transmissions, t, certificate)
            /\ CachePut(t)
       ELSE UNCHANGED <<transmissions, cache_transmissions>>
    /\ UNCHANGED aborted_transmission_ids

\* insert_transmissions, for an aborted ID.
InsertAborted(t, certificate) ==
    /\ aborted_transmission_ids' = With(aborted_transmission_ids, t, certificate)
    /\ UNCHANGED <<transmissions, cache_transmissions>>

\* remove_transmissions, for an ID of the certificate.  The cache keeps it.
RemoveTransmission(t, certificate) ==
    /\ transmissions' = Without(transmissions, t, certificate)
    /\ aborted_transmission_ids' = Without(aborted_transmission_ids, t, certificate)
    /\ UNCHANGED cache_transmissions

=============================================================================
