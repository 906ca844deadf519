-------------------------- MODULE PersistenceProofs --------------------------
(***************************************************************************)
(* What the disk and the storage promise across runs, crashes and cleans,  *)
(* for every number of runs, rounds, transmissions and cleans and every    *)
(* capacity of the cache.                                                  *)
(*                                                                         *)
(* A clean leaves nothing of the former chain (CleanForgets).  To be       *)
(* preserved by a step, NothingFromBefore must hold of all that is on its  *)
(* way to the disk: the certificates being made, loaded or saved and the   *)
(* writes under way.  The clean command itself is safe because a process   *)
(* that is down has nothing on its way, and because the cache file is gone *)
(* before the ledger is.                                                   *)
(*                                                                         *)
(* Types (PersistenceTypes), what the cache alone still has                *)
(* (CacheIsConfirmed) and what a commit finds (CommitFindsAll) rest on it  *)
(* and on each other, and on all of them rests what comes back after a     *)
(* shutdown (PendingComesBack) and what storage refuses (StoredIsHeld).    *)
(* The locators (BuiltAreAccepted, AcceptedExactly, WrittenIsRead) depend  *)
(* on no state.                                                            *)
(***************************************************************************)
EXTENDS Persistence, FiniteSetTheorems, SequenceTheorems, TLAPS

-----------------------------------------------------------------------------
(* Types.  The next round is a number because the storage is finite: it is   *)
(* one more than the greatest round in it.  The cache stays within its       *)
(* capacity because it is finite too.                                        *)

MapType(map) ==
    /\ DOMAIN map \subseteq TransmissionID
    /\ \A t \in DOMAIN map : map[t] \subseteq CertificateID /\ map[t] # {}

ServiceType ==
    /\ MapType(transmissions) /\ MapType(aborted_transmission_ids)
    /\ cache_transmissions \subseteq TransmissionID
    /\ IsFiniteSet(cache_transmissions)
    /\ Cardinality(cache_transmissions) <= CacheCapacity

OnePerRound(C) == \A c, d \in C : c.round = d.round => c = d

MemoryType ==
    /\ certificates \subseteq Certificate /\ IsFiniteSet(certificates)
    /\ OnePerRound(certificates) /\ gc_round \in Nat
    /\ checking \subseteq TransmissionID /\ ready \subseteq TransmissionID
    /\ spawned \subseteq Certificate /\ Cardinality(spawned) <= 1
    /\ inserting \subseteq Writes /\ removing \subseteq Writes
    /\ committed \in Nat /\ advanced \in BOOLEAN /\ todo \subseteq Certificate

BlockType == [anchor : Nat, certificates : SUBSET Certificate,
              included : SUBSET TransmissionID, aborted : SUBSET TransmissionID]

DiskType ==
    /\ ledger \in Seq(BlockType)
    /\ file.state \in {"none", "torn", "saved"} /\ file.pending \subseteq Certificate
    /\ saving \subseteq Certificate

ProcessType ==
    /\ status \in {"down", "syncing", "loading", "running", "saving", "stopped"}
    /\ run \in Nat /\ born \in Nat /\ cleans \in Nat
    /\ cleaning \in BOOLEAN /\ forgot \in BOOLEAN /\ unbacked \in BOOLEAN
    /\ interrupted \in BOOLEAN

Types == ServiceType /\ MemoryType /\ DiskType /\ ProcessType

\* The fields of a certificate, and its identifier.
LEMMA CertificateFields ==
    ASSUME NEW c \in Certificate
    PROVE  /\ c.round \in Nat /\ c.run \in Nat /\ c.previous \in Nat
           /\ c.ids \subseteq TransmissionID /\ ID(c) \in CertificateID
  BY DEF Certificate, ID, CertificateID

\* A finite set of certificates has one of the greatest round.
LEMMA GreatestRound ==
    ASSUME NEW X, X \subseteq Certificate, IsFiniteSet(X), X # {}
    PROVE  \E c \in X : \A d \in X : c.round >= d.round
  <1> DEFINE Top(S) == \E c \in S : \A d \in S : c.round >= d.round
             Topless == {S \in FiniteSubsetsOf(Certificate) : S # {} /\ ~Top(S)}
  <1>1. SUFFICES ASSUME Topless # {} PROVE FALSE
    BY DEF FiniteSubsetsOf
  <1>2. IsWellFoundedOn(StrictSubsetOrdering(Certificate), FiniteSubsetsOf(Certificate))
    BY FS_StrictSubsetOrderingWellFounded
  <1>3. PICK S \in Topless :
          \A R \in Topless : <<R, S>> \notin StrictSubsetOrdering(Certificate)
    <2>1. Topless \subseteq FiniteSubsetsOf(Certificate)
      OBVIOUS
    <2> HIDE DEF Topless
    <2> QED BY <1>1, <1>2, <2>1, WFMin
  <1>4. S \subseteq Certificate /\ IsFiniteSet(S) /\ S # {} /\ ~Top(S)
    BY DEF FiniteSubsetsOf
  <1>5. PICK s \in S : TRUE
    BY <1>4
  <1> DEFINE R == S \ {s}
  <1>6. R \subseteq Certificate /\ IsFiniteSet(R)
    BY <1>4, FS_RemoveElement
  <1>7. CASE R = {}
    <2>1. S = {s} /\ s.round >= s.round
      BY <1>4, <1>5, <1>7, CertificateFields
    <2> QED BY <1>4, <2>1
  <1>8. CASE R # {}
    <2>1. <<R, S>> \in StrictSubsetOrdering(Certificate)
      <3>1. R \in SUBSET Certificate /\ S \in SUBSET Certificate /\ R \subseteq S /\ R # S
        BY <1>4, <1>5
      <3> HIDE DEF R
      <3> QED BY <3>1 DEF StrictSubsetOrdering
    <2>2. R \notin Topless
      BY <1>3, <2>1
    <2>3. Top(R)
      BY <1>6, <1>8, <2>2 DEF FiniteSubsetsOf
    <2>4. PICK c \in R : \A d \in R : c.round >= d.round
      BY <2>3
    <2>5. c \in S /\ s \in S /\ \A d \in S : d = s \/ d \in R
      BY <1>5
    <2>6. \A d \in S : d.round \in Nat
      BY <1>4, CertificateFields
    <2>7. CASE c.round >= s.round
      <3>1. \A d \in S : c.round >= d.round
        BY <2>4, <2>5, <2>6, <2>7
      <3> QED BY <1>4, <2>5, <3>1
    <2>8. CASE ~(c.round >= s.round)
      <3>1. ASSUME NEW d \in S PROVE s.round >= d.round
        <4>1. c.round \in Nat /\ s.round \in Nat /\ d.round \in Nat
          BY <2>5, <2>6
        <4>2. CASE d = s
          BY <4>1, <4>2
        <4>3. CASE d \in R
          BY <2>4, <2>8, <4>1, <4>3
        <4> QED BY <2>5, <4>2, <4>3
      <3> QED BY <1>4, <2>5, <3>1
    <2> QED BY <2>7, <2>8
  <1> QED BY <1>7, <1>8

\* The anchor of the last block.
LEMMA AnchorType == ASSUME DiskType PROVE LatestAnchor \in Nat
  <1>1. CASE ledger = << >>
    BY <1>1 DEF LatestAnchor
  <1>2. CASE ledger # << >>
    <2>1. ledger[Len(ledger)] \in BlockType
      BY <1>2 DEF DiskType
    <2> QED BY <1>2, <2>1 DEF LatestAnchor, BlockType
  <1> QED BY <1>1, <1>2

\* A subtraction that stops at zero.
LEMMA MinusType ==
    ASSUME NEW a \in Nat, NEW b \in Nat
    PROVE  MinusRounds(a, b) \in Nat /\ MinusRounds(a, b) <= a
  BY DEF MinusRounds

\* The round of the next proposal, and the run that made the one before it.
LEMMA NextRoundType ==
    ASSUME MemoryType, DiskType
    PROVE  NextRound \in Nat /\ \A r : MadeBy(r) \in Nat
  <1>1. NextRound \in Nat
    <2>1. CASE certificates = {}
      <3>1. LatestAnchor \in Nat
        BY AnchorType
      <3>2. \E x \in {1, LatestAnchor} : \A y \in {1, LatestAnchor} : x >= y
        <4>1. CASE LatestAnchor <= 1
          BY <3>1, <4>1
        <4>2. CASE LatestAnchor > 1
          BY <3>1, <4>2
        <4> QED BY <3>1, <4>1, <4>2
      <3>3. Max({1, LatestAnchor}) \in {1, LatestAnchor}
        BY <3>2 DEF Max
      <3> QED BY <2>1, <3>1, <3>3 DEF NextRound
    <2>2. CASE certificates # {}
      <3> DEFINE rounds == {c.round : c \in certificates}
      <3>1. PICK c \in certificates : \A d \in certificates : c.round >= d.round
        BY <2>2, GreatestRound DEF MemoryType
      <3>2. \E x \in rounds : \A y \in rounds : x >= y
        BY <3>1
      <3>3. Max(rounds) \in rounds
        <4> HIDE DEF rounds
        <4> QED BY <3>2 DEF Max
      <3>4. rounds \subseteq Nat
        BY CertificateFields DEF MemoryType
      <3> DEFINE top == Max(rounds)
      <3>5. top \in Nat
        BY <3>3, <3>4
      <3> HIDE DEF top
      <3>6. top + 1 \in Nat
        BY <3>5
      <3> QED BY <2>2, <3>6 DEF NextRound, top
    <2> QED BY <2>1, <2>2
  <1>2. ASSUME NEW r PROVE MadeBy(r) \in Nat
    <2> DEFINE D == {c \in certificates : c.round = r}
    <2>1. CASE D = {}
      BY <2>1 DEF MadeBy
    <2>2. CASE D # {}
      <3>1. (CHOOSE c \in D : TRUE) \in D
        BY <2>2
      <3>2. (CHOOSE c \in D : TRUE).run \in Nat
        BY <3>1, CertificateFields DEF MemoryType
      <3> QED BY <2>2, <3>2 DEF MadeBy
    <2> QED BY <2>1, <2>2
  <1> QED BY <1>1, <1>2

\* A map that gains or loses a certificate.
LEMMA MapTypes ==
    ASSUME NEW map, MapType(map), NEW t \in TransmissionID, NEW id \in CertificateID
    PROVE  MapType(With(map, t, id)) /\ MapType(Without(map, t, id))
  <1>1. MapType(With(map, t, id))
    BY DEF MapType, With
  <1>2. MapType(Without(map, t, id))
    BY DEF MapType, Without
  <1> QED BY <1>1, <1>2

\* The cache after a put: within its capacity.
LEMMA CacheType ==
    ASSUME ServiceType, NEW t \in TransmissionID, CachePut(t)
    PROVE  /\ cache_transmissions' \subseteq TransmissionID
           /\ IsFiniteSet(cache_transmissions')
           /\ Cardinality(cache_transmissions') <= CacheCapacity
  <1> DEFINE K == cache_transmissions
  <1>1. /\ IsFiniteSet(K) /\ K \subseteq TransmissionID /\ Cardinality(K) \in Nat
        /\ Cardinality(K) <= CacheCapacity /\ CacheCapacity \in Nat
    BY FS_CardinalityType, ServiceAssumption DEF ServiceType
  <1>2. CASE t \in K \/ Cardinality(K) < CacheCapacity
    <2>1. K' = K \cup {t}
      BY <1>2 DEF CachePut
    <2>2. IsFiniteSet(K \cup {t})
          /\ Cardinality(K \cup {t}) = IF t \in K THEN Cardinality(K) ELSE Cardinality(K) + 1
      BY <1>1, FS_AddElement
    <2> QED BY <1>1, <1>2, <2>1, <2>2
  <1>3. CASE ~(t \in K \/ Cardinality(K) < CacheCapacity)
    <2>1. PICK old \in K : cache_transmissions' = (K \ {old}) \cup {t}
      BY <1>3 DEF CachePut
    <2>2. IsFiniteSet(K \ {old}) /\ Cardinality(K \ {old}) = Cardinality(K) - 1
      BY <1>1, FS_RemoveElement
    <2>3. /\ IsFiniteSet((K \ {old}) \cup {t})
          /\ Cardinality((K \ {old}) \cup {t}) =
                IF t \in K \ {old} THEN Cardinality(K \ {old}) ELSE Cardinality(K \ {old}) + 1
      BY <2>2, FS_AddElement
    <2> DEFINE left == Cardinality(K \ {old})
               size == Cardinality((K \ {old}) \cup {t})
               before == Cardinality(K)
    <2>4. /\ before \in Nat /\ CacheCapacity \in Nat /\ before <= CacheCapacity
          /\ left = before - 1 /\ (size = left \/ size = left + 1)
      BY <1>1, <2>2, <2>3
    <2> HIDE DEF left, size, before
    <2>5. size <= CacheCapacity
      BY <2>4
    <2>6. (K \ {old}) \cup {t} \subseteq TransmissionID
      BY <1>1
    <2> QED BY <2>1, <2>3, <2>5, <2>6 DEF size
  <1> QED BY <1>2, <1>3

\* One entry of an insertion or of a removal.
LEMMA EntryType ==
    ASSUME ServiceType, NEW t \in TransmissionID, NEW id \in CertificateID,
           \/ \E missing : InsertTransmission(t, id, missing)
           \/ InsertAborted(t, id) \/ RemoveTransmission(t, id)
    PROVE  ServiceType'
  <1>0. /\ MapType(With(transmissions, t, id)) /\ MapType(Without(transmissions, t, id))
        /\ MapType(With(aborted_transmission_ids, t, id))
        /\ MapType(Without(aborted_transmission_ids, t, id))
        /\ MapType(transmissions) /\ MapType(aborted_transmission_ids)
    BY MapTypes DEF ServiceType
  <1>1. MapType(transmissions)' /\ MapType(aborted_transmission_ids)'
    <2>1. /\ \/ transmissions' = With(transmissions, t, id)
             \/ transmissions' = Without(transmissions, t, id)
             \/ transmissions' = transmissions
          /\ \/ aborted_transmission_ids' = With(aborted_transmission_ids, t, id)
             \/ aborted_transmission_ids' = Without(aborted_transmission_ids, t, id)
             \/ aborted_transmission_ids' = aborted_transmission_ids
      BY DEF InsertTransmission, InsertAborted, RemoveTransmission
    <2> QED BY <1>0, <2>1 DEF MapType
  <1>2. CASE CachePut(t)
    BY <1>1, <1>2, CacheType DEF ServiceType
  <1>3. CASE UNCHANGED cache_transmissions
    BY <1>1, <1>3 DEF ServiceType
  <1> QED BY <1>2, <1>3 DEF InsertTransmission, InsertAborted, RemoveTransmission

\* An insertion into the storage.
LEMMA InsertType ==
    ASSUME MemoryType, NEW c \in Certificate, NEW provided, NEW aborted,
           aborted \subseteq TransmissionID, InsertCertificate(c, provided, aborted)
    PROVE  /\ certificates' \subseteq Certificate /\ IsFiniteSet(certificates')
           /\ OnePerRound(certificates') /\ inserting' \subseteq Writes
  <1>1. CASE ~InsertOk(c, provided, aborted)
    BY <1>1 DEF InsertCertificate, MemoryType
  <1>2. CASE InsertOk(c, provided, aborted)
    <2>1. /\ certificates' = certificates \cup {c}
          /\ inserting' = InsertWrites(c, provided, aborted)
      BY <1>2 DEF InsertCertificate
    <2>2. \A d \in certificates : d.round # c.round
      BY <1>2 DEF InsertOk, CanInsert
    <2>3. IsFiniteSet(certificates')
      BY <2>1, FS_AddElement DEF MemoryType
    <2>4. OnePerRound(certificates')
      BY <2>1, <2>2 DEF OnePerRound, MemoryType
    <2>5. ASSUME NEW w \in inserting' PROVE w \in Writes
      <3>1. PICK op \in {"put", "hold", "abort"}, t \in TransmissionID : w = Write(op, c, t)
        BY <2>1, CertificateFields DEF InsertWrites, FindMissing
      <3> QED BY <3>1, CertificateFields DEF Write, Writes
    <2> QED BY <2>1, <2>3, <2>4, <2>5 DEF MemoryType
  <1> QED BY <1>1, <1>2

\* Bootup starts at the first block or later.
LEMMA FirstBlock ==
    ASSUME NEW g \in Int
    PROVE  Max({1, g}) \in Int /\ Max({1, g}) >= 1
  <1>1. \E x \in {1, g} : \A y \in {1, g} : x >= y
    <2>1. CASE g <= 1
      BY <2>1
    <2>2. CASE g > 1
      BY <2>2
    <2> QED BY <2>1, <2>2
  <1> QED BY <1>1 DEF Max

\* The certificates, the transmissions and the bodies of the ledger, and of the part of
\* it that bootup reads.
LEMMA LedgerTypes ==
    ASSUME DiskType
    PROVE  /\ LedgerCertificates \subseteq Certificate /\ Ledger \subseteq TransmissionID
           /\ UNION {b.certificates : b \in RecentBlocks} \subseteq LedgerCertificates
  <1>1. Block \subseteq BlockType /\ Len(ledger) \in Nat /\ DOMAIN ledger = 1..Len(ledger)
    BY DEF DiskType, Block
  <1>2. LedgerCertificates \subseteq Certificate /\ Ledger \subseteq TransmissionID
    BY <1>1 DEF LedgerCertificates, Ledger, BlockType
  <1>3. RecentBlocks \subseteq Block
    <2> DEFINE g == MinusRounds(Len(ledger), MaxGcRounds \div 2)
    <2>1. MaxGcRounds \div 2 \in Nat
      BY PersistenceAssumption
    <2>2. g \in Int
      BY <1>1, <2>1, MinusType
    <2>3. Max({1, g}) \in Int /\ Max({1, g}) >= 1
      BY <2>2, FirstBlock
    <2>4. \A h \in Max({1, g})..Len(ledger) : h \in DOMAIN ledger
      BY <1>1, <2>3
    <2> QED BY <2>4 DEF RecentBlocks, Block
  <1> QED BY <1>2, <1>3 DEF LedgerCertificates

\* A process that is up is a run since the last clean.
Counters ==
    /\ run \in Nat /\ born \in Nat
    /\ born <= run
    /\ status # "down" => born < run

\* A process that is down has nothing in memory.
DownIsEmpty ==
    status = "down" =>
        /\ certificates = {} /\ spawned = {} /\ todo = {} /\ saving = {}
        /\ inserting = {} /\ removing = {}

\* While the clean command is between its two removals, there is no cache file.
CleaningIsDown == cleaning => status = "down" /\ file.pending = {}

Since(C) == \A c \in C : c.run > born

CertificatesSince ==
    /\ Since(certificates) /\ Since(spawned) /\ Since(todo) /\ Since(saving)
    /\ Since(file.pending)

WritesSince == \A w \in inserting \cup removing : w.certificate.run > born

MapSince(map) == \A t \in DOMAIN map : \A id \in map[t] : id.run > born

MapsSince == MapSince(transmissions) /\ MapSince(aborted_transmission_ids)

LedgerSince ==
    /\ \E S : ledger \in Seq(S)
    /\ \A i \in DOMAIN ledger : Since(ledger[i].certificates)

SinceInv ==
    /\ Counters /\ DownIsEmpty /\ CleaningIsDown
    /\ CertificatesSince /\ WritesSince /\ MapsSince /\ LedgerSince

-----------------------------------------------------------------------------
(* What the operators keep.                                                *)

\* A map that gains a certificate of this chain.
LEMMA WithSince ==
    ASSUME NEW map, NEW t, NEW id, MapSince(map), id.run > born
    PROVE  MapSince(With(map, t, id))
  BY DEF MapSince, With

\* A map that loses a certificate.
LEMMA WithoutSince ==
    ASSUME NEW map, NEW t, NEW id, MapSince(map)
    PROVE  MapSince(Without(map, t, id))
  BY DEF MapSince, Without

\* An insertion adds the certificate and writes that name it.
LEMMA InsertSince ==
    ASSUME NEW c, NEW provided, NEW aborted, c.run > born,
           Since(certificates), \A w \in inserting : w.certificate.run > born,
           InsertCertificate(c, provided, aborted), born' = born
    PROVE  /\ Since(certificates)'
           /\ \A w \in inserting' : w.certificate.run > born'
  <1>1. CASE UNCHANGED <<certificates, inserting>>
    BY <1>1 DEF Since
  <1>2. CASE /\ certificates' = certificates \cup {c}
             /\ inserting' = InsertWrites(c, provided, aborted)
    <2>1. Since(certificates)'
      BY <1>2 DEF Since
    <2>2. ASSUME NEW w \in inserting' PROVE w.certificate.run > born'
      <3>1. \E op, t : w = Write(op, c, t)
        BY <1>2 DEF InsertWrites
      <3> QED BY <3>1 DEF Write, ID
    <2> QED BY <2>1, <2>2
  <1> QED BY <1>1, <1>2 DEF InsertCertificate

\* A block of certificates of this chain.
LEMMA AppendSince ==
    ASSUME NEW b, LedgerSince, Since(b.certificates), ledger' = Append(ledger, b),
           born' = born
    PROVE  LedgerSince'
  <1>1. PICK S : ledger \in Seq(S)
    BY DEF LedgerSince
  <1>2. ledger \in Seq(S \cup {b}) /\ b \in S \cup {b}
    BY <1>1
  <1>3. ledger' \in Seq(S \cup {b})
    BY <1>2
  <1>4. \A i \in DOMAIN ledger' : ledger'[i] = b \/ (i \in DOMAIN ledger /\ ledger'[i] = ledger[i])
    BY <1>2
  <1> QED BY <1>3, <1>4 DEF LedgerSince, Since

\* The blocks' certificates are those of this chain.
LEMMA BlockSince == LedgerSince => Since(LedgerCertificates)
  BY DEF LedgerSince, Since, LedgerCertificates, Block

-----------------------------------------------------------------------------
\* What bootup reads again are certificates of the ledger.
LEMMA RecentSince == LedgerSince => UNION {b.certificates : b \in RecentBlocks} \subseteq LedgerCertificates
  <1> SUFFICES ASSUME LedgerSince PROVE RecentBlocks \subseteq Block
    BY DEF LedgerCertificates
  <1>1. PICK S : ledger \in Seq(S)
    BY DEF LedgerSince
  <1>2. Len(ledger) \in Nat /\ DOMAIN ledger = 1..Len(ledger)
    BY <1>1
  <1> DEFINE g == MinusRounds(Len(ledger), MaxGcRounds \div 2)
  <1>3. MaxGcRounds \div 2 \in Int
    BY PersistenceAssumption
  <1>4. g \in Int
    BY <1>2, <1>3 DEF MinusRounds
  <1>5. Max({1, g}) \in Int /\ Max({1, g}) >= 1
    BY <1>4, FirstBlock
  <1>6. \A h \in Max({1, g})..Len(ledger) : h \in DOMAIN ledger
    BY <1>2, <1>5
  <1> QED BY <1>6 DEF RecentBlocks, Block

\* At the start there is nothing at all.
LEMMA InitSince == Init => SinceInv
  <1> SUFFICES ASSUME Init PROVE SinceInv
    OBVIOUS
  <1>1. Counters /\ DownIsEmpty /\ CleaningIsDown /\ CertificatesSince /\ WritesSince
    BY DEF Init, Counters, DownIsEmpty, CleaningIsDown, CertificatesSince, WritesSince, Since, NoFile
  <1>2. MapsSince
    BY DEF Init, MapsSince, MapSince, Empty
  <1>3. LedgerSince
    <2>1. ledger \in Seq({}) /\ DOMAIN ledger = {}
      BY DEF Init
    <2> QED BY <2>1 DEF LedgerSince
  <1> QED BY <1>1, <1>2, <1>3 DEF SinceInv

\* Steps that leave the disk, the certificates and the writes alone.
LEMMA QuietSince ==
    ASSUME SinceInv,
           UNCHANGED <<databaseVars, certificates, inserting, removing, todo, ledger, file,
                       saving, run, born, cleaning>>,
           Since(spawned)',
           status' = status \/ (status # "down" /\ status' # "down"),
           status = "down" => spawned' = {}
    PROVE  SinceInv'
  BY DEF SinceInv, Counters, DownIsEmpty, CleaningIsDown, CertificatesSince, WritesSince,
         MapsSince, MapSince, LedgerSince, Since, databaseVars

\* Every step keeps what it writes or loads within the chain.
LEMMA StepSince == SinceInv /\ [Next]_vars => SinceInv'
  <1> SUFFICES ASSUME SinceInv, [Next]_vars PROVE SinceInv'
    OBVIOUS
  <1>1. ASSUME NEW t, Receive(t) \/ Checked(t) PROVE SinceInv'
    <2>1. Since(spawned)' /\ (status = "down" => spawned' = {})
      BY <1>1 DEF Receive, Checked, SinceInv, CertificatesSince, DownIsEmpty, Since, cleanVars
    <2> QED BY <1>1, <2>1, QuietSince DEF Receive, Checked, serviceVars, cleanVars
  <1>2. CASE Propose
    <2>1. Since(spawned)' /\ status # "down"
      BY <1>2 DEF Propose, SinceInv, Counters, Since, cleanVars
    <2> QED BY <1>2, <2>1, QuietSince DEF Propose, serviceVars, cleanVars
  <1>3. CASE Store
    <2>1. PICK c \in spawned : InsertCertificate(c, c.ids, {})
      BY <1>3 DEF Store
    <2>2. c.run > born /\ born' = born
      BY <1>3, <2>1 DEF Store, SinceInv, CertificatesSince, Since, cleanVars
    <2>3. Since(certificates)' /\ \A w \in inserting' : w.certificate.run > born'
      BY <2>1, <2>2, InsertSince DEF SinceInv, CertificatesSince, WritesSince
    <2>4. status # "down"
      BY <1>3 DEF Store, SinceInv, DownIsEmpty
    <2>5. UNCHANGED <<transmissions, aborted_transmission_ids, removing, todo, status, run,
                      ledger, file, saving, born, cleaning>> /\ spawned' = {}
      BY <1>3 DEF Store, serviceVars, databaseVars, cleanVars
    <2> QED BY <2>3, <2>4, <2>5
            DEF SinceInv, Counters, DownIsEmpty, CleaningIsDown, CertificatesSince, WritesSince,
                MapsSince, MapSince, LedgerSince, Since
  <1>4. CASE WriteInserted
    <2>1. PICK w \in inserting :
             /\ \/ InsertTransmission(w.id, w.certificate, {w.id})
                \/ InsertTransmission(w.id, w.certificate, {})
                \/ InsertAborted(w.id, w.certificate)
             /\ inserting' = inserting \ {w}
      BY <1>4 DEF WriteInserted
    <2>2. w.certificate.run > born /\ born' = born
      BY <1>4, <2>1 DEF WriteInserted, SinceInv, WritesSince, cleanVars
    <2>3. MapSince(With(transmissions, w.id, w.certificate))
          /\ MapSince(With(aborted_transmission_ids, w.id, w.certificate))
      BY <2>2, WithSince DEF SinceInv, MapsSince
    <2>4. MapsSince'
      BY <2>1, <2>2, <2>3 DEF SinceInv, MapsSince, MapSince, InsertTransmission, InsertAborted
    <2>5. UNCHANGED <<certificates, spawned, removing, todo, status, run, ledger, file, saving,
                      born, cleaning>>
      BY <1>4 DEF WriteInserted, cleanVars
    <2> QED BY <2>1, <2>4, <2>5
            DEF SinceInv, Counters, DownIsEmpty, CleaningIsDown, CertificatesSince, WritesSince,
                LedgerSince, Since
  <1>5. ASSUME NEW anchor, Commit(anchor) PROVE SinceInv'
    <2>1. born' = born /\ status # "down"
          /\ UNCHANGED <<databaseVars, certificates, spawned, inserting, removing, todo, status,
                         run, file, saving, cleaning>>
      BY <1>5 DEF Commit, cleanVars, serviceVars
    <2>2. LedgerSince'
      <3>1. CASE UNCHANGED ledger
        BY <2>1, <3>1 DEF SinceInv, LedgerSince, Since
      <3>2. CASE \E b : ledger' = Append(ledger, b) /\ b.certificates \subseteq certificates
        <4>1. PICK b : ledger' = Append(ledger, b) /\ b.certificates \subseteq certificates
          BY <3>2
        <4>2. Since(b.certificates)
          BY <4>1 DEF SinceInv, CertificatesSince, Since
        <4> QED BY <2>1, <4>1, <4>2, AppendSince DEF SinceInv
      <3>3. ASSUME NEW subdag, subdag \subseteq certificates, NEW a, NEW b,
                   ledger' = Append(ledger, [anchor |-> anchor, certificates |-> subdag,
                                             included |-> a, aborted |-> b])
            PROVE  \E c : ledger' = Append(ledger, c) /\ c.certificates \subseteq certificates
        BY <3>3
      <3>4. {c \in Pending : c.round > committed /\ c.round <= anchor} \subseteq certificates
        BY DEF Pending
      <3> QED BY <1>5, <3>1, <3>2, <3>3, <3>4 DEF Commit
    <2> QED BY <2>1, <2>2
            DEF SinceInv, Counters, DownIsEmpty, CleaningIsDown, CertificatesSince, WritesSince,
                MapsSince, MapSince, Since, databaseVars
  <1>6. CASE Refuse
    <2>1. Since(spawned)' /\ (status = "down" => spawned' = {})
      BY <1>6 DEF Refuse, SinceInv, CertificatesSince, DownIsEmpty, Since, cleanVars
    <2> QED BY <1>6, <2>1, QuietSince DEF Refuse, serviceVars, cleanVars
  <1>7. CASE Collect
    <2>1. status # "down" /\ certificates' \subseteq certificates
          /\ UNCHANGED <<databaseVars, spawned, inserting, todo, status, run, ledger, file,
                         saving, born, cleaning>>
      BY <1>7 DEF Collect, cleanVars, serviceVars
    <2>2. ASSUME NEW w \in removing' PROVE w.certificate.run > born
      <3>1. CASE w \in removing
        BY <3>1 DEF SinceInv, WritesSince
      <3>2. CASE \E c \in certificates : \E t : w = Write("drop", c, t)
        BY <3>2 DEF Write, ID, SinceInv, CertificatesSince, Since
      <3> QED BY <1>7, <2>2, <3>1, <3>2 DEF Collect
    <2> QED BY <2>1, <2>2
            DEF SinceInv, Counters, DownIsEmpty, CleaningIsDown, CertificatesSince, WritesSince,
                MapsSince, MapSince, LedgerSince, Since, databaseVars
  <1>8. CASE WriteRemoved
    <2>1. PICK w \in removing : RemoveTransmission(w.id, w.certificate)
                                /\ removing' = removing \ {w}
      BY <1>8 DEF WriteRemoved
    <2>2. MapSince(Without(transmissions, w.id, w.certificate))
          /\ MapSince(Without(aborted_transmission_ids, w.id, w.certificate))
      BY WithoutSince DEF SinceInv, MapsSince
    <2>3. UNCHANGED <<certificates, spawned, inserting, todo, status, run, ledger, file, saving,
                      born, cleaning>>
      BY <1>8 DEF WriteRemoved, cleanVars
    <2>4. MapsSince'
      BY <2>1, <2>2, <2>3 DEF MapsSince, MapSince, RemoveTransmission
    <2> QED BY <2>1, <2>3, <2>4
            DEF SinceInv, Counters, DownIsEmpty, CleaningIsDown, CertificatesSince, WritesSince,
                LedgerSince, Since
  <1>9. CASE ShutDown
    <2>1. status = "running" /\ status' = "saving" /\ saving' \subseteq certificates
          /\ file'.pending = {}
          /\ UNCHANGED <<databaseVars, certificates, spawned, inserting, removing, todo, run,
                         ledger, born, cleaning>>
      BY <1>9 DEF ShutDown, Saved, Pending, TornFile, cleanVars, serviceVars
    <2> QED BY <2>1
            DEF SinceInv, Counters, DownIsEmpty, CleaningIsDown, CertificatesSince, WritesSince,
                MapsSince, MapSince, LedgerSince, Since, databaseVars
  <1>10. CASE Save
    <2>1. status = "saving" /\ status' = "stopped" /\ saving' = {} /\ file'.pending = saving
          /\ UNCHANGED <<databaseVars, certificates, spawned, inserting, removing, todo, run,
                         ledger, born, cleaning>>
      BY <1>10 DEF Save, cleanVars, serviceVars, memoryVars
    <2> QED BY <2>1
            DEF SinceInv, Counters, DownIsEmpty, CleaningIsDown, CertificatesSince, WritesSince,
                MapsSince, MapSince, LedgerSince, Since, databaseVars
  <1>11. CASE Exit \/ Crash \/ BootFails
    <2>1. /\ certificates' = {} /\ spawned' = {} /\ todo' = {} /\ saving' = {}
          /\ inserting' = {} /\ removing' = {} /\ status' = "down" /\ status # "down"
          /\ UNCHANGED <<databaseVars, run, ledger, file, born, cleaning>>
      BY <1>11 DEF Exit, Crash, BootFails, LoseMemory, cleanVars
    <2> QED BY <2>1
            DEF SinceInv, Counters, DownIsEmpty, CleaningIsDown, CertificatesSince, WritesSince,
                MapsSince, MapSince, LedgerSince, Since, databaseVars
  <1>12. CASE Boot
    <2>1. todo' \subseteq LedgerCertificates
      BY <1>12, RecentSince DEF Boot, SinceInv
    <2>2. Since(todo)' /\ born' = born
      BY <1>12, <2>1, BlockSince DEF Boot, SinceInv, Since, cleanVars
    <2>3. status = "down" /\ ~cleaning /\ status' = "syncing" /\ run' = run + 1
          /\ UNCHANGED <<databaseVars, certificates, spawned, inserting, removing, ledger, file,
                         saving, cleaning>>
      BY <1>12 DEF Boot, cleanVars
    <2> QED BY <2>2, <2>3
            DEF SinceInv, Counters, DownIsEmpty, CleaningIsDown, CertificatesSince, WritesSince,
                MapsSince, MapSince, LedgerSince, Since, databaseVars
  <1>13. CASE SyncCertificate \/ LoadCertificate
    <2>1. PICK c \in todo : /\ \E provided, aborted : InsertCertificate(c, provided, aborted)
                            /\ todo' = todo \ {c}
      BY <1>13 DEF SyncCertificate, LoadCertificate, Earliest
    <2>2. c.run > born /\ born' = born
      BY <1>13, <2>1 DEF SyncCertificate, LoadCertificate, SinceInv, CertificatesSince, Since, cleanVars
    <2>3. Since(certificates)' /\ \A w \in inserting' : w.certificate.run > born'
      BY <2>1, <2>2, InsertSince DEF SinceInv, CertificatesSince, WritesSince
    <2>4. status # "down"
          /\ UNCHANGED <<databaseVars, spawned, removing, status, run, ledger, file, saving,
                         cleaning>>
      BY <1>13 DEF SyncCertificate, LoadCertificate, serviceVars, cleanVars
    <2> QED BY <2>1, <2>2, <2>3, <2>4
            DEF SinceInv, Counters, DownIsEmpty, CleaningIsDown, CertificatesSince, WritesSince,
                MapsSince, MapSince, LedgerSince, Since, databaseVars
  <1>14. CASE LoadProposalCache
    <2>1. status = "syncing" /\ status' = "loading" /\ todo' = file.pending
          /\ UNCHANGED <<databaseVars, certificates, spawned, inserting, removing, run, ledger,
                         file, saving, born, cleaning>>
      BY <1>14 DEF LoadProposalCache, serviceVars, cleanVars
    <2> QED BY <2>1
            DEF SinceInv, Counters, DownIsEmpty, CleaningIsDown, CertificatesSince, WritesSince,
                MapsSince, MapSince, LedgerSince, Since, databaseVars
  <1>15. CASE Start
    <2>1. Since(spawned)' /\ (status = "down" => spawned' = {})
      BY <1>15 DEF Start, memoryVars, SinceInv, CertificatesSince, DownIsEmpty, Since, cleanVars
    <2> QED BY <1>15, <2>1, QuietSince DEF Start, memoryVars, serviceVars, cleanVars
  <1>16. CASE RemoveProposalCache
    <2>1. status = "down" /\ file'.pending = {} /\ cleaning'
          /\ UNCHANGED <<databaseVars, certificates, spawned, inserting, removing, todo, status,
                         run, ledger, saving, born>>
      BY <1>16 DEF RemoveProposalCache, NoFile, serviceVars, memoryVars
    <2> QED BY <2>1
            DEF SinceInv, Counters, DownIsEmpty, CleaningIsDown, CertificatesSince, WritesSince,
                MapsSince, MapSince, LedgerSince, Since, databaseVars
  <1>17. CASE RemoveLedger
    <2>1. status = "down" /\ file.pending = {} /\ ~cleaning' /\ born' = run
          /\ UNCHANGED <<certificates, spawned, inserting, removing, todo, status, run, file,
                         saving>>
      BY <1>17 DEF RemoveLedger, memoryVars, SinceInv, CleaningIsDown
    <2>2. MapsSince'
      BY <1>17 DEF RemoveLedger, Empty, MapsSince, MapSince
    <2>3. LedgerSince'
      <3>1. ledger' \in Seq({}) /\ DOMAIN ledger' = {}
        BY <1>17 DEF RemoveLedger
      <3> QED BY <3>1 DEF LedgerSince
    <2> QED BY <2>1, <2>2, <2>3
            DEF SinceInv, Counters, DownIsEmpty, CleaningIsDown, CertificatesSince, WritesSince,
                Since
  <1>18. CASE CleanStops
    <2>1. ~cleaning'
          /\ UNCHANGED <<databaseVars, certificates, spawned, inserting, removing, todo, status,
                         run, ledger, file, saving, born>>
      BY <1>18 DEF CleanStops, serviceVars, memoryVars
    <2> QED BY <2>1
            DEF SinceInv, Counters, DownIsEmpty, CleaningIsDown, CertificatesSince, WritesSince,
                MapsSince, MapSince, LedgerSince, Since, databaseVars
  <1>19. CASE UNCHANGED vars
    <2>1. Since(spawned)' /\ (status = "down" => spawned' = {})
      BY <1>19 DEF vars, memoryVars, SinceInv, CertificatesSince, DownIsEmpty, Since, cleanVars
    <2> QED BY <1>19, <2>1, QuietSince DEF vars, memoryVars, serviceVars, cleanVars
  <1> QED BY <1>1, <1>2, <1>3, <1>4, <1>5, <1>6, <1>7, <1>8, <1>9, <1>10, <1>11, <1>12, <1>13,
             <1>14, <1>15, <1>16, <1>17, <1>18, <1>19 DEF Next

\* NothingFromBefore (persistent state and storage after a clean, clean.rs and
\* api_helpers.rs) in every behaviour: whatever run was stopped or killed where, and
\* wherever a clean was cut short, no block, transmission or pending certificate of the
\* chain before the last clean is found again.
THEOREM CleanForgets == Spec => []NothingFromBefore
  <1>1. SinceInv => NothingFromBefore
    BY BlockSince DEF SinceInv, CertificatesSince, MapsSince, MapSince, Since, NothingFromBefore
  <1> QED BY <1>1, InitSince, StepSince, PTL DEF Spec

-----------------------------------------------------------------------------
(* Every variable keeps its type.                                          *)

\* At the start, and when the memory of the process is gone.
LEMMA InitTypes == Init => Types
  <1> SUFFICES ASSUME Init PROVE Types
    OBVIOUS
  <1>1. IsFiniteSet({}) /\ Cardinality({}) = 0
    BY FS_EmptySet
  <1>2. ServiceType
    BY <1>1, ServiceAssumption DEF Init, ServiceType, MapType, Empty
  <1>3. MemoryType
    <2>1. Cardinality(spawned) <= 1
      BY <1>1 DEF Init
    <2>2. IsFiniteSet(certificates)
      BY <1>1 DEF Init
    <2> QED BY <2>1, <2>2 DEF Init, MemoryType, OnePerRound
  <1>4. DiskType
    BY DEF Init, DiskType, NoFile
  <1>5. ProcessType
    BY DEF Init, ProcessType
  <1> QED BY <1>2, <1>3, <1>4, <1>5 DEF Types

\* A step of the process that changes nothing but its memory and its status.
LEMMA SameDisk ==
    ASSUME Types, MemoryType', UNCHANGED <<serviceVars, ledger, file, saving, cleanVars, run>>,
           status' \in {"down", "syncing", "loading", "running", "saving", "stopped"},
           forgot' \in BOOLEAN, unbacked' \in BOOLEAN, interrupted' \in BOOLEAN
    PROVE  Types'
  <1>1. ServiceType'
    BY DEF Types, ServiceType, MapType, serviceVars, databaseVars
  <1>2. DiskType'
    BY DEF Types, DiskType
  <1>3. ProcessType'
    BY DEF Types, ProcessType, cleanVars
  <1> QED BY <1>1, <1>2, <1>3 DEF Types

\* The requests and the proposals.
LEMMA ProposeTypes ==
    ASSUME Types,
           (\E t \in TransmissionID : Receive(t) \/ Checked(t)) \/ Propose \/ Refuse
    PROVE  Types'
  <1>0. MemoryType /\ DiskType /\ ProcessType
    BY DEF Types
  <1>1. ASSUME NEW t \in TransmissionID, Receive(t) \/ Checked(t) PROVE Types'
    <2>1. MemoryType'
      BY <1>0, <1>1 DEF Receive, Checked, MemoryType, OnePerRound, dagVars
    <2>2. /\ UNCHANGED <<serviceVars, ledger, file, saving, cleanVars, run>>
          /\ status' = status /\ UNCHANGED <<forgot, unbacked, interrupted>>
      BY <1>1 DEF Receive, Checked, ghostVars
    <2> QED BY <1>0, <2>1, <2>2, SameDisk DEF ProcessType
  <1>2. CASE Propose
    <2>1. PICK ids \in Batch :
             spawned' = {[round |-> NextRound, run |-> run,
                          previous |-> MadeBy(NextRound - 1), ids |-> ids]}
      BY <1>2 DEF Propose
    <2>2. ids \subseteq TransmissionID
      <3>1. \A u \in ids : u \in ready
        BY DEF Batch
      <3> QED BY <1>0, <3>1 DEF MemoryType
    <2>3. NextRound \in Nat /\ MadeBy(NextRound - 1) \in Nat /\ run \in Nat
      BY <1>0, NextRoundType DEF ProcessType
    <2> DEFINE c == [round |-> NextRound, run |-> run, previous |-> MadeBy(NextRound - 1), ids |-> ids]
    <2>4. c \in Certificate
      BY <2>2, <2>3 DEF Certificate
    <2> HIDE DEF c
    <2>5. Cardinality({c}) = 1
      BY FS_Singleton
    <2>6. spawned' \subseteq Certificate /\ Cardinality(spawned') <= 1
      BY <2>1, <2>4, <2>5 DEF c
    <2>7. MemoryType'
      BY <1>0, <1>2, <2>6 DEF Propose, MemoryType, OnePerRound, dagVars
    <2>8. /\ UNCHANGED <<serviceVars, ledger, file, saving, cleanVars, run>>
          /\ status' = status /\ UNCHANGED <<forgot, unbacked, interrupted>>
      BY <1>2 DEF Propose, ghostVars
    <2> QED BY <1>0, <2>7, <2>8, SameDisk DEF ProcessType
  <1>3. CASE Refuse
    <2>1. MemoryType'
      BY <1>0, <1>3 DEF Refuse, MemoryType, OnePerRound
    <2>2. /\ UNCHANGED <<serviceVars, ledger, file, saving, cleanVars, run>>
          /\ status' = status /\ UNCHANGED <<forgot, unbacked, interrupted>>
      BY <1>3 DEF Refuse, ghostVars
    <2> QED BY <1>0, <2>1, <2>2, SameDisk DEF ProcessType
  <1> QED BY <1>1, <1>2, <1>3

\* Insertions into the storage: of a new certificate and at bootup.
LEMMA StoreTypes ==
    ASSUME Types, Store \/ SyncCertificate \/ LoadCertificate
    PROVE  Types'
  <1>0. MemoryType /\ DiskType /\ ProcessType
    BY DEF Types
  <1>1. \E c \in spawned \cup todo : \E provided, aborted :
           /\ aborted \subseteq TransmissionID
           /\ InsertCertificate(c, provided, aborted)
    <2>1. CASE Store
      <3>1. PICK c \in spawned : InsertCertificate(c, c.ids, {})
        BY <2>1 DEF Store
      <3> QED BY <3>1
    <2>2. CASE SyncCertificate
      <3>1. PICK c \in todo :
               InsertCertificate(c, (c.ids \ Stored) \cap LedgerBodies,
                                 ((c.ids \ Stored) \ LedgerBodies) \cap Ledger)
        BY <2>2 DEF SyncCertificate, Earliest
      <3>2. ((c.ids \ Stored) \ LedgerBodies) \cap Ledger \subseteq TransmissionID
        BY <1>0, LedgerTypes
      <3> QED BY <3>1, <3>2
    <2>3. CASE LoadCertificate
      <3>1. PICK c \in todo : InsertCertificate(c, Fetched(c), {})
        BY <2>3 DEF LoadCertificate, Earliest
      <3> QED BY <3>1
    <2> QED BY <2>1, <2>2, <2>3
  <1>2. /\ certificates' \subseteq Certificate /\ IsFiniteSet(certificates')
        /\ OnePerRound(certificates') /\ inserting' \subseteq Writes
    BY <1>0, <1>1, InsertType DEF MemoryType
  <1>3. /\ UNCHANGED <<gc_round, checking, ready, removing, committed, advanced>>
        /\ UNCHANGED <<serviceVars, ledger, file, saving, cleanVars, run>>
        /\ status' = status /\ UNCHANGED <<forgot, unbacked, interrupted>>
        /\ spawned' = spawned \/ spawned' = {}
        /\ todo' \subseteq todo
    BY DEF Store, SyncCertificate, LoadCertificate, dagVars, ghostVars
  <1>4. Cardinality(spawned') <= 1
    BY <1>0, <1>3, FS_EmptySet DEF MemoryType
  <1>5. MemoryType'
    BY <1>0, <1>2, <1>3, <1>4 DEF MemoryType
  <1> QED BY <1>0, <1>3, <1>5, SameDisk DEF ProcessType

\* The writes to the database.
LEMMA WriteTypes ==
    ASSUME Types, WriteInserted \/ WriteRemoved
    PROVE  Types'
  <1>0. ServiceType /\ MemoryType /\ DiskType /\ ProcessType
    BY DEF Types
  <1>1. PICK w \in Writes :
           \/ \E missing : InsertTransmission(w.id, w.certificate, missing)
           \/ InsertAborted(w.id, w.certificate) \/ RemoveTransmission(w.id, w.certificate)
    BY <1>0 DEF WriteInserted, WriteRemoved, MemoryType
  <1>2. w.id \in TransmissionID /\ w.certificate \in CertificateID
    BY DEF Writes
  <1>3. ServiceType'
    BY <1>0, <1>1, <1>2, EntryType
  <1>4. /\ UNCHANGED <<certificates, gc_round, checking, ready, spawned, committed, advanced,
                       todo, ledger, file, saving, cleaning, cleans, born, run, status, forgot,
                       unbacked>>
        /\ inserting' \subseteq inserting /\ removing' \subseteq removing
        /\ interrupted' \in BOOLEAN
    BY <1>0 DEF WriteInserted, WriteRemoved, dagVars, cleanVars, ghostVars, ProcessType
  <1>5. MemoryType' /\ DiskType'
    BY <1>0, <1>4 DEF MemoryType, OnePerRound, DiskType
  <1>6. ProcessType'
    BY <1>0, <1>4 DEF ProcessType
  <1> QED BY <1>3, <1>5, <1>6 DEF Types

\* Blocks and garbage collection.
LEMMA CommitTypes ==
    ASSUME Types, (\E anchor \in 2..MaxRound : Commit(anchor)) \/ Collect
    PROVE  Types'
  <1>0. ServiceType /\ MemoryType /\ DiskType /\ ProcessType
    BY DEF Types
  <1>1. ASSUME NEW anchor \in 2..MaxRound, Commit(anchor) PROVE Types'
    <2>1. anchor \in Nat
      BY PersistenceAssumption
    <2>2. MemoryType'
      BY <1>0, <1>1, <2>1 DEF Commit, MemoryType, OnePerRound
    <2>3. ledger' \in Seq(BlockType)
      <3> DEFINE subdag == {c \in Pending : c.round > committed /\ c.round <= anchor}
                 ids == (UNION {c.ids : c \in subdag}) \ Ledger
      <3>1. subdag \subseteq Certificate
        BY <1>0 DEF Pending, MemoryType
      <3>2. ids \subseteq TransmissionID
        BY <3>1, CertificateFields
      <3>3. \/ ledger' = ledger
            \/ \E included \in SUBSET ids :
                  ledger' = Append(ledger, [anchor |-> anchor, certificates |-> subdag,
                                            included |-> included, aborted |-> ids \ included])
        BY <1>1 DEF Commit
      <3> HIDE DEF subdag, ids
      <3>4. ASSUME NEW included \in SUBSET ids
            PROVE  [anchor |-> anchor, certificates |-> subdag,
                    included |-> included, aborted |-> ids \ included] \in BlockType
        BY <2>1, <3>1, <3>2 DEF BlockType
      <3>5. ledger \in Seq(BlockType)
        BY <1>0 DEF DiskType
      <3>6. CASE ledger' = ledger
        BY <3>5, <3>6
      <3>7. CASE ledger' # ledger
        <4>1. PICK included \in SUBSET ids :
                 ledger' = Append(ledger, [anchor |-> anchor, certificates |-> subdag,
                                           included |-> included, aborted |-> ids \ included])
          BY <3>3, <3>7
        <4> DEFINE b == [anchor |-> anchor, certificates |-> subdag,
                         included |-> included, aborted |-> ids \ included]
        <4>2. b \in BlockType
          BY <3>4
        <4>3. ledger' = Append(ledger, b)
          BY <4>1
        <4> HIDE DEF b
        <4> QED BY <3>5, <4>2, <4>3
      <3> QED BY <3>6, <3>7
    <2>4. DiskType'
      BY <1>0, <1>1, <2>3 DEF Commit, DiskType
    <2>5. ServiceType' /\ ProcessType'
      BY <1>0, <1>1 DEF Commit, ServiceType, MapType, ProcessType, serviceVars, databaseVars,
                        cleanVars, ghostVars
    <2> QED BY <2>2, <2>4, <2>5 DEF Types
  <1>2. CASE Collect
    <2>1. certificates' \subseteq certificates
      BY <1>2 DEF Collect
    <2>2. IsFiniteSet(certificates')
      BY <1>0, <2>1, FS_Subset DEF MemoryType
    <2>3. NextGcRound \in Nat
      BY <1>0, MinusType, PersistenceAssumption DEF NextGcRound, MemoryType
    <2>4. gc_round' \in Nat /\ advanced' \in BOOLEAN
      BY <1>0, <1>2, <2>3 DEF Collect, MemoryType
    <2>5. ASSUME NEW w \in removing' PROVE w \in Writes
      <3>1. CASE w \in removing
        BY <1>0, <3>1 DEF MemoryType
      <3>2. CASE \E c \in certificates : \E t \in c.ids : w = Write("drop", c, t)
        <4>1. PICK c \in certificates : \E t \in c.ids : w = Write("drop", c, t)
          BY <3>2
        <4>2. PICK t \in c.ids : w = Write("drop", c, t)
          BY <4>1
        <4>3. t \in TransmissionID /\ ID(c) \in CertificateID
          BY <1>0, CertificateFields DEF MemoryType
        <4> QED BY <4>2, <4>3 DEF Write, Writes
      <3> QED BY <1>2, <2>5, <3>1, <3>2 DEF Collect
    <2>6. MemoryType'
      BY <1>0, <1>2, <2>1, <2>2, <2>4, <2>5 DEF Collect, MemoryType, OnePerRound
    <2>7. /\ UNCHANGED <<serviceVars, ledger, file, saving, cleanVars, run>>
          /\ status' = status /\ forgot' \in BOOLEAN /\ UNCHANGED <<unbacked, interrupted>>
      BY <1>0, <1>2 DEF Collect, ProcessType
    <2> QED BY <1>0, <2>6, <2>7, SameDisk DEF ProcessType
  <1> QED BY <1>1, <1>2

\* The end of a run.
LEMMA EndTypes ==
    ASSUME Types, ShutDown \/ Save \/ Exit \/ Crash \/ BootFails
    PROVE  Types'
  <1>0. ServiceType /\ MemoryType /\ DiskType /\ ProcessType
    BY DEF Types
  <1>1. CASE ShutDown
    <2>1. saving' \subseteq Certificate
      BY <1>0, <1>1 DEF ShutDown, Saved, Pending, MemoryType
    <2>2. MemoryType'
      BY <1>0, <1>1 DEF ShutDown, MemoryType, OnePerRound
    <2>3. DiskType'
      BY <1>0, <1>1, <2>1 DEF ShutDown, DiskType, TornFile
    <2>4. ServiceType' /\ ProcessType'
      BY <1>0, <1>1 DEF ShutDown, ServiceType, MapType, ProcessType, serviceVars, databaseVars,
                        cleanVars
    <2> QED BY <2>2, <2>3, <2>4 DEF Types
  <1>2. CASE Save
    <2>1. MemoryType'
      BY <1>0, <1>2 DEF Save, MemoryType, OnePerRound, memoryVars, dagVars
    <2>2. DiskType'
      BY <1>0, <1>2 DEF Save, DiskType
    <2>3. ServiceType' /\ ProcessType'
      BY <1>0, <1>2 DEF Save, ServiceType, MapType, ProcessType, serviceVars, databaseVars,
                        cleanVars, ghostVars
    <2> QED BY <2>1, <2>2, <2>3 DEF Types
  <1>3. CASE Exit \/ Crash \/ BootFails
    <2>1. LoseMemory
      BY <1>3 DEF Exit, Crash, BootFails
    <2>2. /\ UNCHANGED <<databaseVars, ledger, file, cleanVars, run>>
          /\ UNCHANGED <<forgot, unbacked>> /\ interrupted' \in BOOLEAN
      BY <1>0, <1>3 DEF Exit, Crash, BootFails, ProcessType, ghostVars
    <2>3. IsFiniteSet({}) /\ Cardinality({}) = 0
      BY FS_EmptySet
    <2>4. Cardinality(spawned') <= 1 /\ IsFiniteSet(certificates')
      BY <2>1, <2>3 DEF LoseMemory
    <2>5. MemoryType'
      BY <2>1, <2>4 DEF LoseMemory, MemoryType, OnePerRound
    <2>6. ServiceType'
      <3>1. IsFiniteSet(cache_transmissions') /\ Cardinality(cache_transmissions') <= CacheCapacity
        BY <2>1, <2>3, ServiceAssumption DEF LoseMemory
      <3> QED BY <1>0, <2>1, <2>2, <3>1 DEF LoseMemory, ServiceType, MapType, databaseVars
    <2>7. DiskType' /\ ProcessType'
      BY <1>0, <2>1, <2>2 DEF LoseMemory, DiskType, ProcessType, cleanVars
    <2> QED BY <2>5, <2>6, <2>7 DEF Types
  <1> QED BY <1>1, <1>2, <1>3

\* Bootup, and the clean command.
LEMMA BootTypes ==
    ASSUME Types,
           Boot \/ LoadProposalCache \/ Start \/ RemoveProposalCache \/ RemoveLedger \/ CleanStops
    PROVE  Types'
  <1>0. ServiceType /\ MemoryType /\ DiskType /\ ProcessType
    BY DEF Types
  <1>1. CASE Boot
    <2>1. gc_round' \in Nat
      BY <1>0, <1>1, AnchorType, MinusType, PersistenceAssumption DEF Boot
    <2>2. todo' \subseteq Certificate
      BY <1>0, <1>1, LedgerTypes DEF Boot
    <2>3. MemoryType'
      BY <1>0, <1>1, <2>1, <2>2 DEF Boot, MemoryType, OnePerRound, dagVars
    <2>4. ServiceType'
      <3>1. IsFiniteSet(cache_transmissions') /\ Cardinality(cache_transmissions') <= CacheCapacity
        BY <1>1, FS_EmptySet, ServiceAssumption DEF Boot, Open
      <3> QED BY <1>0, <1>1, <3>1 DEF Boot, Open, ServiceType, MapType, databaseVars
    <2>5. DiskType' /\ ProcessType'
      BY <1>0, <1>1 DEF Boot, DiskType, ProcessType, cleanVars, ghostVars
    <2> QED BY <2>3, <2>4, <2>5 DEF Types
  <1>2. CASE LoadProposalCache
    <2>1. LatestAnchor \in Nat
      BY <1>0, AnchorType
    <2>2. MemoryType'
      BY <1>0, <1>2, <2>1 DEF LoadProposalCache, MemoryType, OnePerRound, DiskType
    <2>3. /\ UNCHANGED <<serviceVars, ledger, file, saving, cleanVars, run>>
          /\ status' = "loading" /\ UNCHANGED <<forgot, unbacked, interrupted>>
      BY <1>2 DEF LoadProposalCache, ghostVars
    <2> QED BY <1>0, <2>2, <2>3, SameDisk DEF ProcessType
  <1>3. CASE Start
    <2>1. MemoryType'
      BY <1>0, <1>3 DEF Start, MemoryType, OnePerRound, memoryVars, dagVars
    <2>2. /\ UNCHANGED <<serviceVars, ledger, file, saving, cleanVars, run>>
          /\ status' = "running" /\ UNCHANGED <<forgot, unbacked, interrupted>>
      BY <1>3 DEF Start, ghostVars
    <2> QED BY <1>0, <2>1, <2>2, SameDisk DEF ProcessType
  <1>4. CASE RemoveProposalCache \/ RemoveLedger \/ CleanStops
    <2>1. MemoryType'
      BY <1>0, <1>4 DEF RemoveProposalCache, RemoveLedger, CleanStops, MemoryType, OnePerRound,
                        memoryVars, dagVars
    <2>2. ServiceType'
      BY <1>0, <1>4 DEF RemoveProposalCache, RemoveLedger, CleanStops, ServiceType, MapType,
                        Empty, serviceVars, databaseVars
    <2>3. DiskType'
      <3>1. ledger' \in Seq(BlockType)
        <4>1. ledger' = ledger \/ ledger' = << >>
          BY <1>4 DEF RemoveProposalCache, RemoveLedger, CleanStops
        <4>2. ledger \in Seq(BlockType) /\ << >> \in Seq(BlockType)
          BY <1>0 DEF DiskType
        <4> QED BY <4>1, <4>2
      <3>2. /\ saving' = saving
            /\ file' = file \/ file' = [state |-> "none", pending |-> {}]
        BY <1>4 DEF RemoveProposalCache, RemoveLedger, CleanStops, NoFile
      <3> QED BY <1>0, <3>1, <3>2 DEF DiskType
    <2>4. ProcessType'
      <3>1. CASE RemoveProposalCache
        <4>1. cleans' \in Nat
          BY <1>0, <3>1 DEF RemoveProposalCache, ProcessType
        <4>2. /\ UNCHANGED <<status, run, born, forgot, unbacked>>
              /\ cleaning' = TRUE /\ interrupted' = TRUE
          BY <3>1 DEF RemoveProposalCache
        <4> QED BY <1>0, <4>1, <4>2 DEF ProcessType
      <3>2. CASE RemoveLedger
        BY <1>0, <3>2 DEF RemoveLedger, ProcessType
      <3>3. CASE CleanStops
        BY <1>0, <3>3 DEF CleanStops, ProcessType, ghostVars
      <3> QED BY <1>4, <3>1, <3>2, <3>3
    <2> QED BY <2>1, <2>2, <2>3, <2>4 DEF Types
  <1> QED BY <1>1, <1>2, <1>3, <1>4

\* Every step.
LEMMA StepTypes == Types /\ [Next]_vars => Types'
  <1> SUFFICES ASSUME Types, [Next]_vars PROVE Types'
    OBVIOUS
  <1>1. CASE UNCHANGED vars
    <2>1. MemoryType'
      BY <1>1 DEF Types, MemoryType, OnePerRound, vars, memoryVars, dagVars
    <2> QED BY <1>1, <2>1, SameDisk DEF Types, ProcessType, vars, ghostVars
  <1>2. CASE Next
    BY <1>2, ProposeTypes, StoreTypes, WriteTypes, CommitTypes, EndTypes, BootTypes DEF Next
  <1> QED BY <1>1, <1>2

\* Whatever is cut short, reloaded or cleaned (persistent.rs, storage.rs, primary.rs), every
\* variable has its type: no map keeps an entry without a holder, the cache stays within
\* its capacity, and no two certificates in storage share a round.
THEOREM PersistenceTypes == Spec => []TypeOK
  <1>1. Types => TypeOK
    BY DEF Types, TypeOK, ServiceType, MapType, MemoryType, OnePerRound, DiskType, BlockType,
           ProcessType
  <1> QED BY <1>1, InitTypes, StepTypes, PTL DEF Spec

-----------------------------------------------------------------------------
(* What the cache holds and storage does not is confirmed.  The cache only  *)
(* falls behind storage when garbage collection drops a transmission, so    *)
(* what is being dropped must be in the ledger: the certificates collected  *)
(* are committed, unless the DAG committed one without a block, and a block *)
(* confirms or aborts whatever its certificates declare.                    *)

\* A block, or an earlier one, has all that its certificates declare.
BlocksConfirm == \A c \in LedgerCertificates : c.ids \subseteq Ledger

StaleInv ==
    /\ StaleIsConfirmed
    /\ ~forgot => \A w \in removing : w.id \in Ledger
    /\ BlocksConfirm
    /\ status = "down" => cache_transmissions = {}

\* The ledger gains a block.
LEMMA AppendConfirms ==
    ASSUME Types, NEW b \in BlockType, ledger' = Append(ledger, b)
    PROVE  /\ Ledger' = Ledger \cup b.included \cup b.aborted
           /\ LedgerCertificates' = LedgerCertificates \cup b.certificates
  <1>1. ledger \in Seq(BlockType)
    BY DEF Types, DiskType
  <1>2. Block' = Block \cup {b}
    <2>1. /\ DOMAIN ledger = 1..Len(ledger) /\ Len(ledger) \in Nat
          /\ DOMAIN ledger' = 1..(Len(ledger) + 1)
          /\ \A i \in DOMAIN ledger : ledger'[i] = ledger[i]
          /\ ledger'[Len(ledger) + 1] = b
      BY <1>1
    <2>2. \A i \in DOMAIN ledger' : i \in DOMAIN ledger \/ i = Len(ledger) + 1
      BY <2>1
    <2>3. DOMAIN ledger \subseteq DOMAIN ledger' /\ Len(ledger) + 1 \in DOMAIN ledger'
      BY <2>1
    <2> QED BY <2>1, <2>2, <2>3 DEF Block
  <1>3. Ledger' = Ledger \cup b.included \cup b.aborted
    BY <1>2 DEF Ledger
  <1>4. LedgerCertificates' = LedgerCertificates \cup b.certificates
    BY <1>2 DEF LedgerCertificates
  <1> QED BY <1>3, <1>4

\* Steps that leave the service, the blocks and the collection alone.
LEMMA QuietStale ==
    ASSUME StaleInv, UNCHANGED <<serviceVars, removing, ledger, forgot>>,
           status' = status \/ status' # "down"
    PROVE  StaleInv'
  BY DEF StaleInv, StaleIsConfirmed, BlocksConfirm, Ledger, LedgerCertificates, Block,
         ContainsTransmission, Stored, serviceVars, databaseVars

\* At the start there is nothing in the cache, and nothing is collected.
LEMMA InitStale == Init => StaleInv
  <1> SUFFICES ASSUME Init PROVE StaleInv
    OBVIOUS
  <1>1. DOMAIN ledger = {}
    BY DEF Init
  <1>2. LedgerCertificates = {}
    BY <1>1 DEF LedgerCertificates, Block
  <1> QED BY <1>2 DEF Init, StaleInv, StaleIsConfirmed, BlocksConfirm

\* Every step keeps what the cache holds in storage or in the ledger.
LEMMA StepStale == Types /\ SinceInv /\ StaleInv /\ [Next]_vars => StaleInv'
  <1> SUFFICES ASSUME Types, SinceInv, StaleInv, [Next]_vars PROVE StaleInv'
    OBVIOUS
  <1>1. CASE \/ \E t \in TransmissionID : Receive(t) \/ Checked(t)
             \/ Propose \/ Store \/ Refuse \/ ShutDown \/ Save \/ SyncCertificate
             \/ LoadProposalCache \/ LoadCertificate \/ Start \/ RemoveProposalCache
             \/ CleanStops \/ UNCHANGED vars
    <2>1. UNCHANGED <<serviceVars, removing, ledger, forgot>>
          /\ (status' = status \/ status' # "down")
      BY <1>1 DEF Receive, Checked, Propose, Store, Refuse, ShutDown, Save, SyncCertificate,
                  LoadProposalCache, LoadCertificate, Start, RemoveProposalCache, CleanStops,
                  vars, memoryVars, ghostVars
    <2> QED BY <2>1, QuietStale
  <1>2. CASE WriteInserted
    <2>1. PICK w \in inserting :
             \/ InsertTransmission(w.id, w.certificate, {w.id})
             \/ InsertTransmission(w.id, w.certificate, {})
             \/ InsertAborted(w.id, w.certificate)
      BY <1>2 DEF WriteInserted
    <2>2. DOMAIN With(transmissions, w.id, w.certificate) = DOMAIN transmissions \cup {w.id}
          /\ DOMAIN With(aborted_transmission_ids, w.id, w.certificate)
                = DOMAIN aborted_transmission_ids \cup {w.id}
      BY DEF With
    <2>3. Stored \subseteq Stored'
      BY <2>1, <2>2 DEF Stored, InsertTransmission, InsertAborted
    <2>4. cache_transmissions' \subseteq cache_transmissions \cup Stored'
      <3>1. CASE CachePut(w.id) /\ transmissions' = With(transmissions, w.id, w.certificate)
        <4>1. w.id \in Stored'
          BY <2>2, <3>1 DEF Stored
        <4>2. cache_transmissions' \subseteq cache_transmissions \cup {w.id}
          BY <3>1 DEF CachePut
        <4> QED BY <4>1, <4>2
      <3>2. CASE UNCHANGED cache_transmissions
        BY <3>2
      <3> QED BY <2>1, <3>1, <3>2 DEF InsertTransmission, InsertAborted
    <2>5. UNCHANGED <<removing, ledger, forgot, status>> /\ status # "down"
      <3>1. status # "down"
        BY <2>1 DEF SinceInv, DownIsEmpty
      <3> QED BY <1>2, <3>1 DEF WriteInserted
    <2>6. Ledger' = Ledger /\ LedgerCertificates' = LedgerCertificates
      BY <2>5 DEF Ledger, LedgerCertificates, Block
    <2> QED BY <2>3, <2>4, <2>5, <2>6
            DEF StaleInv, StaleIsConfirmed, BlocksConfirm, ContainsTransmission
  <1>3. ASSUME NEW anchor \in 2..MaxRound, Commit(anchor) PROVE StaleInv'
    <2>1. UNCHANGED <<serviceVars, removing, forgot, status>>
      BY <1>3 DEF Commit, ghostVars
    <2>2. CASE UNCHANGED ledger
      BY <2>1, <2>2, QuietStale
    <2>3. CASE ~UNCHANGED ledger
      <3> DEFINE subdag == {c \in Pending : c.round > committed /\ c.round <= anchor}
                 ids == (UNION {c.ids : c \in subdag}) \ Ledger
      <3>1. PICK included \in SUBSET ids :
               ledger' = Append(ledger, [anchor |-> anchor, certificates |-> subdag,
                                         included |-> included, aborted |-> ids \ included])
        BY <1>3, <2>3 DEF Commit
      <3>2. \A c \in subdag : c.ids \subseteq ids \cup Ledger
        OBVIOUS
      <3>3. subdag \subseteq Certificate
        BY DEF Pending, Types, MemoryType
      <3>4. ids \subseteq TransmissionID
        BY <3>3, CertificateFields
      <3>5. anchor \in Nat
        BY PersistenceAssumption
      <3> HIDE DEF subdag, ids
      <3> DEFINE b == [anchor |-> anchor, certificates |-> subdag,
                       included |-> included, aborted |-> ids \ included]
      <3>6. /\ b \in BlockType /\ ledger' = Append(ledger, b)
            /\ b.certificates = subdag /\ b.included \cup b.aborted = ids
        BY <3>1, <3>3, <3>4, <3>5 DEF BlockType
      <3> HIDE DEF b
      <3>7. /\ Ledger' = Ledger \cup b.included \cup b.aborted
            /\ LedgerCertificates' = LedgerCertificates \cup b.certificates
        BY <3>6, AppendConfirms
      <3>8. Ledger' = Ledger \cup ids /\ LedgerCertificates' = LedgerCertificates \cup subdag
        BY <3>6, <3>7
      <3>9. Stored' = Stored
        BY <2>1 DEF Stored, serviceVars, databaseVars
      <3>10. cache_transmissions' = cache_transmissions
        BY <2>1 DEF serviceVars
      <3> QED BY <2>1, <3>2, <3>8, <3>9, <3>10
              DEF StaleInv, StaleIsConfirmed, BlocksConfirm, ContainsTransmission
    <2> QED BY <2>2, <2>3
  <1>4. CASE Collect
    <2>1. UNCHANGED <<serviceVars, ledger, status>>
      BY <1>4 DEF Collect
    <2>2. CASE UNCHANGED <<removing, forgot>>
      BY <2>1, <2>2, QuietStale
    <2>3. CASE ~UNCHANGED <<removing, forgot>>
      <3> DEFINE collected == {c \in certificates : c.round <= NextGcRound}
      <3>1. /\ removing' = UNION {{Write("drop", c, t) : t \in c.ids} : c \in collected}
            /\ forgot' = (forgot \/ \E c \in collected \ LedgerCertificates : c.round <= committed)
        BY <1>4, <2>3 DEF Collect
      <3>2. committed \in Nat /\ NextGcRound \in Nat /\ NextGcRound <= committed
        BY MinusType, PersistenceAssumption DEF NextGcRound, Types, MemoryType
      <3>3. ASSUME NEW c \in collected PROVE c.round <= committed
        <4>1. c \in Certificate /\ c.round <= NextGcRound
          BY DEF Types, MemoryType
        <4>2. c.round \in Nat
          BY <4>1, CertificateFields
        <4> QED BY <3>2, <4>1, <4>2
      <3> HIDE DEF collected
      <3>4. ASSUME ~forgot' PROVE ~forgot /\ \A w \in removing' : w.id \in Ledger
        <4>1. ~forgot /\ collected \subseteq LedgerCertificates
          BY <3>1, <3>3, <3>4
        <4>2. ASSUME NEW w \in removing' PROVE w.id \in Ledger
          <5>1. PICK c \in collected : \E t \in c.ids : w = Write("drop", c, t)
            BY <3>1
          <5>2. w.id \in c.ids
            BY <5>1 DEF Write
          <5> QED BY <4>1, <5>1, <5>2 DEF StaleInv, BlocksConfirm
        <4> QED BY <4>1, <4>2
      <3>5. /\ Ledger' = Ledger /\ LedgerCertificates' = LedgerCertificates
            /\ Stored' = Stored /\ cache_transmissions' = cache_transmissions
        BY <2>1 DEF Ledger, LedgerCertificates, Block, Stored, serviceVars, databaseVars
      <3> QED BY <2>1, <3>4, <3>5
              DEF StaleInv, StaleIsConfirmed, BlocksConfirm, ContainsTransmission
    <2> QED BY <2>2, <2>3
  <1>5. CASE WriteRemoved
    <2>1. PICK w \in removing : RemoveTransmission(w.id, w.certificate)
                                /\ removing' = removing \ {w}
      BY <1>5 DEF WriteRemoved
    <2>2. UNCHANGED <<cache_transmissions, ledger, forgot, status>>
      BY <1>5, <2>1 DEF WriteRemoved, RemoveTransmission, ghostVars
    <2>3. Stored \subseteq Stored' \cup {w.id}
      BY <2>1 DEF Stored, RemoveTransmission, Without
    <2>4. Ledger' = Ledger /\ LedgerCertificates' = LedgerCertificates
      BY <2>2 DEF Ledger, LedgerCertificates, Block
    <2>5. ~forgot => w.id \in Ledger
      BY DEF StaleInv
    <2> QED BY <2>1, <2>2, <2>3, <2>4, <2>5
            DEF StaleInv, StaleIsConfirmed, BlocksConfirm, ContainsTransmission
  <1>6. CASE Exit \/ Crash \/ BootFails \/ Boot
    <2>1. /\ cache_transmissions' = {} /\ removing' = {}
          /\ UNCHANGED ledger
      BY <1>6 DEF Exit, Crash, BootFails, Boot, LoseMemory, Open, SinceInv, DownIsEmpty
    <2>2. Ledger' = Ledger /\ LedgerCertificates' = LedgerCertificates
      BY <2>1 DEF Ledger, LedgerCertificates, Block
    <2> QED BY <2>1, <2>2 DEF StaleInv, StaleIsConfirmed, BlocksConfirm
  <1>7. CASE RemoveLedger
    <2>1. status = "down" /\ cache_transmissions' = {} /\ removing' = {} /\ ledger' = << >>
      BY <1>7 DEF RemoveLedger, memoryVars, SinceInv, CleaningIsDown, DownIsEmpty, StaleInv
    <2>2. DOMAIN ledger' = {}
      BY <2>1
    <2>3. LedgerCertificates' = {}
      BY <2>2 DEF LedgerCertificates, Block
    <2> QED BY <2>1, <2>3 DEF StaleInv, StaleIsConfirmed, BlocksConfirm
  <1> QED BY <1>1, <1>2, <1>3, <1>4, <1>5, <1>6, <1>7 DEF Next

\* StaleIsConfirmed (get_transmission of persistent.rs asks the cache first) in every
\* behaviour: for every capacity of the cache and every order of the writes, a
\* transmission that the cache still gives after storage has lost it is in a block.
THEOREM CacheIsConfirmed == Spec => []StaleIsConfirmed
  <1>1. StaleInv => StaleIsConfirmed
    BY DEF StaleInv
  <1> QED BY <1>1, InitTypes, StepTypes, InitSince, StepSince, InitStale, StepStale, PTL DEF Spec

-----------------------------------------------------------------------------
(* A certificate in the DAG can be committed.  Its transmissions are on     *)
(* their way to the map or in it from the moment it is stored, and a        *)
(* removal takes out none that the ledger lacks.  The cache is not needed   *)
(* for that.                                                                *)

\* The map has t, a block has it, or the insertion of c has still to write it.
Backed(c, t) ==
    t \in Ledger \/ t \in DOMAIN transmissions \/ Write("put", c, t) \in inserting

RetrievableInv ==
    /\ ~forgot => \A c \in Pending : \A t \in c.ids : Backed(c, t)
    /\ DOMAIN aborted_transmission_ids \subseteq Ledger
    /\ \A w \in inserting : w.op = "abort" => w.id \in Ledger

\* A certificate that is stored has its transmissions, or has them written.
LEMMA InsertBacked ==
    ASSUME RetrievableInv, NEW c, NEW provided, NEW aborted, aborted \subseteq Ledger,
           InsertCertificate(c, provided, aborted), inserting = {},
           UNCHANGED <<serviceVars, ledger, forgot>>
    PROVE  RetrievableInv'
  <1>0. /\ Ledger' = Ledger /\ LedgerCertificates' = LedgerCertificates
        /\ UNCHANGED <<transmissions, aborted_transmission_ids, forgot>>
    BY DEF Ledger, LedgerCertificates, Block, serviceVars, databaseVars
  <1>1. CASE ~InsertOk(c, provided, aborted)
    <2>1. UNCHANGED <<certificates, inserting>>
      BY <1>1 DEF InsertCertificate
    <2> QED BY <1>0, <2>1 DEF RetrievableInv, Backed, Pending
  <1>2. CASE InsertOk(c, provided, aborted)
    <2>1. /\ certificates' = certificates \cup {c}
          /\ inserting' = InsertWrites(c, provided, aborted)
          /\ c.ids \subseteq Stored \cup provided \cup aborted
      BY <1>2 DEF InsertCertificate, InsertOk, NoneUnprovided
    <2>2. ASSUME NEW t \in c.ids PROVE Backed(c, t)'
      <3>1. CASE t \in FindMissing(c.ids, provided)
        BY <2>1, <3>1 DEF InsertWrites, Backed
      <3>2. CASE t \notin FindMissing(c.ids, provided)
        <4>1. t \in Stored \cup aborted
          BY <2>1, <3>2 DEF FindMissing
        <4> QED BY <1>0, <4>1 DEF Stored, RetrievableInv, Backed
      <3> QED BY <3>1, <3>2
    <2>3. \A w \in inserting' : w.op = "abort" => w.id \in Ledger'
      <3>1. \A op, t : Write(op, c, t).op = op /\ Write(op, c, t).id = t
        BY DEF Write
      <3>2. ASSUME NEW w \in inserting', w.op = "abort" PROVE w.id \in Ledger
        <4>1. \/ \E t : w = Write("put", c, t) \/ w = Write("hold", c, t)
              \/ \E t \in aborted : w = Write("abort", c, t)
          BY <2>1 DEF InsertWrites
        <4> QED BY <3>1, <3>2, <4>1
      <3> QED BY <1>0, <3>2
    <2>4. ASSUME ~forgot', NEW d \in Pending', NEW t \in d.ids PROVE Backed(d, t)'
      <3>1. CASE d = c
        BY <2>2, <3>1
      <3>2. CASE d # c
        <4>1. d \in Pending
          BY <1>0, <2>1, <3>2 DEF Pending
        <4> QED BY <1>0, <2>4, <4>1 DEF RetrievableInv, Backed
      <3> QED BY <3>1, <3>2
    <2> QED BY <1>0, <2>3, <2>4 DEF RetrievableInv
  <1> QED BY <1>1, <1>2

\* Steps that add to the ledger and the map at most, and take away certificates and
\* writes done at most.
LEMMA KeepsBacked ==
    ASSUME RetrievableInv, Pending' \subseteq Pending, Ledger \subseteq Ledger',
           ~forgot' => ~forgot, inserting' \subseteq inserting,
           ~forgot' => \A t \in DOMAIN transmissions : t \in DOMAIN transmissions' \/ t \in Ledger',
           \A w \in inserting \ inserting' : w.op = "put" => w.id \in DOMAIN transmissions',
           DOMAIN aborted_transmission_ids' \subseteq Ledger'
    PROVE  RetrievableInv'
  <1>1. ASSUME ~forgot', NEW c \in Pending', NEW t \in c.ids PROVE Backed(c, t)'
    <2>1. Backed(c, t) /\ ~forgot
      BY <1>1 DEF RetrievableInv
    <2>2. Write("put", c, t).op = "put" /\ Write("put", c, t).id = t
      BY DEF Write
    <2>3. CASE Write("put", c, t) \in inserting
      BY <2>2, <2>3 DEF Backed
    <2>4. CASE t \in Ledger \/ t \in DOMAIN transmissions
      BY <1>1, <2>4 DEF Backed
    <2> QED BY <2>1, <2>3, <2>4 DEF Backed
  <1>2. \A w \in inserting' : w.op = "abort" => w.id \in Ledger'
    BY DEF RetrievableInv
  <1> QED BY <1>1, <1>2 DEF RetrievableInv

\* Every step keeps the transmissions of the certificates in storage.
LEMMA StepBacked ==
    Types /\ SinceInv /\ StaleInv /\ RetrievableInv /\ [Next]_vars => RetrievableInv'
  <1> SUFFICES ASSUME Types, SinceInv, StaleInv, RetrievableInv, [Next]_vars
               PROVE  RetrievableInv'
    OBVIOUS
  <1>1. CASE \/ \E t \in TransmissionID : Receive(t) \/ Checked(t)
             \/ Propose \/ Refuse \/ ShutDown \/ Save \/ Boot
             \/ LoadProposalCache \/ Start \/ RemoveProposalCache
             \/ CleanStops \/ UNCHANGED vars
    <2>1. UNCHANGED <<databaseVars, certificates, inserting, ledger, forgot>>
      BY <1>1 DEF Receive, Checked, Propose, Refuse, ShutDown, Save, Boot, LoadProposalCache,
                  Start, RemoveProposalCache, CleanStops, vars, memoryVars, serviceVars, ghostVars
    <2>2. Ledger' = Ledger /\ Pending' = Pending
      BY <2>1 DEF Ledger, Pending, LedgerCertificates, Block
    <2> QED BY <2>1, <2>2, KeepsBacked DEF databaseVars, RetrievableInv
  <1>2. CASE Store \/ SyncCertificate \/ LoadCertificate
    <2>1. inserting = {} /\ UNCHANGED <<serviceVars, ledger, forgot>>
      BY <1>2 DEF Store, SyncCertificate, LoadCertificate, ghostVars
    <2>2. \E c, provided, aborted :
             aborted \subseteq Ledger /\ InsertCertificate(c, provided, aborted)
      <3>1. CASE Store
        <4>1. PICK c \in spawned : InsertCertificate(c, c.ids, {})
          BY <3>1 DEF Store
        <4> QED BY <4>1
      <3>2. CASE SyncCertificate
        <4>1. PICK c \in todo :
                 InsertCertificate(c, (c.ids \ Stored) \cap LedgerBodies,
                                   ((c.ids \ Stored) \ LedgerBodies) \cap Ledger)
          BY <3>2 DEF SyncCertificate, Earliest
        <4> QED BY <4>1
      <3>3. CASE LoadCertificate
        <4>1. PICK c \in todo : InsertCertificate(c, Fetched(c), {})
          BY <3>3 DEF LoadCertificate, Earliest
        <4> QED BY <4>1
      <3> QED BY <1>2, <3>1, <3>2, <3>3
    <2> QED BY <2>1, <2>2, InsertBacked
  <1>3. CASE WriteInserted
    <2>1. PICK w \in inserting :
             /\ \/ w.op = "put" /\ InsertTransmission(w.id, w.certificate, {w.id})
                \/ w.op = "hold" /\ InsertTransmission(w.id, w.certificate, {})
                \/ w.op = "abort" /\ InsertAborted(w.id, w.certificate)
             /\ inserting' = inserting \ {w}
      BY <1>3 DEF WriteInserted
    <2>2. UNCHANGED <<certificates, ledger, forgot>>
      BY <1>3 DEF WriteInserted
    <2>3. Ledger' = Ledger /\ Pending' = Pending
      BY <2>2 DEF Ledger, Pending, LedgerCertificates, Block
    <2>4. /\ DOMAIN With(transmissions, w.id, w.certificate) = DOMAIN transmissions \cup {w.id}
          /\ DOMAIN With(aborted_transmission_ids, w.id, w.certificate)
                = DOMAIN aborted_transmission_ids \cup {w.id}
      BY DEF With
    <2>5. /\ DOMAIN transmissions \subseteq DOMAIN transmissions'
          /\ w.op = "put" => w.id \in DOMAIN transmissions'
      BY <2>1, <2>4 DEF InsertTransmission, InsertAborted
    <2>6. DOMAIN aborted_transmission_ids' \subseteq Ledger'
      BY <2>1, <2>3, <2>4 DEF InsertTransmission, InsertAborted, RetrievableInv
    <2> QED BY <2>1, <2>2, <2>3, <2>5, <2>6, KeepsBacked
  <1>4. ASSUME NEW anchor \in 2..MaxRound, Commit(anchor) PROVE RetrievableInv'
    <2>1. UNCHANGED <<databaseVars, certificates, inserting, forgot>>
      BY <1>4 DEF Commit, serviceVars, ghostVars
    <2>2. Ledger \subseteq Ledger' /\ LedgerCertificates \subseteq LedgerCertificates'
      <3>1. CASE UNCHANGED ledger
        BY <3>1 DEF Ledger, LedgerCertificates, Block
      <3>2. CASE \E b : ledger' = Append(ledger, b)
        <4>1. PICK b : ledger' = Append(ledger, b)
          BY <3>2
        <4>2. ledger \in Seq(BlockType)
          BY DEF Types, DiskType
        <4>3. \A i \in DOMAIN ledger : i \in DOMAIN ledger' /\ ledger'[i] = ledger[i]
          BY <4>1, <4>2
        <4>4. Block \subseteq Block'
          BY <4>3 DEF Block
        <4> QED BY <4>4 DEF Ledger, LedgerCertificates
      <3> QED BY <1>4, <3>1, <3>2 DEF Commit
    <2>3. Pending' \subseteq Pending
      BY <2>1, <2>2 DEF Pending
    <2>4. DOMAIN aborted_transmission_ids' \subseteq Ledger'
      BY <2>1, <2>2 DEF databaseVars, RetrievableInv
    <2> QED BY <2>1, <2>2, <2>3, <2>4, KeepsBacked DEF databaseVars
  <1>5. CASE Collect
    <2>1. /\ certificates' \subseteq certificates /\ (~forgot' => ~forgot)
          /\ UNCHANGED <<databaseVars, inserting, ledger>>
      BY <1>5 DEF Collect, serviceVars
    <2>2. Ledger' = Ledger /\ Pending' \subseteq Pending
      BY <2>1 DEF Ledger, Pending, LedgerCertificates, Block
    <2> QED BY <2>1, <2>2, KeepsBacked DEF databaseVars, RetrievableInv
  <1>6. CASE WriteRemoved
    <2>1. PICK w \in removing : RemoveTransmission(w.id, w.certificate)
      BY <1>6 DEF WriteRemoved
    <2>2. UNCHANGED <<certificates, inserting, ledger, forgot>>
      BY <1>6 DEF WriteRemoved, ghostVars
    <2>3. Ledger' = Ledger /\ Pending' = Pending
      BY <2>2 DEF Ledger, Pending, LedgerCertificates, Block
    <2>4. /\ DOMAIN transmissions \subseteq DOMAIN transmissions' \cup {w.id}
          /\ DOMAIN aborted_transmission_ids' \subseteq DOMAIN aborted_transmission_ids
      BY <2>1 DEF RemoveTransmission, Without
    <2>5. ~forgot => w.id \in Ledger
      BY DEF StaleInv
    <2>6. DOMAIN aborted_transmission_ids' \subseteq Ledger'
      BY <2>3, <2>4 DEF RetrievableInv
    <2> QED BY <2>2, <2>3, <2>4, <2>5, <2>6, KeepsBacked
  <1>7. CASE Exit \/ Crash \/ BootFails
    <2>1. certificates' = {} /\ inserting' = {} /\ UNCHANGED <<databaseVars, ledger>>
      BY <1>7 DEF Exit, Crash, BootFails, LoseMemory
    <2>2. Ledger' = Ledger /\ Pending' = {}
      BY <2>1 DEF Ledger, Pending, Block
    <2> QED BY <2>1, <2>2 DEF RetrievableInv, databaseVars
  <1>8. CASE RemoveLedger
    <2>1. certificates' = {} /\ inserting' = {} /\ aborted_transmission_ids' = Empty
      BY <1>8 DEF RemoveLedger, memoryVars, SinceInv, CleaningIsDown, DownIsEmpty
    <2>2. Pending' = {} /\ DOMAIN aborted_transmission_ids' = {}
      BY <2>1 DEF Pending, Empty
    <2> QED BY <2>1, <2>2 DEF RetrievableInv
  <1> QED BY <1>1, <1>2, <1>3, <1>4, <1>5, <1>6, <1>7, <1>8 DEF Next

\* Retrievable (get_transmission in commit_leader_certificate, bft.rs) in every
\* behaviour: for every number of rounds and runs, whatever is evicted, collected, cut
\* short and reloaded, a certificate in the DAG is committed without an error, unless a
\* certificate was collected that has no block.
THEOREM CommitFindsAll == Spec => []Retrievable
  <1>1. Init => RetrievableInv
    BY DEF Init, RetrievableInv, Pending, Empty
  <1>2. RetrievableInv => Retrievable
    <2> SUFFICES ASSUME RetrievableInv, ~forgot, NEW c \in Pending, InDag(c), NEW t \in c.ids
                 PROVE  t \in Ledger \/ GetTransmission(t)
      BY DEF Retrievable
    <2>1. Backed(c, t)
      BY DEF RetrievableInv
    <2>2. Write("put", c, t) \notin inserting
      <3>1. Write("put", c, t).certificate = ID(c)
        BY DEF Write
      <3> QED BY <3>1 DEF InDag
    <2> QED BY <2>1, <2>2 DEF Backed, GetTransmission
  <1> QED BY <1>1, <1>2, InitTypes, StepTypes, InitSince, StepSince, InitStale, StepStale,
             StepBacked, PTL DEF Spec

-----------------------------------------------------------------------------
(* What was pending comes back, and what is stored is held.  Both are about *)
(* behaviours in which nothing was cut short and every anchor that the DAG  *)
(* committed has a block; the invariant follows the rounds of the blocks    *)
(* and of the certificates above them through shutdown and bootup.          *)

Sound == ~interrupted /\ ~unbacked

\* Every certificate of C has its predecessor in D; the first round has none.
Linked(C, D) ==
    \A c \in C : c.round > 1 => \E d \in D : d.round = c.round - 1 /\ d.run = c.previous

Known == LedgerCertificates \cup file.pending \cup certificates

\* A block takes two rounds or more, and nothing above its anchor.
AnchorsInv ==
    /\ \A i \in DOMAIN ledger :
          /\ ledger[i].anchor > 0 /\ ledger[i].anchor % 2 = 0
          /\ \A c \in ledger[i].certificates : c.round <= ledger[i].anchor
    /\ \A i, j \in DOMAIN ledger : i <= j => ledger[i].anchor + 2 * (j - i) <= ledger[j].anchor
    /\ ledger # << >> => \E c \in LedgerCertificates : c.round = LatestAnchor

\* One certificate in each round, each on the one before, and blocks up to an anchor.
RoundsInv ==
    /\ OnePerRound(Known) /\ Linked(Known, Known)
    /\ \A c \in Known : c.round <= LatestAnchor => c \in LedgerCertificates
    /\ Linked(file.pending, LedgerCertificates \cup file.pending)

\* Where the memory of the process is: bootup has loaded, or has still to load, what is
\* above the collected rounds.
LoadedInv ==
    /\ status # "down" =>
          gc_round <= LatestAnchor /\ (ledger # << >> => gc_round < LatestAnchor)
    /\ status \in {"loading", "running"} => committed = LatestAnchor
    /\ status = "syncing" =>
          \A c \in LedgerCertificates : c.round > gc_round => c \in certificates \cup todo
    /\ status \in {"loading", "running"} =>
          \A c \in LedgerCertificates : c.round > gc_round => c \in certificates
    /\ status \in {"loading", "running"} =>
          \A c \in file.pending : c.round > gc_round => c \in certificates \cup todo
    /\ status = "syncing" => certificates \cup todo \subseteq LedgerCertificates
    /\ status = "syncing" =>
          \A w \in inserting : \E c \in LedgerCertificates : w.certificate = ID(c)
    /\ status = "loading" => certificates \cup todo \subseteq LedgerCertificates \cup file.pending
    /\ status \notin {"syncing", "loading"} => todo = {}
    /\ advanced => status = "running"

\* A batch on its way to storage is above all that is known.
SpawnedInv ==
    /\ spawned # {} => status = "running"
    /\ \A c \in spawned :
          /\ c.round > LatestAnchor /\ \A d \in certificates : d.round < c.round
          /\ c.ids \cap DOMAIN aborted_transmission_ids = {}

\* A shutdown has the pending certificates, first in memory, then in the file.
SavedInv ==
    /\ status = "saving" => certificates \subseteq LedgerCertificates \cup saving
    /\ status = "saving" => saving \subseteq certificates /\ file.pending = {}
    /\ status = "stopped" => certificates \subseteq LedgerCertificates \cup file.pending

\* The database knows that c holds t, or the insertion of c will tell it.
Holds(c, t) ==
    \/ t \in DOMAIN transmissions /\ ID(c) \in transmissions[t]
    \/ Write("put", c, t) \in inserting
    \/ Write("hold", c, t) \in inserting /\ t \notin DOMAIN aborted_transmission_ids

\* Nothing that a certificate without a block holds is removed, and nothing is stored that no
\* certificate holds.
HeldInv ==
    /\ \A c \in (certificates \cup file.pending) \ LedgerCertificates :
          \A t \in c.ids : Holds(c, t)
    /\ \A w \in removing : \E c \in LedgerCertificates : w.certificate = ID(c)
    /\ \A t \in DOMAIN transmissions :
          t \in Ledger \/ \E c \in certificates \cup file.pending : t \in c.ids
    /\ \A w \in inserting : w.id \in Ledger \/ \E c \in certificates : w.id \in c.ids

\* What holds whatever went wrong: only bootup aborts, only a shutdown leaves a file
\* torn, and nothing is committed by a process that is down.
FileInv ==
    /\ (\E w \in inserting : w.op = "abort") => status = "syncing"
    /\ ~interrupted /\ file.state = "torn" => status = "saving"
    /\ cleaning => file.state = "none" /\ file.pending = {}
    /\ status = "down" => ~advanced

SoundInv == AnchorsInv /\ RoundsInv /\ LoadedInv /\ SpawnedInv /\ SavedInv /\ HeldInv /\ ~forgot

PendingInv == FileInv /\ (Sound => SoundInv)

\* What the other proofs of this module have shown.
Proved == Types /\ SinceInv /\ StaleInv /\ RetrievableInv

\* What is derived from the blocks.
LEMMA SameBlocks ==
    ASSUME UNCHANGED ledger
    PROVE  /\ Ledger' = Ledger /\ LedgerCertificates' = LedgerCertificates
           /\ LatestAnchor' = LatestAnchor
  BY DEF Ledger, LedgerCertificates, LatestAnchor, Block

\* The parts of the memory and the disk that the invariant speaks of.
SoundVars == <<databaseVars, certificates, gc_round, spawned, inserting, removing, committed,
               todo, status, ledger, file, saving, forgot>>

\* Steps that leave the invariant alone.
LEMMA QuietSound ==
    ASSUME SoundInv, UNCHANGED SoundVars, advanced' => advanced
    PROVE  SoundInv'
  <1>1. /\ UNCHANGED <<transmissions, aborted_transmission_ids, certificates, gc_round, spawned>>
        /\ UNCHANGED <<inserting, removing, committed, todo, status, ledger, file, saving, forgot>>
    BY DEF SoundVars, databaseVars
  <1>2. /\ Ledger' = Ledger /\ LedgerCertificates' = LedgerCertificates
        /\ LatestAnchor' = LatestAnchor /\ Known' = Known
    BY <1>1, SameBlocks DEF Known
  <1>3. AnchorsInv' /\ RoundsInv'
    BY <1>1, <1>2 DEF SoundInv, AnchorsInv, RoundsInv
  <1>4. LoadedInv' /\ SpawnedInv' /\ SavedInv'
    BY <1>1, <1>2 DEF SoundInv, LoadedInv, SpawnedInv, SavedInv
  <1>5. HeldInv'
    BY <1>1, <1>2 DEF SoundInv, HeldInv, Holds
  <1> QED BY <1>1, <1>3, <1>4, <1>5 DEF SoundInv

\* The step that adds or takes away nothing of what is known.
LEMMA SameRounds ==
    ASSUME RoundsInv, UNCHANGED <<ledger, file, certificates>>
    PROVE  RoundsInv'
  <1>1. LedgerCertificates' = LedgerCertificates /\ LatestAnchor' = LatestAnchor /\ Known' = Known
    BY SameBlocks DEF Known
  <1> QED BY <1>1 DEF RoundsInv

\* Steps that leave the blocks alone.
LEMMA SameAnchors ==
    ASSUME AnchorsInv, UNCHANGED ledger
    PROVE  AnchorsInv'
  BY SameBlocks DEF AnchorsInv

\* Steps that leave the database, its writes and the certificates alone.
LEMMA SameHeld ==
    ASSUME HeldInv,
           UNCHANGED <<databaseVars, inserting, removing, ledger, file, certificates>>
    PROVE  HeldInv'
  BY SameBlocks DEF HeldInv, Holds, databaseVars

\* When nothing was cut short, there is a certificate at the last anchor in storage.
LEMMA NextIsAbove ==
    ASSUME Types, SoundInv, status = "running"
    PROVE  /\ NextRound \in Nat /\ NextRound > LatestAnchor
           /\ \A d \in certificates : d.round < NextRound
  <1>0. MemoryType /\ DiskType /\ LatestAnchor \in Nat /\ NextRound \in Nat
    BY NextRoundType, AnchorType DEF Types
  <1>1. todo = {} /\ (ledger # << >> => gc_round < LatestAnchor)
    BY DEF SoundInv, LoadedInv
  <1>2. ledger # << >> => \E c \in certificates : c.round = LatestAnchor
    <2> SUFFICES ASSUME ledger # << >> PROVE \E c \in certificates : c.round = LatestAnchor
      OBVIOUS
    <2>1. PICK c \in LedgerCertificates : c.round = LatestAnchor
      BY DEF SoundInv, AnchorsInv
    <2>2. c.round > gc_round
      BY <1>0, <1>1, <2>1 DEF MemoryType
    <2> QED BY <1>1, <2>1, <2>2 DEF SoundInv, LoadedInv
  <1>3. CASE certificates = {}
    <2>1. LatestAnchor = 0
      BY <1>2, <1>3 DEF LatestAnchor
    <2>2. Max({1, 0}) >= 1
      BY FirstBlock
    <2> QED BY <1>0, <1>3, <2>1, <2>2 DEF NextRound
  <1>4. CASE certificates # {}
    <2> DEFINE rounds == {c.round : c \in certificates}
    <2>1. PICK c \in certificates : \A d \in certificates : c.round >= d.round
      BY <1>0, <1>4, GreatestRound DEF MemoryType
    <2>2. \E x \in rounds : \A y \in rounds : x >= y
      BY <2>1
    <2>3. Max(rounds) \in rounds /\ \A y \in rounds : Max(rounds) >= y
      <3> HIDE DEF rounds
      <3> QED BY <2>2 DEF Max
    <2> DEFINE top == Max(rounds)
    <2>4. rounds \subseteq Nat
      BY <1>0, CertificateFields DEF MemoryType
    <2>5. top \in Nat /\ (\A d \in certificates : d.round \in Nat /\ top >= d.round)
          /\ NextRound = top + 1
      BY <1>4, <2>3, <2>4 DEF NextRound
    <2> HIDE DEF top
    <2>6. \A d \in certificates : d.round < NextRound
      BY <2>5
    <2>7. NextRound > LatestAnchor
      <3>1. CASE ledger = << >>
        BY <2>5, <3>1 DEF LatestAnchor
      <3>2. CASE ledger # << >>
        BY <1>2, <2>6, <3>2
      <3> QED BY <3>1, <3>2
    <2> QED BY <1>0, <2>6, <2>7
  <1> QED BY <1>3, <1>4

\* A batch is proposed above all that is known, and without what is aborted.
LEMMA ProposeSound ==
    ASSUME Proved, SoundInv, Propose
    PROVE  SoundInv'
  <1>1. PICK ids \in Batch :
           spawned' = {[round |-> NextRound, run |-> run,
                        previous |-> MadeBy(NextRound - 1), ids |-> ids]}
    BY DEF Propose
  <1>2. /\ status = "running"
        /\ UNCHANGED <<databaseVars, certificates, gc_round, inserting, removing, committed,
                       advanced, todo, status, ledger, file, saving, forgot>>
    BY DEF Propose, serviceVars, dagVars, ghostVars
  <1>3. NextRound > LatestAnchor /\ \A d \in certificates : d.round < NextRound
    BY <1>2, NextIsAbove DEF Proved
  <1>4. ids \cap DOMAIN aborted_transmission_ids = {}
    <2>1. \A t \in ids : t \notin Ledger
      BY DEF Batch
    <2> QED BY <2>1 DEF Proved, RetrievableInv
  <1>5. SpawnedInv'
    BY <1>1, <1>2, <1>3, <1>4, SameBlocks DEF SpawnedInv, databaseVars
  <1>6. LoadedInv' /\ SavedInv'
    BY <1>2, SameBlocks DEF SoundInv, LoadedInv, SavedInv
  <1> QED BY <1>2, <1>5, <1>6, SameRounds, SameAnchors, SameHeld DEF SoundInv

\* The blocks end at the last anchor.
LEMMA LedgerRounds ==
    ASSUME Types, AnchorsInv
    PROVE  /\ LatestAnchor \in Nat
           /\ \A c \in LedgerCertificates : c \in Certificate /\ c.round \in Nat
                                             /\ c.round <= LatestAnchor
  <1>1. ledger \in Seq(BlockType) /\ LatestAnchor \in Nat
    BY AnchorType DEF Types, DiskType
  <1>2. ASSUME NEW c \in LedgerCertificates
        PROVE  c \in Certificate /\ c.round \in Nat /\ c.round <= LatestAnchor
    <2>1. PICK i \in DOMAIN ledger : c \in ledger[i].certificates
      BY DEF LedgerCertificates, Block
    <2> DEFINE n == Len(ledger)
    <2>2. n \in Nat /\ i \in 1..n /\ n \in DOMAIN ledger /\ i <= n /\ ledger # << >>
      BY <1>1, <2>1
    <2>3. ledger[i] \in BlockType /\ ledger[n] \in BlockType
      BY <1>1, <2>2
    <2>4. ledger[i].anchor \in Nat /\ ledger[n].anchor \in Nat /\ c \in Certificate
      BY <2>1, <2>3 DEF BlockType
    <2>5. c.round <= ledger[i].anchor /\ ledger[i].anchor + 2 * (n - i) <= ledger[n].anchor
      BY <2>1, <2>2 DEF AnchorsInv
    <2>6. ledger[n].anchor = LatestAnchor /\ c.round \in Nat
      BY <2>2, <2>4, CertificateFields DEF LatestAnchor
    <2> HIDE DEF n
    <2>7. ledger[i].anchor <= ledger[n].anchor
      BY <2>2, <2>4, <2>5
    <2> QED BY <2>4, <2>5, <2>6, <2>7
  <1> QED BY <1>1, <1>2

\* While the node runs, what the file has is in storage or in a block.
LEMMA FileIsLoaded ==
    ASSUME Types, SoundInv, status = "running"
    PROVE  file.pending \subseteq certificates \cup LedgerCertificates
  <1> SUFFICES ASSUME NEW c \in file.pending PROVE c \in certificates \cup LedgerCertificates
    OBVIOUS
  <1>1. c.round \in Nat /\ gc_round \in Nat /\ LatestAnchor \in Nat
    BY CertificateFields, AnchorType DEF Types, MemoryType, DiskType
  <1>2. CASE c.round > gc_round
    BY <1>2 DEF SoundInv, LoadedInv
  <1>3. CASE ~(c.round > gc_round)
    <2>1. c.round <= LatestAnchor
      BY <1>1, <1>3 DEF SoundInv, LoadedInv
    <2> QED BY <2>1 DEF SoundInv, RoundsInv, Known
  <1> QED BY <1>2, <1>3

\* An insertion leaves what is held, and its writes name what the certificate holds.
LEMMA InsertHeld ==
    ASSUME HeldInv, NEW c, NEW provided, NEW aborted, aborted \subseteq Ledger,
           InsertCertificate(c, provided, aborted), inserting = {},
           UNCHANGED <<databaseVars, removing, ledger, file>>,
           \/ c \in LedgerCertificates \cup file.pending
           \/ c.ids \subseteq provided /\ c.ids \cap DOMAIN aborted_transmission_ids = {}
    PROVE  HeldInv'
  <1>1. CASE ~InsertOk(c, provided, aborted)
    BY <1>1, SameHeld DEF InsertCertificate
  <1>2. CASE InsertOk(c, provided, aborted)
    <2>0. /\ Ledger' = Ledger /\ LedgerCertificates' = LedgerCertificates
          /\ UNCHANGED <<transmissions, aborted_transmission_ids, removing, file>>
      BY SameBlocks DEF databaseVars
    <2>1. certificates' = certificates \cup {c} /\ inserting' = InsertWrites(c, provided, aborted)
      BY <1>2 DEF InsertCertificate
    <2>2. ASSUME NEW d \in (certificates \cup file.pending) \ LedgerCertificates, NEW t \in d.ids
          PROVE  Holds(d, t)'
      <3>1. t \in DOMAIN transmissions /\ ID(d) \in transmissions[t]
        BY DEF HeldInv, Holds
      <3> QED BY <2>0, <3>1 DEF Holds
    <2>3. ASSUME c \notin LedgerCertificates \cup file.pending, NEW t \in c.ids
          PROVE  Holds(c, t)'
      <3>1. t \in provided /\ t \notin DOMAIN aborted_transmission_ids
        BY <2>3
      <3>2. \/ Write("put", c, t) \in InsertWrites(c, provided, aborted)
            \/ Write("hold", c, t) \in InsertWrites(c, provided, aborted)
        BY <3>1 DEF InsertWrites
      <3> QED BY <2>0, <2>1, <3>1, <3>2 DEF Holds
    <2>4. \A d \in (certificates' \cup file'.pending) \ LedgerCertificates' :
             \A t \in d.ids : Holds(d, t)'
      BY <2>0, <2>1, <2>2, <2>3
    <2>5. ASSUME NEW w \in inserting' PROVE w.id \in Ledger \/ w.id \in c.ids
      <3>1. \E op : \E t \in c.ids \cup aborted : w = Write(op, c, t)
        BY <2>1 DEF InsertWrites, FindMissing
      <3> QED BY <3>1 DEF Write
    <2> QED BY <2>0, <2>1, <2>4, <2>5 DEF HeldInv
  <1> QED BY <1>1, <1>2

\* The certificate of the batch becomes the last one.
LEMMA StoreSound ==
    ASSUME Proved, SoundInv, Store
    PROVE  SoundInv'
  <1>1. PICK c \in spawned : InsertCertificate(c, c.ids, {})
    BY DEF Store
  <1>2. /\ status = "running" /\ inserting = {} /\ spawned' = {}
        /\ UNCHANGED <<databaseVars, gc_round, removing, committed,
                       advanced, todo, status, ledger, file, saving, forgot>>
    BY <1>1 DEF Store, serviceVars, dagVars, ghostVars, SoundInv, SpawnedInv
  <1>3. /\ c.round > LatestAnchor /\ \A d \in certificates : d.round < c.round
        /\ c.ids \cap DOMAIN aborted_transmission_ids = {}
    BY <1>1 DEF SoundInv, SpawnedInv
  <1>4. HeldInv'
    BY <1>1, <1>2, <1>3, InsertHeld DEF SoundInv
  <1>5. SpawnedInv'
    BY <1>2 DEF SpawnedInv
  <1>6. certificates \subseteq certificates' /\ certificates' \subseteq certificates \cup {c}
    BY <1>1 DEF InsertCertificate
  <1>7. LoadedInv' /\ SavedInv'
    BY <1>2, <1>6, SameBlocks DEF SoundInv, LoadedInv, SavedInv
  <1>8. RoundsInv'
    <2>1. CASE certificates' = certificates
      BY <1>2, <2>1, SameRounds DEF SoundInv
    <2>2. CASE certificates' # certificates
      <3>1. certificates' = certificates \cup {c} /\ CanInsert(c)
        BY <1>1, <2>2 DEF InsertCertificate, InsertOk
      <3>2. /\ LedgerCertificates' = LedgerCertificates /\ LatestAnchor' = LatestAnchor
            /\ Known' = Known \cup {c} /\ UNCHANGED file
        BY <1>2, <3>1, SameBlocks DEF Known
      <3>3. /\ c.round \in Nat /\ gc_round \in Nat /\ LatestAnchor \in Nat
            /\ \A d \in certificates : d.round \in Nat
        BY CertificateFields, AnchorType DEF Proved, Types, MemoryType
      <3>4. \A d \in LedgerCertificates : d.round \in Nat /\ d.round <= LatestAnchor
        BY LedgerRounds DEF Proved, SoundInv
      <3>5. \A d \in Known : d.round # c.round
        <4>1. Known \subseteq certificates \cup LedgerCertificates
          BY <1>2, FileIsLoaded DEF Known, Proved
        <4> QED BY <1>3, <3>3, <3>4, <4>1
      <3>6. c.round > 1 => \E d \in certificates : d.round = c.round - 1 /\ d.run = c.previous
        <4>1. gc_round <= LatestAnchor /\ (ledger # << >> => gc_round < LatestAnchor)
          BY <1>2 DEF SoundInv, LoadedInv
        <4>2. ledger = << >> => LatestAnchor = 0
          BY DEF LatestAnchor
        <4>3. c.round > 1 => c.round - 1 > gc_round
          BY <1>3, <3>3, <4>1, <4>2
        <4> QED BY <3>1, <4>3 DEF CanInsert
      <3>7. OnePerRound(Known')
        BY <3>2, <3>5 DEF SoundInv, RoundsInv, OnePerRound
      <3>8. Linked(Known', Known')
        BY <3>2, <3>6 DEF SoundInv, RoundsInv, Linked, Known
      <3>9. \A d \in Known' : d.round <= LatestAnchor' => d \in LedgerCertificates'
        BY <1>3, <3>2, <3>3 DEF SoundInv, RoundsInv
      <3> QED BY <3>2, <3>7, <3>8, <3>9 DEF SoundInv, RoundsInv
    <2> QED BY <2>1, <2>2
  <1> QED BY <1>2, <1>4, <1>5, <1>7, <1>8, SameAnchors DEF SoundInv

\* What precedes a certificate of the ledger is in the ledger.
LEMMA LedgerLinked ==
    ASSUME Types, AnchorsInv, RoundsInv
    PROVE  Linked(LedgerCertificates, LedgerCertificates)
  <1> SUFFICES ASSUME NEW c \in LedgerCertificates, c.round > 1
               PROVE  \E d \in LedgerCertificates : d.round = c.round - 1 /\ d.run = c.previous
    BY DEF Linked
  <1>1. PICK d \in Known : d.round = c.round - 1 /\ d.run = c.previous
    BY DEF RoundsInv, Linked, Known
  <1>2. c.round \in Nat /\ c.round <= LatestAnchor /\ LatestAnchor \in Nat
    BY LedgerRounds
  <1>3. d.round <= LatestAnchor
    BY <1>1, <1>2
  <1> QED BY <1>1, <1>3 DEF RoundsInv

\* Bootup inserts every certificate above the collected rounds whose transmissions are
\* there: its predecessor came before it.
LEMMA BootInserts ==
    ASSUME Types, SoundInv, status \in {"syncing", "loading"},
           NEW c \in Earliest(todo), NEW provided, NEW aborted,
           c.round > gc_round /\ c \notin certificates
              => NoneUnprovided(c.ids, provided, aborted),
           InsertCertificate(c, provided, aborted), UNCHANGED <<ledger, file>>
    PROVE  /\ certificates \subseteq certificates' /\ certificates' \subseteq certificates \cup {c}
           /\ c.round > gc_round => c \in certificates'
           /\ c \in Known /\ RoundsInv'
  <1> DEFINE S == IF status = "syncing" THEN LedgerCertificates
                  ELSE LedgerCertificates \cup file.pending
  <1>0. /\ certificates \cup todo \subseteq S /\ S \subseteq Known /\ c \in todo
        /\ \A d \in todo : c.round <= d.round
    BY DEF SoundInv, LoadedInv, Known, Earliest
  <1>1. \A d \in S : d.round > gc_round => d \in certificates \cup todo
    BY DEF SoundInv, LoadedInv
  <1>2. Linked(S, S)
    <2>1. Linked(LedgerCertificates, LedgerCertificates)
      BY LedgerLinked DEF SoundInv
    <2> QED BY <2>1 DEF SoundInv, RoundsInv, Linked
  <1> HIDE DEF S
  <1>3. certificates \subseteq certificates' /\ certificates' \subseteq certificates \cup {c}
    BY DEF InsertCertificate
  <1>4. ASSUME c.round > gc_round PROVE c \in certificates'
    <2>1. CASE c \in certificates
      BY <1>3, <2>1
    <2>2. CASE c \notin certificates
      <3>1. c.round \in Nat /\ gc_round \in Nat
        BY <1>0, CertificateFields DEF Types, MemoryType
      <3>2. \A d \in certificates : d.round # c.round
        BY <1>0, <2>2 DEF SoundInv, RoundsInv, OnePerRound, Known
      <3>3. ASSUME c.round - 1 > gc_round
            PROVE  \E d \in certificates : d.round = c.round - 1 /\ d.run = c.previous
        <4>1. c.round > 1 /\ c \in S
          BY <1>0, <3>1, <3>3
        <4>2. PICK d \in S : d.round = c.round - 1 /\ d.run = c.previous
          BY <1>2, <4>1 DEF Linked
        <4>3. d \in certificates \cup todo /\ ~(c.round <= d.round)
          BY <1>1, <3>1, <3>3, <4>2
        <4> QED BY <1>0, <4>2, <4>3
      <3>4. CanInsert(c)
        BY <1>4, <3>2, <3>3 DEF CanInsert
      <3> QED BY <1>4, <2>2, <3>4 DEF InsertCertificate, InsertOk
    <2> QED BY <2>1, <2>2
  <1>5. Known' = Known
    BY <1>0, <1>3, SameBlocks DEF Known
  <1>6. RoundsInv'
    BY <1>5, SameBlocks DEF SoundInv, RoundsInv
  <1> QED BY <1>0, <1>3, <1>4, <1>6

\* A certificate of a block is loaded.
LEMMA SyncSound ==
    ASSUME Proved, SoundInv, SyncCertificate
    PROVE  SoundInv'
  <1> DEFINE lacking(c) == c.ids \ Stored
  <1>1. PICK c \in Earliest(todo) :
           /\ InsertCertificate(c, lacking(c) \cap LedgerBodies,
                                (lacking(c) \ LedgerBodies) \cap Ledger)
           /\ todo' = todo \ {c}
    BY DEF SyncCertificate
  <1>2. /\ status = "syncing" /\ inserting = {}
        /\ UNCHANGED <<databaseVars, gc_round, removing, spawned, committed,
                       advanced, status, ledger, file, saving, forgot>>
    BY DEF SyncCertificate, serviceVars, dagVars, ghostVars
  <1>3. c \in LedgerCertificates
    BY <1>1, <1>2 DEF SoundInv, LoadedInv, Earliest
  <1>4. NoneUnprovided(c.ids, lacking(c) \cap LedgerBodies, (lacking(c) \ LedgerBodies) \cap Ledger)
    BY <1>3 DEF NoneUnprovided, Proved, StaleInv, BlocksConfirm
  <1>5. HeldInv'
    <2>1. (lacking(c) \ LedgerBodies) \cap Ledger \subseteq Ledger
      OBVIOUS
    <2> HIDE DEF lacking
    <2> QED BY <1>1, <1>2, <1>3, <2>1, InsertHeld DEF SoundInv
  <1>6. /\ certificates \subseteq certificates' /\ certificates' \subseteq certificates \cup {c}
        /\ c.round > gc_round => c \in certificates'
        /\ RoundsInv'
    <2> HIDE DEF lacking
    <2> QED BY <1>1, <1>2, <1>4, BootInserts DEF Proved
  <1>7. \A w \in inserting' : w.certificate = ID(c)
    <2> HIDE DEF lacking
    <2>1. ASSUME NEW w \in inserting' PROVE \E op, t : w = Write(op, c, t)
      BY <1>1, <1>2 DEF InsertCertificate, InsertWrites
    <2> QED BY <2>1 DEF Write
  <1>8. LoadedInv'
    BY <1>1, <1>2, <1>3, <1>6, <1>7, SameBlocks DEF SoundInv, LoadedInv
  <1>9. SpawnedInv' /\ SavedInv'
    BY <1>2 DEF SoundInv, SpawnedInv, SavedInv
  <1> QED BY <1>2, <1>5, <1>6, <1>8, <1>9, SameAnchors DEF SoundInv

\* A certificate of the file is loaded: its transmissions were never removed.
LEMMA LoadSound ==
    ASSUME Proved, SoundInv, LoadCertificate
    PROVE  SoundInv'
  <1>1. PICK c \in Earliest(todo) : InsertCertificate(c, Fetched(c), {}) /\ todo' = todo \ {c}
    BY DEF LoadCertificate
  <1>2. /\ status = "loading" /\ inserting = {}
        /\ UNCHANGED <<databaseVars, gc_round, removing, spawned, committed,
                       advanced, status, ledger, file, saving, forgot>>
    BY DEF LoadCertificate, serviceVars, dagVars, ghostVars
  <1>3. c \in LedgerCertificates \cup file.pending
    BY <1>1, <1>2 DEF SoundInv, LoadedInv, Earliest
  <1>4. ASSUME c.round > gc_round, c \notin certificates
        PROVE  NoneUnprovided(c.ids, Fetched(c), {})
    <2>1. c \in file.pending \ LedgerCertificates
      BY <1>2, <1>3, <1>4 DEF SoundInv, LoadedInv
    <2>2. \A t \in c.ids : t \in DOMAIN transmissions
      BY <1>2, <2>1 DEF SoundInv, HeldInv, Holds
    <2> QED BY <2>2 DEF NoneUnprovided, Stored
  <1>5. HeldInv'
    BY <1>1, <1>2, <1>3, InsertHeld DEF SoundInv
  <1>6. /\ certificates \subseteq certificates' /\ certificates' \subseteq certificates \cup {c}
        /\ c.round > gc_round => c \in certificates'
        /\ RoundsInv'
    BY <1>1, <1>2, <1>4, BootInserts DEF Proved
  <1>7. LoadedInv'
    BY <1>1, <1>2, <1>3, <1>6, SameBlocks DEF SoundInv, LoadedInv
  <1>8. SpawnedInv' /\ SavedInv'
    BY <1>2 DEF SoundInv, SpawnedInv, SavedInv
  <1> QED BY <1>2, <1>5, <1>6, <1>7, <1>8, SameAnchors DEF SoundInv

\* A write of an insertion: the database learns what it holds.
LEMMA WriteInsertedSound ==
    ASSUME Proved, FileInv, SoundInv, WriteInserted, Sound'
    PROVE  SoundInv'
  <1>1. PICK w \in inserting :
           /\ \/ w.op = "put" /\ InsertTransmission(w.id, w.certificate, {w.id})
              \/ w.op = "hold" /\ InsertTransmission(w.id, w.certificate, {})
              \/ w.op = "abort" /\ InsertAborted(w.id, w.certificate)
           /\ inserting' = inserting \ {w}
           /\ interrupted' = (interrupted \/ (w.op = "hold" /\ w.id \notin Stored))
    BY DEF WriteInserted
  <1>2. UNCHANGED <<certificates, gc_round, spawned, removing, committed, advanced, todo,
                    status, ledger, file, saving, forgot>>
    BY DEF WriteInserted, dagVars
  <1>3. Ledger' = Ledger /\ LedgerCertificates' = LedgerCertificates
    BY <1>2, SameBlocks
  <1>4. w.op = "hold" => w.id \in Stored
    BY <1>1 DEF Sound
  <1>5. w.op = "abort" => status = "syncing"
    BY <1>1 DEF FileInv
  <1>6. w.op # "abort" => UNCHANGED aborted_transmission_ids
    BY <1>1 DEF InsertTransmission
  <1> DEFINE more == With(transmissions, w.id, w.certificate)
  <1>7. /\ DOMAIN more = DOMAIN transmissions \cup {w.id} /\ w.certificate \in more[w.id]
        /\ \A t \in DOMAIN transmissions : transmissions[t] \subseteq more[t]
    BY DEF With
  <1> HIDE DEF more
  <1>8. /\ transmissions' = more \/ transmissions' = transmissions
        /\ w.op = "put" => transmissions' = more
        /\ w.op = "hold" /\ w.id \in DOMAIN transmissions => transmissions' = more
    BY <1>1 DEF InsertTransmission, InsertAborted, more
  <1>9. ASSUME NEW d \in (certificates \cup file.pending) \ LedgerCertificates, NEW t \in d.ids
        PROVE  Holds(d, t)'
    <2>0. /\ Write("put", d, t).op = "put" /\ Write("put", d, t).id = t
          /\ Write("put", d, t).certificate = ID(d)
          /\ Write("hold", d, t).op = "hold" /\ Write("hold", d, t).id = t
          /\ Write("hold", d, t).certificate = ID(d)
      BY DEF Write
    <2>1. CASE t \in DOMAIN transmissions /\ ID(d) \in transmissions[t]
      BY <1>7, <1>8, <2>1 DEF Holds
    <2>2. CASE Write("put", d, t) \in inserting
      <3>1. CASE w = Write("put", d, t)
        BY <1>7, <1>8, <2>0, <3>1 DEF Holds
      <3>2. CASE w # Write("put", d, t)
        BY <1>1, <2>2, <3>2 DEF Holds
      <3> QED BY <3>1, <3>2
    <2>3. CASE Write("hold", d, t) \in inserting /\ t \notin DOMAIN aborted_transmission_ids
      <3>1. CASE w = Write("hold", d, t)
        <4>1. t \in DOMAIN transmissions
          BY <1>4, <2>0, <2>3, <3>1 DEF Stored
        <4> QED BY <1>7, <1>8, <2>0, <3>1, <4>1 DEF Holds
      <3>2. CASE w # Write("hold", d, t)
        <4>1. status # "syncing"
          <5> SUFFICES ASSUME status = "syncing" PROVE FALSE
            OBVIOUS
          <5>1. PICK c \in LedgerCertificates : ID(d) = ID(c)
            BY <2>0, <2>3 DEF SoundInv, LoadedInv
          <5>2. c.round = d.round
            BY <5>1 DEF ID
          <5> QED BY <5>2 DEF SoundInv, RoundsInv, OnePerRound, Known
        <4>2. UNCHANGED aborted_transmission_ids
          BY <1>5, <1>6, <4>1
        <4> QED BY <1>1, <2>3, <3>2, <4>2 DEF Holds
      <3> QED BY <3>1, <3>2
    <2> QED BY <2>1, <2>2, <2>3 DEF SoundInv, HeldInv, Holds
  <1>10. \A t \in DOMAIN transmissions' : t \in DOMAIN transmissions \/ t = w.id
    BY <1>7, <1>8
  <1>11. HeldInv'
    BY <1>1, <1>2, <1>3, <1>9, <1>10 DEF SoundInv, HeldInv
  <1>12. SpawnedInv'
    BY <1>2, <1>5, <1>6, SameBlocks DEF SoundInv, SpawnedInv
  <1>13. LoadedInv' /\ SavedInv'
    BY <1>1, <1>2, <1>3, SameBlocks DEF SoundInv, LoadedInv, SavedInv
  <1> QED BY <1>2, <1>11, <1>12, <1>13, SameRounds, SameAnchors DEF SoundInv

\* A write of a collection removes a holder that has a block, never another one.
LEMMA WriteRemovedSound ==
    ASSUME Proved, SoundInv, WriteRemoved
    PROVE  SoundInv'
  <1>1. PICK w \in removing :
           RemoveTransmission(w.id, w.certificate) /\ removing' = removing \ {w}
    BY DEF WriteRemoved
  <1>2. UNCHANGED <<certificates, gc_round, spawned, inserting, committed, advanced, todo,
                    status, ledger, file, saving, forgot>>
    BY DEF WriteRemoved, dagVars, ghostVars
  <1>3. Ledger' = Ledger /\ LedgerCertificates' = LedgerCertificates
    BY <1>2, SameBlocks
  <1>4. PICK c \in LedgerCertificates : w.certificate = ID(c)
    BY DEF SoundInv, HeldInv
  <1>5. /\ DOMAIN transmissions' \subseteq DOMAIN transmissions
        /\ DOMAIN aborted_transmission_ids' \subseteq DOMAIN aborted_transmission_ids
        /\ \A t \in DOMAIN transmissions : \A id \in transmissions[t] :
              id # w.certificate => t \in DOMAIN transmissions' /\ id \in transmissions'[t]
    BY <1>1 DEF RemoveTransmission, Without
  <1>6. ASSUME NEW d \in (certificates \cup file.pending) \ LedgerCertificates, NEW t \in d.ids
        PROVE  Holds(d, t)'
    <2>1. ID(d) # w.certificate
      <3>1. d.round # c.round
        BY DEF SoundInv, RoundsInv, OnePerRound, Known
      <3> QED BY <1>4, <3>1 DEF ID
    <2> QED BY <1>2, <1>5, <2>1 DEF SoundInv, HeldInv, Holds
  <1>7. HeldInv'
    BY <1>1, <1>2, <1>3, <1>5, <1>6 DEF SoundInv, HeldInv
  <1>8. SpawnedInv'
    BY <1>2, <1>5, SameBlocks DEF SoundInv, SpawnedInv
  <1>9. LoadedInv' /\ SavedInv'
    BY <1>2, <1>3, SameBlocks DEF SoundInv, LoadedInv, SavedInv
  <1> QED BY <1>2, <1>7, <1>8, <1>9, SameRounds, SameAnchors DEF SoundInv

\* An anchor above the last one is two rounds above it.
LEMMA EvenAbove ==
    ASSUME NEW a \in Nat, NEW b \in Nat, a % 2 = 0, b % 2 = 0, a < b
    PROVE  a + 2 <= b
  OBVIOUS

\* A block of a higher anchor at the end of the chain.
LEMMA AppendAnchors ==
    ASSUME Types, AnchorsInv, NEW b \in BlockType, ledger' = Append(ledger, b),
           b.anchor % 2 = 0, b.anchor > LatestAnchor,
           \A c \in b.certificates : c.round <= b.anchor,
           \E c \in b.certificates : c.round = b.anchor
    PROVE  AnchorsInv' /\ LatestAnchor' = b.anchor
  <1> DEFINE n == Len(ledger)
  <1>1. ledger \in Seq(BlockType) /\ n \in Nat /\ LatestAnchor \in Nat /\ b.anchor \in Nat
    BY AnchorType DEF Types, DiskType, BlockType
  <1>2. /\ DOMAIN ledger = 1..n /\ DOMAIN ledger' = 1..(n + 1) /\ Len(ledger') = n + 1
        /\ \A i \in 1..n : ledger'[i] = ledger[i] /\ ledger[i] \in BlockType
        /\ ledger'[n + 1] = b /\ ledger' # << >> /\ (ledger = << >> <=> n = 0)
    BY <1>1
  <1>3. LatestAnchor' = b.anchor
    BY <1>2 DEF LatestAnchor
  <1>4. n > 0 => /\ LatestAnchor = ledger[n].anchor /\ LatestAnchor + 2 <= b.anchor
                 /\ \A i \in 1..n : ledger[i].anchor + 2 * (n - i) <= LatestAnchor
    <2> SUFFICES ASSUME n > 0
                 PROVE  /\ LatestAnchor = ledger[n].anchor /\ LatestAnchor + 2 <= b.anchor
                        /\ \A i \in 1..n : ledger[i].anchor + 2 * (n - i) <= LatestAnchor
      OBVIOUS
    <2>1. LatestAnchor = ledger[n].anchor /\ n \in 1..n
      BY <1>1, <1>2 DEF LatestAnchor
    <2>2. LatestAnchor % 2 = 0 /\ \A i \in 1..n : ledger[i].anchor + 2 * (n - i) <= LatestAnchor
      <3>1. n \in DOMAIN ledger /\ \A i \in 1..n : i \in DOMAIN ledger /\ i <= n
        BY <1>1, <1>2, <2>1
      <3> HIDE DEF n
      <3>2. ledger[n].anchor % 2 = 0
        BY <3>1 DEF AnchorsInv
      <3>3. ASSUME NEW i \in 1..n PROVE ledger[i].anchor + 2 * (n - i) <= ledger[n].anchor
        BY <3>1 DEF AnchorsInv
      <3> QED BY <2>1, <3>2, <3>3
    <2>3. LatestAnchor + 2 <= b.anchor
      BY <1>1, <2>2, EvenAbove
    <2> QED BY <2>1, <2>2, <2>3
  <1> HIDE DEF n
  <1>5. \A i \in 1..(n + 1) : i \in 1..n \/ i = n + 1
    BY <1>1
  <1>6. \A i \in 1..(n + 1) :
           /\ ledger'[i].anchor > 0 /\ ledger'[i].anchor % 2 = 0
           /\ \A c \in ledger'[i].certificates : c.round <= ledger'[i].anchor
    <2>1. \A i \in 1..n : i \in DOMAIN ledger
      BY <1>2
    <2>2. ASSUME NEW i \in 1..n
          PROVE  /\ ledger[i].anchor > 0 /\ ledger[i].anchor % 2 = 0
                 /\ \A c \in ledger[i].certificates : c.round <= ledger[i].anchor
      BY <2>1 DEF AnchorsInv
    <2>3. b.anchor > 0
      BY <1>1
    <2> QED BY <1>2, <1>5, <2>2, <2>3
  <1>7. ASSUME NEW i \in 1..(n + 1), NEW j \in 1..(n + 1), i <= j
        PROVE  ledger'[i].anchor + 2 * (j - i) <= ledger'[j].anchor
    <2>1. CASE j \in 1..n
      <3>1. i \in 1..n
        BY <1>1, <1>5, <1>7, <2>1
      <3> QED BY <1>2, <1>7, <2>1, <3>1 DEF AnchorsInv
    <2>2. CASE j = n + 1 /\ i = n + 1
      BY <1>1, <1>2, <2>2
    <2>3. CASE j = n + 1 /\ i \in 1..n
      <3>1. ledger[i].anchor \in Nat /\ ledger'[i] = ledger[i] /\ ledger'[j] = b /\ i \in Nat /\ n > 0
        BY <1>1, <1>2, <2>3 DEF BlockType
      <3>2. ledger[i].anchor + 2 * (n - i) <= LatestAnchor /\ LatestAnchor + 2 <= b.anchor
        BY <1>4, <2>3, <3>1
      <3>3. 2 * (j - i) = 2 * (n - i) + 2
        BY <1>1, <2>3, <3>1
      <3> DEFINE a == ledger[i].anchor
                 k == 2 * (n - i)
      <3>4. a \in Nat /\ k \in Int /\ a + k <= LatestAnchor /\ LatestAnchor + 2 <= b.anchor
        BY <1>1, <3>1, <3>2
      <3> HIDE DEF a, k
      <3>5. a + (k + 2) <= b.anchor
        BY <1>1, <3>4
      <3> QED BY <3>1, <3>3, <3>5 DEF a, k
    <2> QED BY <1>5, <2>1, <2>2, <2>3
  <1>8. \E c \in LedgerCertificates' : c.round = LatestAnchor'
    BY <1>3, AppendConfirms
  <1> QED BY <1>2, <1>3, <1>6, <1>7, <1>8 DEF AnchorsInv

\* A block takes all that is pending up to its anchor.
LEMMA CommitSound ==
    ASSUME Proved, SoundInv, NEW anchor \in 2..MaxRound, Commit(anchor), Sound'
    PROVE  SoundInv'
  <1> DEFINE subdag == {c \in Pending : c.round > committed /\ c.round <= anchor}
             ids == (UNION {c.ids : c \in subdag}) \ Ledger
  <1>1. PICK included \in SUBSET ids :
           /\ status = "running"
           /\ ledger' = Append(ledger, [anchor |-> anchor, certificates |-> subdag,
                                        included |-> included, aborted |-> ids \ included])
    BY DEF Commit, Sound
  <1> DEFINE b == [anchor |-> anchor, certificates |-> subdag,
                   included |-> included, aborted |-> ids \ included]
  <1>2. /\ UNCHANGED <<databaseVars, certificates, gc_round, spawned, inserting, removing, todo,
                       status, file, saving, forgot>>
        /\ committed' = anchor /\ IsReady(anchor)
    BY DEF Commit, serviceVars, ghostVars
  <1>3. /\ anchor \in Nat /\ LatestAnchor \in Nat /\ gc_round \in Nat /\ committed = LatestAnchor
        /\ \A c \in certificates : c \in Certificate /\ c.round \in Nat
    BY <1>1, AnchorType, CertificateFields, PersistenceAssumption
       DEF Proved, Types, MemoryType, SoundInv, LoadedInv
  <1>4. b \in BlockType
    <2>1. subdag \subseteq Certificate
      BY <1>3 DEF Pending
    <2>2. ids \subseteq TransmissionID
      BY <2>1, CertificateFields
    <2> HIDE DEF subdag, ids
    <2> QED BY <1>3, <2>1, <2>2 DEF BlockType
  <1>5. /\ ledger' = Append(ledger, b) /\ b.anchor = anchor /\ b.certificates = subdag
    BY <1>1
  <1>6. /\ LedgerCertificates' = LedgerCertificates \cup subdag /\ Ledger \subseteq Ledger'
    <2> HIDE DEF b
    <2> QED BY <1>4, <1>5, AppendConfirms DEF Proved
  <1>7. anchor > LatestAnchor /\ anchor % 2 = 0 /\ \E c \in certificates : c.round = anchor
    BY <1>2, <1>3 DEF IsReady
  <1>8. \A c \in LedgerCertificates : c.round \in Nat /\ c.round <= LatestAnchor
    BY LedgerRounds DEF Proved, SoundInv
  <1>9. \A c \in certificates : c.round <= anchor => c \in LedgerCertificates \cup subdag
    <2> SUFFICES ASSUME NEW c \in certificates, c.round <= anchor, c \notin LedgerCertificates
                 PROVE  c \in subdag
      OBVIOUS
    <2>1. c.round > LatestAnchor
      BY <1>3 DEF SoundInv, RoundsInv, Known
    <2> QED BY <1>3, <2>1 DEF Pending
  <1>10. PICK top \in certificates : top.round = anchor /\ top \in subdag
    <2>1. PICK c \in certificates : c.round = anchor
      BY <1>7
    <2>2. c \notin LedgerCertificates
      BY <1>3, <1>7, <1>8, <2>1
    <2> QED BY <1>3, <1>9, <2>1, <2>2
  <1>11. subdag \subseteq certificates /\ \A c \in subdag : c.round <= anchor
    BY DEF Pending
  <1>12. AnchorsInv' /\ LatestAnchor' = anchor
    <2>1. \A c \in b.certificates : c.round <= b.anchor
      BY <1>11
    <2>2. \E c \in b.certificates : c.round = b.anchor
      BY <1>10
    <2>3. b.anchor % 2 = 0 /\ b.anchor > LatestAnchor
      BY <1>7
    <2> HIDE DEF b, subdag
    <2> QED BY <1>4, <1>5, <2>1, <2>2, <2>3, AppendAnchors DEF Proved, SoundInv
  <1> HIDE DEF b, subdag, ids
  <1>13. RoundsInv'
    <2>1. Known' = Known
      BY <1>2, <1>6, <1>11 DEF Known
    <2>2. Known \subseteq certificates \cup LedgerCertificates
      BY <1>1, FileIsLoaded DEF Known, Proved
    <2>3. \A c \in Known : c.round <= anchor => c \in LedgerCertificates'
      BY <1>6, <1>9, <2>2
    <2>4. Linked(file.pending, LedgerCertificates' \cup file.pending)
      BY <1>6 DEF SoundInv, RoundsInv, Linked
    <2> QED BY <1>2, <1>12, <2>1, <2>3, <2>4 DEF SoundInv, RoundsInv
  <1>14. LoadedInv'
    <2>1. gc_round < anchor /\ gc_round <= anchor
      BY <1>1, <1>3, <1>7 DEF SoundInv, LoadedInv
    <2> QED BY <1>1, <1>2, <1>6, <1>11, <1>12, <2>1 DEF SoundInv, LoadedInv
  <1>15. SpawnedInv' /\ SavedInv'
    <2>1. \A c \in spawned : c.round > anchor
      <3> SUFFICES ASSUME NEW c \in spawned PROVE c.round > anchor
        OBVIOUS
      <3>1. c.round \in Nat
        BY CertificateFields DEF Proved, Types, MemoryType
      <3> QED BY <1>3, <1>10, <3>1 DEF SoundInv, SpawnedInv
    <2> QED BY <1>1, <1>2, <1>12, <2>1 DEF SoundInv, SpawnedInv, SavedInv, databaseVars
  <1>16. HeldInv'
    BY <1>2, <1>6 DEF SoundInv, HeldInv, Holds, databaseVars
  <1> QED BY <1>2, <1>12, <1>13, <1>14, <1>15, <1>16 DEF SoundInv

\* What is collected is below the last anchor, and so in the ledger.
LEMMA CollectSound ==
    ASSUME Proved, SoundInv, Collect
    PROVE  SoundInv'
  <1> DEFINE collected == {c \in certificates : c.round <= NextGcRound}
  <1>1. /\ UNCHANGED <<databaseVars, spawned, inserting, committed, todo, status, ledger, file,
                       saving>>
        /\ advanced' = FALSE /\ status = "running"
    BY DEF Collect, serviceVars, SoundInv, LoadedInv
  <1>2. CASE ~(NextGcRound > gc_round)
    BY <1>1, <1>2, QuietSound DEF Collect, SoundVars
  <1>3. CASE NextGcRound > gc_round
    <2>1. /\ gc_round' = NextGcRound /\ certificates' = certificates \ collected
          /\ removing' = UNION {{Write("drop", c, t) : t \in c.ids} : c \in collected}
          /\ forgot' = (forgot \/ \E c \in collected \ LedgerCertificates : c.round <= committed)
      BY <1>3 DEF Collect
    <2>2. /\ committed = LatestAnchor /\ LatestAnchor \in Nat /\ gc_round \in Nat
          /\ \A c \in certificates : c.round \in Nat
      BY <1>1, AnchorType, CertificateFields DEF Proved, Types, MemoryType, SoundInv, LoadedInv
    <2>3. NextGcRound \in Nat /\ NextGcRound < LatestAnchor
      BY <1>3, <2>2, PersistenceAssumption DEF NextGcRound, MinusRounds
    <2>4. collected \subseteq LedgerCertificates
      <3>1. ASSUME NEW c \in collected PROVE c.round <= LatestAnchor
        BY <2>2, <2>3
      <3> QED BY <3>1 DEF SoundInv, RoundsInv, Known
    <2>5. \A c \in certificates : c \in collected \/ c \in certificates'
      BY <2>1
    <2>6. \A c \in certificates : c.round > NextGcRound => c \in certificates'
      BY <2>1, <2>2, <2>3
    <2>7. certificates' \subseteq certificates
      BY <2>1
    <2> HIDE DEF collected
    <2>8. LedgerCertificates' = LedgerCertificates /\ LatestAnchor' = LatestAnchor /\ Ledger' = Ledger
      BY <1>1, SameBlocks
    <2>9. RoundsInv'
      <3>1. Known' = Known
        BY <1>1, <2>4, <2>5, <2>7, <2>8 DEF Known
      <3> QED BY <1>1, <2>8, <3>1 DEF SoundInv, RoundsInv
    <2>10. LoadedInv'
      <3>1. \A c \in LedgerCertificates \cup file.pending :
               c.round > NextGcRound => c.round > gc_round /\ c.round \in Nat
        <4>1. \A c \in LedgerCertificates \cup file.pending : c.round \in Nat
          BY LedgerTypes, CertificateFields DEF Proved, Types, DiskType
        <4> QED BY <1>3, <2>2, <2>3, <4>1
      <3>2. \A c \in LedgerCertificates \cup file.pending :
               c.round > NextGcRound => c \in certificates
        BY <1>1, <3>1 DEF SoundInv, LoadedInv
      <3> QED BY <1>1, <2>1, <2>2, <2>3, <2>6, <2>8, <3>2 DEF SoundInv, LoadedInv
    <2>11. SpawnedInv' /\ SavedInv'
      BY <1>1, <2>7, <2>8 DEF SoundInv, SpawnedInv, SavedInv, databaseVars
    <2>12. HeldInv'
      <3>1. ASSUME NEW c \in collected PROVE c.ids \subseteq Ledger
        BY <2>4 DEF Proved, StaleInv, BlocksConfirm
      <3>2. \A w \in removing' : \E c \in LedgerCertificates : w.certificate = ID(c)
        <4> SUFFICES ASSUME NEW w \in removing'
                     PROVE  \E c \in LedgerCertificates : w.certificate = ID(c)
          OBVIOUS
        <4>1. PICK c \in collected : \E t \in c.ids : w = Write("drop", c, t)
          BY <2>1
        <4>2. w.certificate = ID(c)
          BY <4>1 DEF Write
        <4> QED BY <2>4, <4>2
      <3>3. \A c \in (certificates' \cup file'.pending) \ LedgerCertificates' :
               \A t \in c.ids : Holds(c, t)'
        BY <1>1, <2>7, <2>8 DEF SoundInv, HeldInv, Holds, databaseVars
      <3>4. \A t : (\E c \in certificates : t \in c.ids)
                      => t \in Ledger \/ \E c \in certificates' : t \in c.ids
        BY <2>5, <3>1
      <3>5. \A t \in DOMAIN transmissions' :
               t \in Ledger' \/ \E c \in certificates' \cup file'.pending : t \in c.ids
        BY <1>1, <2>8, <3>4 DEF SoundInv, HeldInv, databaseVars
      <3>6. \A w \in inserting' : w.id \in Ledger' \/ \E c \in certificates' : w.id \in c.ids
        BY <1>1, <2>8, <3>4 DEF SoundInv, HeldInv
      <3> QED BY <2>8, <3>2, <3>3, <3>5, <3>6 DEF HeldInv
    <2>13. ~forgot'
      BY <2>1, <2>4 DEF SoundInv
    <2> QED BY <1>1, <2>9, <2>10, <2>11, <2>12, <2>13, SameAnchors DEF SoundInv
  <1> QED BY <1>2, <1>3

\* The pending certificates are listed; the file that had some of them is truncated.
LEMMA ShutDownSound ==
    ASSUME Proved, SoundInv, ShutDown, Sound'
    PROVE  SoundInv'
  <1>1. /\ status = "running" /\ status' = "saving" /\ saving' = Pending /\ file'.pending = {}
        /\ spawned' = {} /\ advanced' = FALSE
        /\ UNCHANGED <<databaseVars, certificates, gc_round, inserting, removing, todo, committed,
                       ledger, forgot>>
    BY DEF ShutDown, Saved, TornFile, serviceVars, Sound
  <1>2. Ledger' = Ledger /\ LedgerCertificates' = LedgerCertificates /\ LatestAnchor' = LatestAnchor
    BY <1>1, SameBlocks
  <1>3. file.pending \subseteq certificates \cup LedgerCertificates
    BY <1>1, FileIsLoaded DEF Proved
  <1>4. RoundsInv'
    <2>1. Known' = Known
      BY <1>1, <1>2, <1>3 DEF Known
    <2>2. Linked({}, LedgerCertificates)
      BY DEF Linked
    <2> QED BY <1>1, <1>2, <2>1, <2>2 DEF SoundInv, RoundsInv
  <1>5. LoadedInv' /\ SpawnedInv' /\ SavedInv'
    BY <1>1, <1>2 DEF SoundInv, LoadedInv, SpawnedInv, SavedInv, Pending
  <1>6. HeldInv'
    <2>1. \A c \in file.pending : c \in certificates \/ c.ids \subseteq Ledger
      BY <1>3 DEF Proved, StaleInv, BlocksConfirm
    <2> QED BY <1>1, <1>2, <2>1 DEF SoundInv, HeldInv, Holds, databaseVars
  <1> QED BY <1>1, <1>4, <1>5, <1>6, SameAnchors DEF SoundInv

\* The file has all that is pending.
LEMMA SaveSound ==
    ASSUME Proved, SoundInv, Save
    PROVE  SoundInv'
  <1>1. /\ status = "saving" /\ status' = "stopped" /\ file'.pending = saving
        /\ UNCHANGED <<databaseVars, certificates, gc_round, spawned, inserting, removing, todo,
                       committed, advanced, ledger, forgot>>
    BY DEF Save, serviceVars, memoryVars, dagVars, ghostVars
  <1>2. Ledger' = Ledger /\ LedgerCertificates' = LedgerCertificates /\ LatestAnchor' = LatestAnchor
    BY <1>1, SameBlocks
  <1>3. /\ saving \subseteq certificates /\ file.pending = {}
        /\ certificates \subseteq LedgerCertificates \cup saving
    BY <1>1 DEF SoundInv, SavedInv
  <1>4. RoundsInv'
    <2>1. Known' = Known /\ Known \subseteq LedgerCertificates \cup saving /\ saving \subseteq Known
      BY <1>1, <1>2, <1>3 DEF Known
    <2>2. Linked(saving, LedgerCertificates \cup saving)
      BY <2>1 DEF SoundInv, RoundsInv, Linked
    <2> QED BY <1>1, <1>2, <2>1, <2>2 DEF SoundInv, RoundsInv
  <1>5. LoadedInv' /\ SpawnedInv' /\ SavedInv'
    BY <1>1, <1>2, <1>3 DEF SoundInv, LoadedInv, SpawnedInv, SavedInv
  <1>6. HeldInv'
    BY <1>1, <1>2, <1>3 DEF SoundInv, HeldInv, Holds, databaseVars
  <1> QED BY <1>1, <1>4, <1>5, <1>6, SameAnchors DEF SoundInv

\* The process ends with nothing on its way to the disk, and leaves there what it held.
LEMMA EndSound ==
    ASSUME Proved, SoundInv, LoseMemory, UNCHANGED <<databaseVars, ledger, file, forgot>>,
           inserting = {},
           \A c \in certificates : c \in LedgerCertificates \cup file.pending \/ c.ids = {}
    PROVE  SoundInv'
  <1>1. /\ certificates' = {} /\ spawned' = {} /\ inserting' = {} /\ removing' = {}
        /\ advanced' = FALSE /\ todo' = {} /\ status' = "down"
        /\ UNCHANGED <<transmissions, aborted_transmission_ids>>
    BY DEF LoseMemory, databaseVars
  <1>2. Ledger' = Ledger /\ LedgerCertificates' = LedgerCertificates /\ LatestAnchor' = LatestAnchor
    BY SameBlocks
  <1>3. RoundsInv'
    <2>1. Known' = LedgerCertificates \cup file.pending /\ Known' \subseteq Known
      BY <1>1, <1>2 DEF Known
    <2>2. Linked(LedgerCertificates, LedgerCertificates)
      BY LedgerLinked DEF Proved, SoundInv
    <2>3. Linked(Known', Known')
      BY <2>1, <2>2 DEF SoundInv, RoundsInv, Linked
    <2>4. OnePerRound(Known')
      BY <2>1 DEF SoundInv, RoundsInv, OnePerRound
    <2> QED BY <1>2, <2>1, <2>3, <2>4 DEF SoundInv, RoundsInv
  <1>4. LoadedInv' /\ SpawnedInv' /\ SavedInv'
    BY <1>1 DEF LoadedInv, SpawnedInv, SavedInv
  <1>5. HeldInv'
    <2>1. \A c \in LedgerCertificates : c.ids \subseteq Ledger
      BY DEF Proved, StaleInv, BlocksConfirm
    <2>2. \A c \in file'.pending \ LedgerCertificates' : \A t \in c.ids : Holds(c, t)'
      BY <1>1, <1>2 DEF SoundInv, HeldInv, Holds
    <2>3. \A t \in DOMAIN transmissions' : t \in Ledger' \/ \E c \in file'.pending : t \in c.ids
      <3> SUFFICES ASSUME NEW t \in DOMAIN transmissions, t \notin Ledger
                   PROVE  \E c \in file.pending : t \in c.ids
        BY <1>1, <1>2
      <3>1. PICK c \in certificates \cup file.pending : t \in c.ids
        BY DEF SoundInv, HeldInv
      <3> QED BY <2>1, <3>1
    <2> QED BY <1>1, <2>2, <2>3 DEF HeldInv
  <1> QED BY <1>3, <1>4, <1>5, SameAnchors DEF SoundInv

\* The process ends.
LEMMA ExitSound ==
    ASSUME Proved, SoundInv, Exit \/ Crash \/ BootFails, Sound'
    PROVE  SoundInv'
  <1>1. LoseMemory /\ UNCHANGED <<databaseVars, ledger, file, forgot>>
    BY DEF Exit, Crash, BootFails, ghostVars
  <1>2. inserting = {}
    BY DEF Exit, Crash, BootFails, Sound, Unfinished
  <1>3. ASSUME NEW c \in certificates
        PROVE  c \in LedgerCertificates \cup file.pending \/ c.ids = {}
    <2>1. CASE Exit
      BY <2>1 DEF Exit, SoundInv, SavedInv
    <2>2. CASE Crash
      BY <2>2 DEF Crash, Sound, Exposed, Pending
    <2>3. CASE BootFails
      BY <2>3 DEF BootFails, SoundInv, LoadedInv
    <2> QED BY <2>1, <2>2, <2>3
  <1> QED BY <1>1, <1>2, <1>3, EndSound

\* Half a number, rounded down.
LEMMA Halves ==
    ASSUME NEW m \in Nat
    PROVE  m \div 2 \in Nat /\ 2 * (m \div 2) + 2 > m
  OBVIOUS

\* The blocks that bootup passes over are below the collected rounds: a block takes two
\* rounds or more.
LEMMA RecentIsEnough ==
    ASSUME Types, AnchorsInv, NEW c \in LedgerCertificates,
           c.round > MinusRounds(LatestAnchor, MaxGcRounds)
    PROVE  c \in UNION {b.certificates : b \in RecentBlocks}
  <1> DEFINE n == Len(ledger)
             half == MaxGcRounds \div 2
             g == MinusRounds(n, half)
  <1>1. ledger \in Seq(BlockType) /\ n \in Nat /\ LatestAnchor \in Nat
    BY AnchorType DEF Types, DiskType
  <1>2. MaxGcRounds \in Nat /\ half \in Nat /\ 2 * half + 2 > MaxGcRounds
    <2>1. MaxGcRounds \in Nat
      BY PersistenceAssumption
    <2> QED BY <2>1, Halves
  <1>3. PICK i \in DOMAIN ledger : c \in ledger[i].certificates
    BY DEF LedgerCertificates, Block
  <1>4. i \in 1..n /\ i \in Nat /\ i >= 1 /\ i <= n /\ n \in DOMAIN ledger /\ ledger # << >>
    BY <1>1, <1>3
  <1>5. ledger[i] \in BlockType /\ ledger[i].anchor \in Nat /\ LatestAnchor = ledger[n].anchor
    <2>1. ledger[i] \in BlockType /\ LatestAnchor = ledger[n].anchor
      BY <1>1, <1>4 DEF LatestAnchor
    <2> QED BY <2>1 DEF BlockType
  <1>6. c.round \in Nat /\ c.round <= ledger[i].anchor
    <2>1. c.round \in Nat
      BY <1>3, <1>5, CertificateFields DEF BlockType
    <2> QED BY <1>3, <2>1 DEF AnchorsInv
  <1> HIDE DEF n
  <1>7. ledger[i].anchor + 2 * (n - i) <= LatestAnchor
    BY <1>4, <1>5 DEF AnchorsInv
  <1> DEFINE a == ledger[i].anchor
             r == c.round
  <1>8. a \in Nat /\ r \in Nat /\ r <= a /\ a + 2 * (n - i) <= LatestAnchor
    BY <1>5, <1>6, <1>7
  <1> HIDE DEF half
  <1>9. g \in Int
    BY <1>1, <1>2, MinusType
  <1>10. i >= g
    <2> SUFFICES ASSUME ~(i >= g) PROVE FALSE
      OBVIOUS
    <2>1. g = n - half /\ n > half
      BY <1>1, <1>2, <1>4 DEF MinusRounds
    <2>2. n - i >= half + 1
      BY <1>1, <1>2, <1>4, <2>1
    <2> HIDE DEF a, r
    <2>3. r + MaxGcRounds < LatestAnchor
      BY <1>1, <1>2, <1>4, <1>8, <2>2
    <2>4. r <= MinusRounds(LatestAnchor, MaxGcRounds)
      BY <1>1, <1>2, <1>8, <2>3 DEF MinusRounds
    <2>5. MinusRounds(LatestAnchor, MaxGcRounds) \in Nat
      BY <1>1, <1>2, MinusType
    <2> QED BY <1>8, <2>4, <2>5 DEF r
  <1>11. i \in Max({1, g})..n
    <2> HIDE DEF g
    <2>1. CASE g <= 1
      <3>1. \E x \in {1, g} : \A y \in {1, g} : x >= y
        BY <1>9, <2>1
      <3>2. Max({1, g}) \in {1, g}
        BY <3>1 DEF Max
      <3>3. Max({1, g}) <= 1 /\ Max({1, g}) \in Int
        BY <1>9, <2>1, <3>2
      <3> QED BY <1>1, <1>4, <3>3
    <2>2. CASE ~(g <= 1)
      <3>1. \E x \in {1, g} : \A y \in {1, g} : x >= y
        BY <1>9, <2>2
      <3>2. Max({1, g}) \in {1, g}
        BY <3>1 DEF Max
      <3>3. Max({1, g}) <= i /\ Max({1, g}) \in Int
        BY <1>4, <1>9, <1>10, <2>2, <3>2
      <3> QED BY <1>1, <1>4, <3>3
    <2> QED BY <2>1, <2>2
  <1> QED BY <1>3, <1>11 DEF RecentBlocks, n, half

\* Bootup starts from the blocks above the collected rounds.
LEMMA BootSound ==
    ASSUME Proved, FileInv, SoundInv, Boot
    PROVE  SoundInv'
  <1>1. /\ status = "down" /\ status' = "syncing"
        /\ gc_round' = MinusRounds(LatestAnchor, MaxGcRounds)
        /\ todo' = UNION {b.certificates : b \in RecentBlocks}
        /\ UNCHANGED <<databaseVars, certificates, spawned, inserting, removing, committed,
                       advanced, ledger, file, saving, forgot>>
    BY DEF Boot, dagVars, ghostVars
  <1>2. certificates = {} /\ spawned = {} /\ inserting = {} /\ ~advanced
    BY <1>1 DEF Proved, SinceInv, DownIsEmpty, FileInv
  <1>3. LedgerCertificates' = LedgerCertificates /\ LatestAnchor' = LatestAnchor
    BY <1>1, SameBlocks
  <1>4. LatestAnchor \in Nat /\ MaxGcRounds \in Nat /\ MaxGcRounds # 0
    BY AnchorType, PersistenceAssumption DEF Proved, Types
  <1>5. gc_round' <= LatestAnchor /\ (ledger # << >> => gc_round' < LatestAnchor)
    <2>1. ledger # << >> => LatestAnchor > 0
      <3> SUFFICES ASSUME ledger # << >> PROVE LatestAnchor > 0
        OBVIOUS
      <3>1. Len(ledger) \in DOMAIN ledger
        BY DEF Proved, Types, DiskType
      <3> QED BY <3>1 DEF LatestAnchor, SoundInv, AnchorsInv
    <2> QED BY <1>1, <1>4, <2>1 DEF MinusRounds
  <1>6. todo' \subseteq LedgerCertificates
    BY <1>1, LedgerTypes DEF Proved, Types
  <1>7. \A c \in LedgerCertificates : c.round > gc_round' => c \in todo'
    BY <1>1, RecentIsEnough DEF Proved, SoundInv
  <1>8. LoadedInv'
    BY <1>1, <1>2, <1>3, <1>5, <1>6, <1>7 DEF LoadedInv
  <1>9. SpawnedInv' /\ SavedInv'
    BY <1>1, <1>2 DEF SpawnedInv, SavedInv
  <1> QED BY <1>1, <1>8, <1>9, SameRounds, SameAnchors, SameHeld DEF SoundInv

\* The ledger is loaded, and the file comes next.
LEMMA LoadCacheSound ==
    ASSUME Proved, SoundInv, LoadProposalCache
    PROVE  SoundInv'
  <1>1. /\ status = "syncing" /\ status' = "loading" /\ todo = {} /\ todo' = file.pending
        /\ committed' = LatestAnchor
        /\ UNCHANGED <<databaseVars, certificates, gc_round, spawned, inserting, removing,
                       advanced, ledger, file, saving, forgot>>
    BY DEF LoadProposalCache, serviceVars, ghostVars
  <1>2. LoadedInv'
    BY <1>1, SameBlocks DEF SoundInv, LoadedInv
  <1>3. SpawnedInv' /\ SavedInv'
    BY <1>1 DEF SoundInv, SpawnedInv, SavedInv
  <1> QED BY <1>1, <1>2, <1>3, SameRounds, SameAnchors, SameHeld DEF SoundInv

\* All is loaded.
LEMMA StartSound ==
    ASSUME Proved, SoundInv, Start
    PROVE  SoundInv'
  <1>1. /\ status = "loading" /\ status' = "running" /\ todo = {}
        /\ UNCHANGED <<databaseVars, certificates, gc_round, spawned, inserting, removing,
                       committed, advanced, todo, ledger, file, saving, forgot>>
    BY DEF Start, serviceVars, memoryVars, dagVars, ghostVars
  <1>2. LoadedInv'
    BY <1>1, SameBlocks DEF SoundInv, LoadedInv
  <1>3. SpawnedInv' /\ SavedInv'
    BY <1>1 DEF SoundInv, SpawnedInv, SavedInv
  <1> QED BY <1>1, <1>2, <1>3, SameRounds, SameAnchors, SameHeld DEF SoundInv

\* The ledger and the database are removed: there is nothing left.
LEMMA RemoveLedgerSound ==
    ASSUME Proved, FileInv, RemoveLedger
    PROVE  SoundInv'
  <1>1. /\ status = "down" /\ certificates = {} /\ spawned = {} /\ todo = {} /\ saving = {}
        /\ inserting = {} /\ removing = {} /\ ~advanced /\ file.pending = {}
    BY DEF RemoveLedger, FileInv, Proved, SinceInv, DownIsEmpty, CleaningIsDown
  <1>2. /\ ledger' = << >> /\ DOMAIN transmissions' = {} /\ forgot' = FALSE
        /\ UNCHANGED <<status, certificates, spawned, todo, saving, inserting, removing, advanced,
                       file>>
    BY DEF RemoveLedger, memoryVars, dagVars, Empty
  <1>3. DOMAIN ledger' = {} /\ LatestAnchor' = 0
    BY <1>2 DEF LatestAnchor
  <1>4. LedgerCertificates' = {} /\ Known' = {}
    BY <1>1, <1>2, <1>3 DEF LedgerCertificates, Block, Known
  <1>5. AnchorsInv' /\ RoundsInv'
    BY <1>1, <1>2, <1>3, <1>4 DEF AnchorsInv, RoundsInv, OnePerRound, Linked
  <1>6. LoadedInv' /\ SpawnedInv' /\ SavedInv' /\ HeldInv'
    BY <1>1, <1>2, <1>4 DEF LoadedInv, SpawnedInv, SavedInv, HeldInv
  <1> QED BY <1>2, <1>5, <1>6 DEF SoundInv

\* At the start there is nothing either.
LEMMA InitPending == Init => PendingInv
  <1> SUFFICES ASSUME Init PROVE PendingInv
    OBVIOUS
  <1>1. /\ status = "down" /\ certificates = {} /\ spawned = {} /\ todo = {} /\ saving = {}
        /\ inserting = {} /\ removing = {} /\ ~advanced /\ file = NoFile /\ ledger = << >>
        /\ DOMAIN transmissions = {} /\ ~forgot /\ ~cleaning
    BY DEF Init, Empty
  <1>2. DOMAIN ledger = {} /\ LatestAnchor = 0
    BY <1>1 DEF LatestAnchor
  <1>3. LedgerCertificates = {} /\ Known = {}
    BY <1>1, <1>2 DEF LedgerCertificates, Block, Known, NoFile
  <1>4. AnchorsInv /\ RoundsInv
    BY <1>1, <1>2, <1>3 DEF AnchorsInv, RoundsInv, OnePerRound, Linked, NoFile
  <1>5. LoadedInv /\ SpawnedInv /\ SavedInv /\ HeldInv /\ FileInv
    BY <1>1, <1>3 DEF LoadedInv, SpawnedInv, SavedInv, HeldInv, FileInv, NoFile
  <1> QED BY <1>1, <1>4, <1>5 DEF SoundInv, PendingInv

\* The writes of an insertion outside of bootup abort nothing.
LEMMA NoneAborted ==
    ASSUME NEW c, NEW provided, InsertCertificate(c, provided, {}), inserting = {}
    PROVE  \A w \in inserting' : w.op # "abort"
  <1> SUFFICES ASSUME NEW w \in inserting' PROVE w.op # "abort"
    OBVIOUS
  <1>1. \E t : w = Write("put", c, t) \/ w = Write("hold", c, t)
    BY DEF InsertCertificate, InsertWrites
  <1> QED BY <1>1 DEF Write

\* Every step keeps the file whole, or says that it does not.
LEMMA StepFile ==
    ASSUME Proved, FileInv, [Next]_vars
    PROVE  FileInv'
  <1>0. status = "down" => inserting = {}
    BY DEF Proved, SinceInv, DownIsEmpty
  <1>1. cleaning => status = "down"
    BY DEF Proved, SinceInv, CleaningIsDown
  <1>2. CASE \/ \E t \in TransmissionID : Receive(t) \/ Checked(t)
             \/ Propose \/ Refuse \/ Collect \/ WriteRemoved \/ Start \/ UNCHANGED vars
    <2>1. /\ UNCHANGED <<inserting, interrupted, file, cleaning>> /\ (advanced' => advanced)
          /\ status' = status \/ (status = "loading" /\ status' = "running")
      BY <1>2 DEF Receive, Checked, Propose, Refuse, Collect, WriteRemoved, Start, vars,
                  memoryVars, dagVars, cleanVars, ghostVars
    <2> QED BY <2>1 DEF FileInv
  <1>3. CASE Store
    <2>1. PICK c \in spawned : InsertCertificate(c, c.ids, {})
      BY <1>3 DEF Store
    <2>2. inserting = {} /\ UNCHANGED <<interrupted, file, cleaning, status, advanced>>
      BY <1>3 DEF Store, dagVars, cleanVars, ghostVars
    <2>3. \A w \in inserting' : w.op # "abort"
      BY <2>1, <2>2, NoneAborted
    <2> QED BY <2>2, <2>3 DEF FileInv
  <1>4. CASE LoadCertificate
    <2>1. PICK c : InsertCertificate(c, Fetched(c), {})
      BY <1>4 DEF LoadCertificate
    <2>2. inserting = {} /\ UNCHANGED <<interrupted, file, cleaning, status, advanced>>
      BY <1>4 DEF LoadCertificate, dagVars, cleanVars, ghostVars
    <2>3. \A w \in inserting' : w.op # "abort"
      BY <2>1, <2>2, NoneAborted
    <2> QED BY <2>2, <2>3 DEF FileInv
  <1>5. CASE SyncCertificate
    BY <1>5 DEF SyncCertificate, FileInv, dagVars, cleanVars, ghostVars
  <1>6. CASE WriteInserted
    <2>1. /\ inserting' \subseteq inserting /\ (~interrupted' => ~interrupted)
          /\ UNCHANGED <<file, cleaning, status, advanced>>
      BY <1>6 DEF WriteInserted, dagVars, cleanVars
    <2> QED BY <2>1 DEF FileInv
  <1>7. CASE \E anchor \in 2..MaxRound : Commit(anchor)
    <2>1. /\ UNCHANGED <<inserting, interrupted, file, cleaning, status>>
          /\ status # "down"
      BY <1>7 DEF Commit, cleanVars
    <2> QED BY <2>1 DEF FileInv
  <1>8. CASE ShutDown
    <2>1. /\ UNCHANGED <<inserting, cleaning>> /\ status = "running" /\ status' = "saving"
      BY <1>8 DEF ShutDown, cleanVars
    <2> QED BY <1>1, <2>1 DEF FileInv
  <1>9. CASE Save
    <2>1. /\ UNCHANGED <<inserting, cleaning>> /\ status = "saving" /\ status' = "stopped"
          /\ file'.state = "saved"
      BY <1>9 DEF Save, cleanVars, memoryVars
    <2> QED BY <1>1, <2>1 DEF FileInv
  <1>10. CASE Exit \/ Crash \/ BootFails
    <2>1. inserting' = {} /\ advanced' = FALSE /\ UNCHANGED <<file, cleaning>>
      BY <1>10 DEF Exit, Crash, BootFails, LoseMemory, cleanVars
    <2>2. ~interrupted' => ~interrupted /\ status # "saving"
      <3>1. CASE Exit
        BY <3>1 DEF Exit
      <3>2. CASE Crash
        BY <3>2 DEF Crash
      <3>3. CASE BootFails
        BY <3>3 DEF BootFails, ghostVars
      <3> QED BY <1>10, <3>1, <3>2, <3>3
    <2> QED BY <2>1, <2>2 DEF FileInv
  <1>11. CASE Boot
    <2>1. /\ status = "down" /\ status' = "syncing"
          /\ UNCHANGED <<inserting, cleaning, file, interrupted>>
      BY <1>11 DEF Boot, cleanVars, ghostVars
    <2> QED BY <2>1 DEF FileInv
  <1>12. CASE LoadProposalCache
    <2>1. /\ inserting = {} /\ status = "syncing" /\ status' = "loading"
          /\ UNCHANGED <<inserting, cleaning, file, interrupted>>
      BY <1>12 DEF LoadProposalCache, cleanVars, ghostVars
    <2> QED BY <2>1 DEF FileInv
  <1>13. CASE RemoveProposalCache \/ RemoveLedger \/ CleanStops
    <2>1. UNCHANGED <<inserting, advanced, status>> /\ status = "down"
      BY <1>1, <1>13
         DEF RemoveProposalCache, RemoveLedger, CleanStops, memoryVars, dagVars
    <2>2. file'.state = "none" /\ file'.pending = {}
      <3>1. CASE RemoveProposalCache
        BY <3>1 DEF RemoveProposalCache, NoFile
      <3>2. CASE RemoveLedger \/ CleanStops
        <4>1. cleaning /\ file' = file
          BY <3>2 DEF RemoveLedger, CleanStops
        <4> QED BY <4>1 DEF FileInv
      <3> QED BY <1>13, <3>1, <3>2
    <2> QED BY <1>0, <2>1, <2>2 DEF FileInv
  <1> QED BY <1>2, <1>3, <1>4, <1>5, <1>6, <1>7, <1>8, <1>9, <1>10, <1>11, <1>12, <1>13 DEF Next

\* Every step keeps the invariant; only removing the ledger starts anew.
LEMMA StepPending ==
    Types /\ SinceInv /\ StaleInv /\ RetrievableInv /\ PendingInv /\ [Next]_vars => PendingInv'
  <1> SUFFICES ASSUME Proved, PendingInv, [Next]_vars, Sound' PROVE SoundInv'
    BY StepFile DEF Proved, PendingInv
  <1>0. FileInv
    BY DEF PendingInv
  <1>1. CASE RemoveLedger
    BY <1>0, <1>1, RemoveLedgerSound
  <1>2. CASE RemoveProposalCache
    BY <1>2 DEF RemoveProposalCache, Sound
  <1>3. CASE ~RemoveLedger /\ ~RemoveProposalCache
    <2>1. (interrupted => interrupted') /\ (unbacked => unbacked')
      <3>1. CASE WriteInserted \/ ShutDown \/ Exit \/ Crash
        <4>1. unbacked' = unbacked
          BY <3>1 DEF WriteInserted, ShutDown, Exit, Crash
        <4>2. interrupted => interrupted'
          <5>1. CASE WriteInserted
            BY <5>1 DEF WriteInserted
          <5>2. CASE ShutDown
            BY <5>2 DEF ShutDown
          <5>3. CASE Exit
            BY <5>3 DEF Exit
          <5>4. CASE Crash
            BY <5>4 DEF Crash
          <5> QED BY <3>1, <5>1, <5>2, <5>3, <5>4
        <4> QED BY <4>1, <4>2
      <3>2. CASE \E anchor \in 2..MaxRound : Commit(anchor)
        <4>1. interrupted' = interrupted
          BY <3>2 DEF Commit
        <4>2. unbacked => unbacked'
          BY <3>2 DEF Commit
        <4> QED BY <4>1, <4>2
      <3>3. CASE \/ \E t \in TransmissionID : Receive(t) \/ Checked(t)
                 \/ Propose \/ Store \/ Refuse \/ Collect \/ WriteRemoved \/ Save \/ Boot
                 \/ SyncCertificate \/ LoadProposalCache \/ BootFails \/ LoadCertificate
                 \/ Start \/ CleanStops \/ UNCHANGED vars
        <4>1. UNCHANGED <<unbacked, interrupted>>
          BY <3>3 DEF Receive, Checked, Propose, Store, Refuse, Collect, WriteRemoved, Save, Boot,
                      SyncCertificate, LoadProposalCache, BootFails, LoadCertificate, Start,
                      CleanStops, vars, ghostVars
        <4> QED BY <4>1
      <3> QED BY <1>3, <3>1, <3>2, <3>3 DEF Next
    <2>2. SoundInv
      BY <2>1 DEF PendingInv, Sound
    <2>3. CASE \/ \E t \in TransmissionID : Receive(t) \/ Checked(t)
               \/ Refuse \/ CleanStops \/ UNCHANGED vars
      <3>1. UNCHANGED SoundVars /\ (advanced' => advanced)
        BY <2>3 DEF Receive, Checked, Refuse, CleanStops, vars, SoundVars, serviceVars,
                    memoryVars, dagVars, ghostVars
      <3> QED BY <2>2, <3>1, QuietSound
    <2>4. CASE Propose \/ Store \/ WriteInserted
      BY <1>0, <2>2, <2>4, ProposeSound, StoreSound, WriteInsertedSound
    <2>5. CASE (\E anchor \in 2..MaxRound : Commit(anchor)) \/ Collect \/ WriteRemoved
      <3>1. ASSUME NEW anchor \in 2..MaxRound, Commit(anchor) PROVE SoundInv'
        BY <2>2, <3>1, CommitSound
      <3>2. CASE Collect \/ WriteRemoved
        BY <2>2, <3>2, CollectSound, WriteRemovedSound
      <3> QED BY <2>5, <3>1, <3>2
    <2>6. CASE ShutDown \/ Save \/ Exit \/ Crash \/ BootFails
      BY <2>2, <2>6, ShutDownSound, SaveSound, ExitSound
    <2>7. CASE Boot \/ SyncCertificate \/ LoadProposalCache \/ LoadCertificate \/ Start
      BY <1>0, <2>2, <2>7, BootSound, SyncSound, LoadCacheSound, LoadSound, StartSound
    <2> QED BY <1>3, <2>3, <2>4, <2>5, <2>6, <2>7 DEF Next
  <1> QED BY <1>1, <1>2, <1>3

\* The invariant in every behaviour.
LEMMA PendingAlways == Spec => [](Proved /\ PendingInv)
  <1>1. Init => RetrievableInv
    BY DEF Init, RetrievableInv, Pending, Empty
  <1>2. Proved <=> Types /\ SinceInv /\ StaleInv /\ RetrievableInv
    BY DEF Proved
  <1> QED BY <1>1, <1>2, InitTypes, StepTypes, InitSince, StepSince, InitStale, StepStale,
             StepBacked, InitPending, StepPending, PTL DEF Spec

\* PendingSurvives (load_proposal_cache, primary.rs) in every behaviour: for every depth of
\* garbage collection and every number of rounds and runs, after shutdowns that nothing cut
\* short the file can be read, and a node that runs again has each certificate of it in
\* storage or in a block.
THEOREM PendingComesBack == Spec => []PendingSurvives
  <1>1. Proved /\ PendingInv => PendingSurvives
    <2> SUFFICES ASSUME Proved, PendingInv, ~interrupted
                 PROVE  /\ status = "down" => file.state # "torn"
                        /\ status = "running" /\ ~unbacked =>
                              file.pending \subseteq certificates \cup LedgerCertificates
      BY DEF PendingSurvives
    <2>1. status = "down" => file.state # "torn"
      BY DEF PendingInv, FileInv
    <2>2. ASSUME status = "running", ~unbacked
          PROVE  file.pending \subseteq certificates \cup LedgerCertificates
      BY <2>2, FileIsLoaded DEF Proved, PendingInv, Sound
    <2> QED BY <2>1, <2>2
  <1> QED BY <1>1, PendingAlways, PTL

\* RefusedIsHeld (process_unconfirmed_transaction and process_unconfirmed_solution,
\* worker.rs) in every behaviour: unless something was cut short, lost by a crash or
\* committed without a block, a running node that refuses a transmission because storage
\* contains it has confirmed it, or has a certificate that holds it, whatever was collected
\* and reloaded before.
THEOREM StoredIsHeld == Spec => []RefusedIsHeld
  <1>1. Proved /\ PendingInv => RefusedIsHeld
    <2> SUFFICES ASSUME Proved, PendingInv, ~interrupted, ~unbacked, status = "running",
                        NEW t \in Stored, t \notin Ledger
                 PROVE  \E c \in certificates : t \in c.ids
      BY DEF RefusedIsHeld
    <2>1. SoundInv
      BY DEF PendingInv, Sound
    <2>2. t \in DOMAIN transmissions
      BY DEF Stored, Proved, RetrievableInv
    <2>3. PICK c \in certificates \cup file.pending : t \in c.ids
      BY <2>1, <2>2 DEF SoundInv, HeldInv
    <2>4. file.pending \subseteq certificates \cup LedgerCertificates
      BY <2>1, FileIsLoaded DEF Proved
    <2>5. c \notin LedgerCertificates
      BY <2>3 DEF Proved, StaleInv, BlocksConfirm
    <2> QED BY <2>3, <2>4, <2>5
  <1> QED BY <1>1, PendingAlways, PTL

-----------------------------------------------------------------------------
(* The locators a node builds are accepted by the checks of block locators, *)
(* for every chain, every height short of the last and every choice of the  *)
(* two constants with fewer recent blocks than an interval.                 *)

Interval == CheckpointInterval

Recent == NumRecentBlocks

\* The assumption on the constants, and the division by the interval.
LEMMA Division ==
    ASSUME NEW h \in Nat
    PROVE  /\ Recent \in Nat /\ Interval \in Nat /\ 1 <= Recent /\ Recent < Interval
           /\ h \div Interval \in Nat /\ h % Interval \in 0..(Interval - 1)
           /\ h = Interval * (h \div Interval) + (h % Interval)
  <1>1. Recent \in Nat /\ Interval \in Nat /\ 1 <= Recent /\ Recent < Interval
    BY LocatorsAssumption DEF Interval, Recent
  <1>2. h \div Interval \in Int /\ h % Interval \in 0..(Interval - 1) /\ h = Interval * (h \div Interval) + (h % Interval)
    BY <1>1, SMT
  <1>3. h \div Interval \in Nat
    BY <1>1, <1>2, SMT
  <1> QED BY <1>1, <1>2, <1>3

\* Multiples of the interval are ordered as their factors.
LEMMA Multiples ==
    ASSUME NEW c \in Nat, c >= 1, NEW i \in Nat, NEW j \in Nat
    PROVE  /\ i * c \in Nat /\ j * c \in Nat
           /\ i < j => i * c < j * c
           /\ (i + 1) * c = i * c + c
  <1>1. i * c \in Nat /\ j * c \in Nat /\ (i + 1) * c = i * c + c
    BY SMT
  <1>2. ASSUME i < j PROVE i * c < j * c
    <2>1. PICK d \in Nat : j = i + d /\ d >= 1
      <3>1. j - i \in Nat /\ j = i + (j - i) /\ j - i >= 1
        BY <1>2, SMT
      <3> QED BY <3>1
    <2>2. j * c = i * c + d * c
      BY <2>1, SMT
    <2>3. d * c >= 1
      BY <2>1, SMT
    <2> QED BY <2>2, <2>3, <1>1, SMT
  <1> QED BY <1>1, <1>2

\* A function on 1..n is a sequence of length n.
LEMMA FunctionIsSequence ==
    ASSUME NEW n \in Nat, NEW f, f = [i \in 1..n |-> f[i]]
    PROVE  Len(f) = n
  <1> DEFINE S == {f[i] : i \in 1..n}
  <1>1. f \in [1..n -> S]
    OBVIOUS
  <1>2. f \in Seq(S)
    BY <1>1
  <1>3. DOMAIN f = 1..Len(f) /\ Len(f) \in Nat /\ DOMAIN f = 1..n
    BY <1>1, <1>2
  <1> QED BY <1>3

-----------------------------------------------------------------------------
(* The shape of the two maps.                                              *)

\* The recent blocks are the last ones, at most Recent of them and all of them below Recent.
LEMMA RecentsShape ==
    ASSUME NEW chain, NEW h \in Nat
    PROVE  /\ FirstRecent(h) \in 0..h
           /\ h - FirstRecent(h) + 1 <= Recent
           /\ h - FirstRecent(h) + 1 < Recent => FirstRecent(h) = 0
           /\ h >= Recent => h - FirstRecent(h) + 1 = Recent
           /\ Len(Recents(chain, h)) = h - FirstRecent(h) + 1
           /\ DOMAIN Recents(chain, h) = 1..(h - FirstRecent(h) + 1)
           /\ \A i \in 1..(h - FirstRecent(h) + 1) :
                 /\ FirstRecent(h) + i - 1 \in 0..h
                 /\ Recents(chain, h)[i].height = FirstRecent(h) + i - 1
                 /\ Recents(chain, h)[i].hash = chain[FirstRecent(h) + i - 1]
  <1> DEFINE f == FirstRecent(h)
             R == Recents(chain, h)
  <1>1. /\ f \in 0..h /\ h - f + 1 <= Recent /\ h - f + 1 \in Nat
        /\ h - f + 1 < Recent => f = 0
        /\ h >= Recent => h - f + 1 = Recent
    <2>1. NumRecentBlocks \in Nat /\ 1 <= NumRecentBlocks
      BY LocatorsAssumption
    <2> QED BY <2>1 DEF FirstRecent, Recent
  <1>2. R = [i \in 1..(h - f + 1) |-> Entry(f + i - 1, chain[f + i - 1])]
    BY DEF Recents
  <1> HIDE DEF f, R
  <1>3. Len(R) = h - f + 1
    <2>1. R = [i \in 1..(h - f + 1) |-> R[i]]
      BY <1>2
    <2> QED BY <1>1, <2>1, FunctionIsSequence
  <1>4. DOMAIN R = 1..(h - f + 1)
    BY <1>2
  <1>5. ASSUME NEW i \in 1..(h - f + 1)
        PROVE  /\ f + i - 1 \in 0..h
               /\ R[i].height = f + i - 1
               /\ R[i].hash = chain[f + i - 1]
    <2>1. R[i] = Entry(f + i - 1, chain[f + i - 1])
      BY <1>2
    <2> QED BY <1>1, <2>1 DEF Entry
  <1> QED BY <1>1, <1>3, <1>4, <1>5 DEF f, R

\* The checkpoints are the multiples of the interval up to the latest height.
LEMMA CheckpointsShape ==
    ASSUME NEW chain, NEW h \in Nat
    PROVE  /\ Len(Checkpoints(chain, h)) = h \div Interval + 1
           /\ DOMAIN Checkpoints(chain, h) = 1..(h \div Interval + 1)
           /\ \A i \in 1..(h \div Interval + 1) :
                 /\ (i - 1) * Interval \in 0..h
                 /\ Checkpoints(chain, h)[i].height = (i - 1) * Interval
                 /\ Checkpoints(chain, h)[i].hash = chain[(i - 1) * Interval]
  <1> DEFINE q == h \div Interval
             K == Checkpoints(chain, h)
  <1>1. Interval \in Nat /\ 1 <= Interval /\ q \in Nat /\ Interval * q <= h /\ Interval * q \in Nat
    <2>1. /\ Interval \in Nat /\ Recent \in Nat /\ 1 <= Recent /\ Recent < Interval
          /\ q \in Nat /\ h % Interval \in 0..(Interval - 1) /\ h = Interval * q + (h % Interval)
      BY Division
    <2> DEFINE y == Interval * q
               r == h % Interval
    <2>2. y \in Nat
      BY <2>1
    <2>3. r \in 0..(Interval - 1) /\ h = y + r
      BY <2>1
    <2> HIDE DEF q, y, r
    <2>4. 1 <= Interval /\ y <= h
      BY <2>1, <2>2, <2>3
    <2> QED BY <2>1, <2>2, <2>4 DEF y
  <1>2. K = [i \in 1..(q + 1) |-> Entry((i - 1) * Interval, chain[(i - 1) * Interval])]
    BY DEF Checkpoints, Interval
  <1> HIDE DEF q, K
  <1>3. Len(K) = q + 1
    <2>1. K = [i \in 1..(q + 1) |-> K[i]]
      BY <1>2
    <2> QED BY <1>1, <2>1, FunctionIsSequence
  <1>4. DOMAIN K = 1..(q + 1)
    BY <1>2
  <1>5. ASSUME NEW i \in 1..(q + 1)
        PROVE  /\ (i - 1) * Interval \in 0..h
               /\ K[i].height = (i - 1) * Interval
               /\ K[i].hash = chain[(i - 1) * Interval]
    <2>1. K[i] = Entry((i - 1) * Interval, chain[(i - 1) * Interval])
      BY <1>2
    <2>2. i - 1 \in Nat /\ i - 1 <= q
      BY <1>1
    <2>3. (i - 1) * Interval \in Nat /\ q * Interval \in Nat /\ (i - 1 < q => (i - 1) * Interval < q * Interval)
      BY <1>1, <2>2, Multiples
    <2>4. q * Interval = Interval * q
      BY <1>1
    <2>5. (i - 1) * Interval <= Interval * q
      <3>1. CASE i - 1 = q
        BY <3>1, <2>3, <2>4
      <3>2. CASE i - 1 < q
        BY <3>2, <2>3, <2>4, <1>1
      <3> QED BY <2>2, <3>1, <3>2, <1>1
    <2>6. (i - 1) * Interval \in 0..h
      <3> DEFINE x == (i - 1) * Interval
                 y == Interval * q
      <3>1. x \in Nat /\ y \in Nat /\ x <= y /\ y <= h
        BY <1>1, <2>3, <2>5
      <3> HIDE DEF x, y
      <3>2. x \in 0..h
        BY <3>1
      <3> QED BY <3>2 DEF x
    <2> QED BY <2>1, <2>6 DEF Entry
  <1> QED BY <1>3, <1>4, <1>5 DEF q, K

-----------------------------------------------------------------------------
(* The checks.                                                             *)

\* Each block of the chain up to h has a hash of its own.
Distinct(chain, h) == \A a, b \in 0..h : chain[a] = chain[b] => a = b

\* The entries of a map are blocks of the chain.
OfChain(map, chain) == \A i \in DOMAIN map : map[i].hash = chain[map[i].height]

\* Both maps take their hashes from the chain.
LEMMA BuiltOfChain ==
    ASSUME NEW chain, NEW h \in Nat
    PROVE  OfChain(Recents(chain, h), chain) /\ OfChain(Checkpoints(chain, h), chain)
  <1> DEFINE R == Recents(chain, h)
             K == Checkpoints(chain, h)
             n == h - FirstRecent(h) + 1
             q == h \div Interval
  <1>1. /\ DOMAIN R = 1..n
        /\ \A i \in 1..n : /\ R[i].height = FirstRecent(h) + i - 1
                           /\ R[i].hash = chain[FirstRecent(h) + i - 1]
    BY RecentsShape
  <1>2. /\ DOMAIN K = 1..(q + 1)
        /\ \A i \in 1..(q + 1) : K[i].height = (i - 1) * Interval /\ K[i].hash = chain[(i - 1) * Interval]
    BY CheckpointsShape
  <1> HIDE DEF R, K, n, q
  <1>3. OfChain(R, chain)
    BY <1>1, Zenon DEF OfChain
  <1>4. OfChain(K, chain)
    BY <1>2, Zenon DEF OfChain
  <1> QED BY <1>3, <1>4 DEF R, K

\* The recent blocks end at the latest height and pass their check.
LEMMA BuiltRecents ==
    ASSUME NEW chain, NEW h \in Nat, Distinct(chain, h)
    PROVE  /\ LastHeight(Recents(chain, h)) = h
           /\ CheckRecentBlocks(Recents(chain, h))
  <1> DEFINE f == FirstRecent(h)
             R == Recents(chain, h)
             n == h - f + 1
  <1>1. /\ f \in 0..h /\ n <= Recent /\ (n < Recent => f = 0) /\ (h >= Recent => n = Recent)
        /\ Len(R) = n /\ DOMAIN R = 1..n
        /\ \A i \in 1..n : /\ f + i - 1 \in 0..h
                           /\ R[i].height = f + i - 1
                           /\ R[i].hash = chain[f + i - 1]
    BY RecentsShape
  <1>2. n \in Nat /\ 1 <= n /\ f + n - 1 = h
    BY <1>1
  <1> HIDE DEF f, R
  <1>3. LastHeight(R) = h
    BY <1>1, <1>2 DEF LastHeight
  <1>4. R # <<>>
    BY <1>1, <1>2
  <1>5. R[1].height = f
    BY <1>1, <1>2
  <1>6. \A i \in 2..Len(R) : R[i].height = R[i - 1].height + 1
    <2>1. SUFFICES ASSUME NEW i \in 2..n
                   PROVE  R[i].height = R[i - 1].height + 1
      BY <1>1
    <2>2. i \in 1..n /\ i - 1 \in 1..n
      BY <1>2
    <2>3. R[i].height = f + i - 1 /\ R[i - 1].height = f + (i - 1) - 1
      BY <1>1, <2>2
    <2> QED BY <1>1, <2>2, <2>3
  <1>7. ~HasDuplicates(R)
    <2>1. SUFFICES ASSUME NEW i \in 1..n, NEW j \in 1..n, R[i].hash = R[j].hash
                   PROVE  i = j
      BY <1>1 DEF HasDuplicates
    <2>2. chain[f + i - 1] = chain[f + j - 1]
      BY <1>1, <2>1
    <2>3. f + i - 1 = f + j - 1
      BY <1>1, <2>2 DEF Distinct
    <2> QED BY <1>1, <2>3
  <1>8. CheckRecentBlocks(R)
    BY <1>1, <1>2, <1>3, <1>4, <1>5, <1>6, <1>7 DEF CheckRecentBlocks, Recent
  <1> QED BY <1>3, <1>8 DEF R

\* The checkpoints end at the last multiple of the interval and pass their check.
LEMMA BuiltCheckpoints ==
    ASSUME NEW chain, NEW h \in Nat, Distinct(chain, h)
    PROVE  /\ LastHeight(Checkpoints(chain, h)) = (h \div Interval) * Interval
           /\ CheckBlockCheckpoints(Checkpoints(chain, h))
  <1> DEFINE q == h \div Interval
             K == Checkpoints(chain, h)
  <1>1. Interval \in Nat /\ q \in Nat
    BY Division
  <1>2. Interval >= 1
    <2>1. Interval \in Nat /\ Recent \in Nat /\ 1 <= Recent /\ Recent < Interval
      BY Division
    <2> QED BY <2>1
  <1>3. /\ Len(K) = q + 1 /\ DOMAIN K = 1..(q + 1)
        /\ \A i \in 1..(q + 1) : /\ (i - 1) * Interval \in 0..h
                                 /\ K[i].height = (i - 1) * Interval
                                 /\ K[i].hash = chain[(i - 1) * Interval]
    BY CheckpointsShape
  <1> HIDE DEF q, K
  <1>4. LastHeight(K) = q * Interval
    <2>1. q + 1 \in 1..(q + 1) /\ (q + 1) - 1 = q
      BY <1>1
    <2>2. K[q + 1].height = ((q + 1) - 1) * Interval
      BY <1>3, <2>1
    <2> QED BY <1>3, <2>1, <2>2 DEF LastHeight
  <1>5. K # <<>>
    BY <1>1, <1>3
  <1>6. K[1].height = 0
    <2>1. 1 \in 1..(q + 1) /\ 1 - 1 = 0 /\ 0 * Interval = 0
      BY <1>1
    <2> QED BY <1>3, <2>1
  <1>7. \A i \in 2..Len(K) : K[i].height = K[i - 1].height + Interval
    <2>1. SUFFICES ASSUME NEW i \in 2..(q + 1)
                   PROVE  K[i].height = K[i - 1].height + Interval
      BY <1>3
    <2>2. /\ i \in 1..(q + 1) /\ i - 1 \in 1..(q + 1)
          /\ (i - 1) - 1 \in Nat /\ ((i - 1) - 1) + 1 = i - 1
      BY <1>1
    <2>3. (((i - 1) - 1) + 1) * Interval = ((i - 1) - 1) * Interval + Interval
      BY <1>1, <1>2, <2>2, Multiples
    <2>4. K[i].height = (i - 1) * Interval /\ K[i - 1].height = ((i - 1) - 1) * Interval
      BY <1>3, <2>2
    <2> QED BY <2>2, <2>3, <2>4
  <1>8. ~HasDuplicates(K)
    <2>1. SUFFICES ASSUME NEW i \in 1..(q + 1), NEW j \in 1..(q + 1),
                          i < j, K[i].hash = K[j].hash
                   PROVE  FALSE
      BY <1>1, <1>3 DEF HasDuplicates
    <2>2. i - 1 \in Nat /\ j - 1 \in Nat /\ i - 1 < j - 1
      BY <1>1, <2>1
    <2>3. /\ (i - 1) * Interval \in 0..h /\ (j - 1) * Interval \in 0..h
          /\ chain[(i - 1) * Interval] = chain[(j - 1) * Interval]
      BY <1>3, <2>1
    <2>4. (i - 1) * Interval = (j - 1) * Interval
      BY <2>3 DEF Distinct
    <2>5. (i - 1) * Interval \in Nat /\ (i - 1) * Interval < (j - 1) * Interval
      BY <1>1, <1>2, <2>2, Multiples
    <2> QED BY <2>4, <2>5
  <1>9. CheckBlockCheckpoints(K)
    BY <1>5, <1>6, <1>7, <1>8 DEF CheckBlockCheckpoints, Interval
  <1> QED BY <1>4, <1>9 DEF q, K

\* Looking up a height that the map has gives the hash of that block.
LEMMA LookUp ==
    ASSUME NEW map, NEW chain, OfChain(map, chain), NEW x \in Heights(map)
    PROVE  HashAt(map, x) = chain[x]
  <1>1. \E i \in DOMAIN map : map[i].height = x
    BY DEF Heights
  <1> DEFINE k == CHOOSE i \in DOMAIN map : map[i].height = x
  <1>2. k \in DOMAIN map /\ map[k].height = x
    BY <1>1
  <1> HIDE DEF k
  <1>3. map[k].hash = chain[x]
    BY <1>2 DEF OfChain
  <1> QED BY <1>3 DEF HashAt, k

\* Two maps of one chain agree where they overlap.
LEMMA SameChainAgrees ==
    ASSUME NEW old, NEW new, NEW chain, OfChain(old, chain), OfChain(new, chain)
    PROVE  Agree(old, new)
  BY DEF Agree, OfChain

\* If the recent blocks reach back to the last checkpoint, both maps have it.
LEMMA CommonHeight ==
    ASSUME NEW chain, NEW h \in Nat, h % Interval < Recent
    PROVE  h - (h % Interval) \in Heights(Recents(chain, h)) \cap Heights(Checkpoints(chain, h))
  <1> DEFINE q == h \div Interval
             r == h % Interval
             f == FirstRecent(h)
             R == Recents(chain, h)
             K == Checkpoints(chain, h)
  <1>1. Interval \in Nat /\ Recent \in Nat /\ q \in Nat /\ r \in 0..(Interval - 1) /\ h = Interval * q + r
    BY Division
  <1>2. r \in Nat /\ r < Recent
    BY <1>1
  <1>3. h - r = q * Interval
    <2> DEFINE y == Interval * q
    <2>1. y = q * Interval /\ y \in Nat /\ h = y + r
      BY <1>1
    <2> HIDE DEF y, r
    <2>2. h - r = y
      BY <1>2, <2>1
    <2> QED BY <2>1, <2>2
  <1>4. /\ f \in 0..h /\ DOMAIN R = 1..(h - f + 1)
        /\ (h - f + 1 < Recent => f = 0) /\ h - f + 1 <= Recent
        /\ \A i \in 1..(h - f + 1) : R[i].height = f + i - 1
    BY RecentsShape
  <1>5. DOMAIN K = 1..(q + 1) /\ \A i \in 1..(q + 1) : K[i].height = (i - 1) * Interval
    BY CheckpointsShape
  <1> HIDE DEF q, r, f, R, K
  <1>6. h - r \in Heights(K)
    <2>1. q + 1 \in 1..(q + 1) /\ (q + 1) - 1 = q
      BY <1>1
    <2>2. K[q + 1].height = ((q + 1) - 1) * Interval
      BY <1>5, <2>1
    <2>3. K[q + 1].height = h - r
      BY <1>3, <2>1, <2>2
    <2> QED BY <1>5, <2>1, <2>3 DEF Heights
  <1>7. h - r \in Heights(R)
    <2> DEFINE i == h - r - f + 1
    <2>1. h - r >= 0
      <3>1. q * Interval \in Nat
        BY <1>1
      <3> QED BY <1>3, <3>1
    <2>2. i \in 1..(h - f + 1) /\ f + i - 1 = h - r
      BY <1>1, <1>2, <1>4, <2>1
    <2>3. R[i].height = h - r
      BY <1>4, <2>2
    <2> QED BY <1>4, <2>2, <2>3 DEF Heights
  <1> QED BY <1>6, <1>7 DEF r, R, K

\* The locators of a node with latest height h pass the check of block locators.  The
\* last height of a u32 is excluded: there the saturating addition of the check refuses
\* any locators.
LEMMA BuiltIsValid ==
    ASSUME NEW chain, NEW h \in Nat, h < MaxHeight, Distinct(chain, h)
    PROVE  CheckBlockLocators(Recents(chain, h), Checkpoints(chain, h))
  <1> DEFINE q == h \div Interval
             R == Recents(chain, h)
             K == Checkpoints(chain, h)
  <1>1. LastHeight(R) = h /\ CheckRecentBlocks(R)
    BY BuiltRecents
  <1>2. LastHeight(K) = q * Interval /\ CheckBlockCheckpoints(K)
    BY BuiltCheckpoints
  <1>3. LastCheckpointFits(R, K)
    <2> DEFINE y == Interval * q
               r == h % Interval
    <2>1. Interval \in Nat /\ q \in Nat /\ r \in 0..(Interval - 1) /\ h = y + r
      BY Division
    <2>2. y \in Nat /\ y = q * Interval
      BY <2>1
    <2> HIDE DEF q, R, K, y, r
    <2>3. LastHeight(K) = y
      BY <1>2, <2>2
    <2>4. y <= h /\ h < y + Interval
      BY <2>1, <2>2
    <2>5. h < SaturatingAdd(y, Interval)
      BY <2>1, <2>2, <2>4, LocatorsAssumption DEF SaturatingAdd, MinOf
    <2> QED BY <1>1, <2>3, <2>4, <2>5 DEF LastCheckpointFits, Interval
  <1>4. ASSUME Overlaps(R)
        PROVE  HashAt(R, Common(R)) = HashAt(K, Common(R))
    <2>1. h % Interval < Recent /\ Common(R) = h - (h % Interval)
      BY <1>1, <1>4 DEF Overlaps, Common, Interval, Recent
    <2>2. Common(R) \in Heights(R) /\ Common(R) \in Heights(K)
      BY <2>1, CommonHeight
    <2>3. OfChain(R, chain) /\ OfChain(K, chain)
      BY BuiltOfChain
    <2> HIDE DEF R, K
    <2> QED BY <2>2, <2>3, LookUp
  <1> QED BY <1>1, <1>2, <1>3, <1>4 DEF CheckBlockLocators

\* What `new` makes of two maps.
LEMMA NewIs ==
    ASSUME NEW R, NEW K
    PROVE  New(R, K) = IF CheckBlockLocators(R, K) THEN {Locators(R, K)} ELSE {}
  <1>1. Locators(R, K).recents = R /\ Locators(R, K).checkpoints = K
    BY DEF Locators
  <1>2. IsValid(Locators(R, K)) = CheckBlockLocators(R, K)
    BY <1>1 DEF IsValid
  <1> QED BY <1>2 DEF New

-----------------------------------------------------------------------------
\* What get_block_locators builds is accepted by `new` and by
\* check_consistent_block_locators, for every choice of the two constants with fewer
\* recent blocks than an interval, at every height short of the last.
THEOREM BuiltAreAccepted == Spec => []LocatorsAccepted
  <1>1. LocatorsAccepted
    <2>1. SUFFICES ASSUME NEW h \in 0..(MaxHeight - 1)
                   PROVE  /\ GetBlockLocators(Chain, h) # {}
                          /\ \A k \in 0..h :
                                \A old \in GetBlockLocators(Chain, k),
                                   new \in GetBlockLocators(Chain, h) :
                                       IsConsistentWith(old, new)
      BY DEF LocatorsAccepted
    <2>2. h \in Nat /\ h < MaxHeight /\ MaxHeight \in Nat
      BY LocatorsAssumption
    <2>3. Distinct(Chain, h)
      BY <2>2 DEF Distinct, Chain
    <2>4. GetBlockLocators(Chain, h) # {}
      <3>1. CheckBlockLocators(Recents(Chain, h), Checkpoints(Chain, h))
        BY <2>2, <2>3, BuiltIsValid
      <3> QED BY <3>1, NewIs DEF GetBlockLocators
    <2>5. ASSUME NEW k \in 0..h,
                 NEW old \in GetBlockLocators(Chain, k), NEW new \in GetBlockLocators(Chain, h)
          PROVE  IsConsistentWith(old, new)
      <3>1. k \in Nat
        BY <2>2
      <3>2. /\ OfChain(Recents(Chain, k), Chain) /\ OfChain(Recents(Chain, h), Chain)
            /\ OfChain(Checkpoints(Chain, k), Chain) /\ OfChain(Checkpoints(Chain, h), Chain)
        BY <2>2, <3>1, BuiltOfChain
      <3>3. /\ Agree(Recents(Chain, k), Recents(Chain, h))
            /\ Agree(Checkpoints(Chain, k), Checkpoints(Chain, h))
        BY <3>2, SameChainAgrees
      <3>4. /\ old = Locators(Recents(Chain, k), Checkpoints(Chain, k))
            /\ new = Locators(Recents(Chain, h), Checkpoints(Chain, h))
        BY DEF GetBlockLocators, New
      <3> QED BY <3>3, <3>4 DEF IsConsistentWith, Locators
    <2> QED BY <2>4, <2>5
  <1> QED BY <1>1, PTL

-----------------------------------------------------------------------------
(* The locators that the checks accept are those of the reference form.    *)
(* Both are a matter of the heights: those of the recent blocks are        *)
(* consecutive, those of the checkpoints the multiples of the interval.    *)
(* The checks compare neighbours, so the heights follow by induction, here *)
(* from the least position that has another height.                        *)

\* A non-empty set of numbers has a least element.
LEMMA LeastNumber ==
    ASSUME NEW A, A \subseteq Nat, A # {}
    PROVE  \E n \in A : \A m \in A : n <= m
  <1> DEFINE T == {0..n : n \in A}
  <1>1. IsWellFoundedOn(StrictSubsetOrdering(Nat), FiniteSubsetsOf(Nat))
    BY FS_StrictSubsetOrderingWellFounded
  <1>2. T \subseteq FiniteSubsetsOf(Nat)
    <2>1. ASSUME NEW n \in A PROVE 0..n \in FiniteSubsetsOf(Nat)
      <3>1. 0..n \in SUBSET Nat
        OBVIOUS
      <3>2. IsFiniteSet(0..n)
        BY FS_Interval
      <3> QED BY <3>1, <3>2 DEF FiniteSubsetsOf
    <2> QED BY <2>1
  <1>3. T # {}
    OBVIOUS
  <1>4. PICK x \in T : \A y \in T : <<y, x>> \notin StrictSubsetOrdering(Nat)
    <2> HIDE DEF T
    <2> QED BY <1>1, <1>2, <1>3, WFMin
  <1>5. PICK n \in A : x = 0..n
    OBVIOUS
  <1>6. ASSUME NEW m \in A, m < n PROVE FALSE
    <2>1. 0..m \in T
      OBVIOUS
    <2>2. 0..m \in SUBSET Nat /\ 0..n \in SUBSET Nat /\ 0..m \subseteq 0..n
      BY <1>6
    <2>3. n \in 0..n /\ n \notin 0..m
      BY <1>6
    <2>4. 0..m # 0..n
      BY <2>3
    <2>5. <<0..m, 0..n>> \in StrictSubsetOrdering(Nat)
      <3> DEFINE a == 0..m
                 b == 0..n
      <3> HIDE DEF a, b
      <3>1. a \in SUBSET Nat /\ b \in SUBSET Nat /\ a \subseteq b /\ a # b
        BY <2>2, <2>4 DEF a, b
      <3>2. <<a, b>> \in StrictSubsetOrdering(Nat)
        BY <3>1 DEF StrictSubsetOrdering
      <3> QED BY <3>2 DEF a, b
    <2> QED BY <1>4, <1>5, <2>1, <2>5
  <1> QED BY <1>6

\* Neighbours that differ by d.
LEMMA Spaced ==
    ASSUME NEW f, NEW n \in Nat, NEW d \in Nat, d >= 1,
           \A i \in 1..n : f[i].height \in Nat,
           \A i \in 2..n : f[i].height = f[i - 1].height + d
    PROVE  \A i \in 1..n : f[i].height = f[1].height + (i - 1) * d
  <1> DEFINE Bad == {i \in 1..n : f[i].height # f[1].height + (i - 1) * d}
  <1>1. SUFFICES ASSUME Bad # {} PROVE FALSE
    OBVIOUS
  <1>2. PICK i \in Bad : \A j \in Bad : i <= j
    <2>1. Bad \subseteq Nat
      OBVIOUS
    <2> HIDE DEF Bad
    <2> QED BY <1>1, <2>1, LeastNumber
  <1>3. i \in 1..n /\ f[i].height # f[1].height + (i - 1) * d
    OBVIOUS
  <1>4. 1 \in 1..n /\ f[1].height \in Nat
    BY <1>3
  <1>5. i # 1
    <2>1. ASSUME i = 1 PROVE FALSE
      <3>1. (i - 1) * d = 0
        <4>1. i - 1 = 0
          BY <2>1
        <4>2. 0 * d = 0
          OBVIOUS
        <4> QED BY <4>1, <4>2
      <3>2. f[i].height = f[1].height + 0
        BY <1>4, <2>1
      <3> QED BY <1>3, <3>1, <3>2
    <2> QED BY <2>1
  <1>6. i \in 2..n /\ i - 1 \in 1..n /\ ~(i <= i - 1)
    BY <1>3, <1>5
  <1>7. i - 1 \notin Bad
    BY <1>2, <1>6
  <1>8. f[i - 1].height = f[1].height + ((i - 1) - 1) * d
    BY <1>6, <1>7
  <1>9. ((i - 1) - 1) * d \in Nat /\ (i - 1) * d = ((i - 1) - 1) * d + d
    <2>1. (i - 1) - 1 \in Nat /\ ((i - 1) - 1) + 1 = i - 1
      BY <1>6
    <2>2. /\ ((i - 1) - 1) * d \in Nat
          /\ (((i - 1) - 1) + 1) * d = ((i - 1) - 1) * d + d
      BY <2>1, Multiples
    <2> QED BY <2>1, <2>2
  <1> DEFINE x == ((i - 1) - 1) * d
             y == (i - 1) * d
             a == f[1].height
             b == f[i - 1].height
  <1>10. /\ x \in Nat /\ y = x + d /\ a \in Nat /\ b = a + x /\ f[i].height = b + d
         /\ f[i].height # a + y
    BY <1>3, <1>4, <1>6, <1>8, <1>9
  <1> HIDE DEF x, y, a, b
  <1> QED BY <1>10

\* The quotient and the remainder, from a multiple that is close enough.
LEMMA Quotient ==
    ASSUME NEW h \in Nat, NEW j \in Nat, j * Interval <= h, h < j * Interval + Interval
    PROVE  j = h \div Interval /\ h % Interval = h - j * Interval
  <1> DEFINE q == h \div Interval
             r == h % Interval
  <1>1. /\ Interval \in Nat /\ Interval >= 1 /\ q \in Nat /\ r \in 0..(Interval - 1)
        /\ h = Interval * q + r
    <2>1. /\ Recent \in Nat /\ Interval \in Nat /\ 1 <= Recent /\ Recent < Interval
          /\ q \in Nat /\ r \in 0..(Interval - 1) /\ h = Interval * q + r
      BY Division
    <2>2. Interval >= 1
      BY <2>1
    <2> QED BY <2>1, <2>2
  <1> HIDE DEF q, r
  <1> DEFINE a == j * Interval
             b == q * Interval
  <1>2. a \in Nat /\ b \in Nat /\ h = b + r /\ a <= h /\ h < a + Interval
    BY <1>1
  <1>3. ~(j < q)
    <2>1. ASSUME j < q PROVE FALSE
      <3> DEFINE c == (j + 1) * Interval
      <3>1. c = a + Interval /\ (j + 1 < q => c < b)
        BY <1>1, Multiples
      <3>2. j + 1 = q => c = b
        OBVIOUS
      <3>3. j + 1 < q \/ j + 1 = q
        BY <1>1, <2>1
      <3> HIDE DEF a, b, c
      <3>4. c <= b
        BY <1>1, <1>2, <3>1, <3>2, <3>3
      <3> QED BY <1>1, <1>2, <3>1, <3>4
    <2> QED BY <2>1
  <1>4. ~(q < j)
    <2>1. ASSUME q < j PROVE FALSE
      <3> DEFINE c == (q + 1) * Interval
      <3>1. c = b + Interval /\ (q + 1 < j => c < a)
        BY <1>1, Multiples
      <3>2. q + 1 = j => c = a
        OBVIOUS
      <3>3. q + 1 < j \/ q + 1 = j
        BY <1>1, <2>1
      <3> HIDE DEF a, b, c
      <3>4. c <= a
        BY <1>1, <1>2, <3>1, <3>2, <3>3
      <3> QED BY <1>1, <1>2, <3>1, <3>4
    <2> QED BY <2>1
  <1>5. j = q
    BY <1>1, <1>3, <1>4
  <1>6. a = b
    BY <1>5
  <1>7. r = h - a
    <2> HIDE DEF a, b
    <2> QED BY <1>1, <1>2, <1>6
  <1> QED BY <1>5, <1>7 DEF q, r

\* A map as it is read: a sequence of entries, no two of one height.
IsMap(map) ==
    /\ Len(map) \in Nat /\ DOMAIN map = 1..Len(map)
    /\ map # << >> => Len(map) # 0
    /\ \A i \in 1..Len(map) : map[i].height \in Nat
    /\ \A i, j \in 1..Len(map) : map[i].height = map[j].height => i = j

LEMMA MapsAreMaps ==
    ASSUME NEW n \in Nat, NEW map \in Maps(n)
    PROVE  IsMap(map)
  <1>0. MaxHeight \in Nat
    BY LocatorsAssumption
  <1> DEFINE E == [height : 0..MaxHeight, hash : {"x", "y"}]
  <1>1. PICK k \in 0..n : map \in [1..k -> E]
    BY DEF Maps
  <1>2. \A i, j \in DOMAIN map : map[i].height = map[j].height => i = j
    BY DEF Maps
  <1>3. \A e \in E : e.height \in Nat
    BY <1>0
  <1> HIDE DEF E
  <1>4. map \in Seq(E) /\ k \in Nat
    BY <1>1
  <1>5. Len(map) \in Nat /\ DOMAIN map = 1..Len(map) /\ (map # << >> => Len(map) # 0)
    BY <1>4
  <1>6. \A i \in 1..Len(map) : map[i] \in E
    BY <1>4, <1>5
  <1> QED BY <1>2, <1>3, <1>5, <1>6 DEF IsMap

\* The recent blocks of latest height h: the last ones, and all of them below Recent.
RecentsAt(recents, h) ==
    /\ 1 <= Len(recents) /\ Len(recents) <= Recent /\ Len(recents) <= h + 1
    /\ Len(recents) < Recent => Len(recents) = h + 1
    /\ \A i \in 1..Len(recents) : recents[i].height = h - Len(recents) + i

\* The checkpoints of latest height h.
CheckpointsAt(checkpoints, h) ==
    /\ Len(checkpoints) = h \div Interval + 1
    /\ \A i \in 1..Len(checkpoints) : checkpoints[i].height = (i - 1) * Interval

\* The checks of the recent blocks ask for this form.
LEMMA RecentsChecked ==
    ASSUME NEW R, IsMap(R)
    PROVE  CheckRecentBlocks(R) <=>
              /\ R # << >> /\ RecentsAt(R, LastHeight(R)) /\ ~HasDuplicates(R)
  <1> DEFINE k == Len(R)
             h == LastHeight(R)
  <1>0. /\ Recent \in Nat /\ Recent >= 1 /\ k \in Nat /\ DOMAIN R = 1..k
        /\ \A i \in 1..k : R[i].height \in Nat
    BY Division DEF IsMap
  <1>1. ASSUME CheckRecentBlocks(R) PROVE RecentsAt(R, h)
    <2>1. /\ k # 0 /\ k <= Recent /\ (k < Recent => R[1].height = 0)
          /\ \A i \in 2..k : R[i].height = R[i - 1].height + 1
          /\ (h >= Recent => k = Recent)
      BY <1>1 DEF CheckRecentBlocks, IsMap, Recent
    <2> HIDE DEF k
    <2>2. \A i \in 1..k : R[i].height = R[1].height + (i - 1) * 1
      <3>1. PICK d \in Nat : d = 1
        OBVIOUS
      <3>2. d >= 1 /\ \A i \in 2..k : R[i].height = R[i - 1].height + d
        BY <2>1, <3>1
      <3>3. \A i \in 1..k : R[i].height = R[1].height + (i - 1) * d
        BY <1>0, <3>2, Spaced
      <3> QED BY <3>1, <3>3
    <2>3. \A i \in 1..k : R[i].height = R[1].height + (i - 1)
      <3>1. \A i \in 1..k : (i - 1) * 1 = i - 1
        BY <1>0
      <3> QED BY <2>2, <3>1
    <2>4. 1 \in 1..k /\ k \in 1..k
      BY <1>0, <2>1
    <2>5. R[1].height \in Nat /\ h = R[1].height + (k - 1)
      BY <1>0, <2>3, <2>4 DEF LastHeight, k
    <2> HIDE DEF h
    <2>6. 1 <= k /\ k <= h + 1 /\ (k < Recent => k = h + 1)
      BY <1>0, <2>1, <2>4, <2>5
    <2>7. \A i \in 1..k : R[i].height = h - k + i
      BY <1>0, <2>3, <2>5
    <2> QED BY <2>1, <2>6, <2>7 DEF RecentsAt, k
  <1>2. ASSUME R # << >>, RecentsAt(R, h), ~HasDuplicates(R) PROVE CheckRecentBlocks(R)
    <2>1. /\ 1 <= k /\ k <= Recent /\ k <= h + 1 /\ (k < Recent => k = h + 1)
          /\ \A i \in 1..k : R[i].height = h - k + i
      BY <1>2 DEF RecentsAt
    <2>2. 1 \in 1..k /\ k \in 1..k /\ h \in Nat
      BY <1>0, <2>1 DEF LastHeight
    <2>3. k < Recent => R[1].height = 0
      <3>1. R[1].height = h - k + 1
        BY <2>1, <2>2
      <3> HIDE DEF k, h
      <3> QED BY <1>0, <2>1, <2>2, <3>1
    <2>4. ASSUME NEW i \in 2..k PROVE R[i].height = R[i - 1].height + 1
      <3>1. i \in 1..k /\ i - 1 \in 1..k
        BY <1>0
      <3>2. R[i].height = h - k + i /\ R[i - 1].height = h - k + (i - 1)
        BY <2>1, <3>1
      <3> HIDE DEF k, h
      <3> QED BY <1>0, <2>2, <3>1, <3>2
    <2>5. h >= Recent => k = Recent
      <3> HIDE DEF k, h
      <3> QED BY <1>0, <2>1, <2>2
    <2> QED BY <1>2, <2>1, <2>3, <2>4, <2>5 DEF CheckRecentBlocks, Recent
  <1>3. CheckRecentBlocks(R) => R # << >> /\ ~HasDuplicates(R)
    BY DEF CheckRecentBlocks
  <1> QED BY <1>1, <1>2, <1>3

\* So do the checks of the checkpoints, together with the one of the last of them.
LEMMA CheckpointsChecked ==
    ASSUME NEW R, NEW K, IsMap(R), IsMap(K), R # << >>
    PROVE  CheckBlockCheckpoints(K) /\ LastCheckpointFits(R, K) <=>
              /\ K # << >> /\ CheckpointsAt(K, LastHeight(R)) /\ ~HasDuplicates(K)
              /\ LastHeight(R) < MaxHeight
  <1> DEFINE m == Len(K)
             h == LastHeight(R)
             last == LastHeight(K)
  <1>0. /\ Interval \in Nat /\ Interval >= 1 /\ m \in Nat /\ DOMAIN K = 1..m /\ MaxHeight \in Nat
        /\ \A i \in 1..m : K[i].height \in Nat
    <2>1. Interval \in Nat /\ Recent \in Nat /\ 1 <= Recent /\ Recent < Interval
      BY Division
    <2>2. Interval >= 1
      BY <2>1
    <2> QED BY <2>1, <2>2, LocatorsAssumption DEF IsMap
  <1>1. h \in Nat
    <2>1. Len(R) \in 1..Len(R) /\ \A i \in 1..Len(R) : R[i].height \in Nat
      BY DEF IsMap
    <2> QED BY <2>1 DEF LastHeight
  <1>2. ASSUME K # << >> PROVE m # 0 /\ 1 \in 1..m /\ m \in 1..m /\ m - 1 \in Nat
    <2>1. m # 0
      BY <1>2 DEF IsMap
    <2> HIDE DEF m
    <2> QED BY <1>0, <2>1
  <1>3. ASSUME CheckBlockCheckpoints(K), LastCheckpointFits(R, K)
        PROVE  CheckpointsAt(K, h) /\ h < MaxHeight
    <2>1. /\ K # << >> /\ K[1].height = 0
          /\ \A i \in 2..m : K[i].height = K[i - 1].height + Interval
      BY <1>3 DEF CheckBlockCheckpoints, Interval
    <2>2. /\ \A i \in 1..m : K[i].height = K[1].height + (i - 1) * Interval
      <3> HIDE DEF m
      <3> QED BY <1>0, <2>1, Spaced
    <2>3. ASSUME NEW i \in 1..m PROVE K[i].height = (i - 1) * Interval
      <3> DEFINE x == (i - 1) * Interval
      <3>1. x \in Nat
        <4>1. i - 1 \in Nat
          BY <1>0
        <4> QED BY <1>0, <4>1
      <3>2. K[i].height = 0 + x
        BY <2>1, <2>2
      <3> HIDE DEF x
      <3>3. K[i].height = x
        BY <3>1, <3>2
      <3> QED BY <3>3 DEF x
    <2>4. last = (m - 1) * Interval
      BY <1>2, <2>1, <2>3 DEF LastHeight
    <2>5. last \in Nat /\ last <= h /\ h < last + Interval /\ h < MaxHeight
      <3>1. last \in Nat
        BY <1>0, <1>2, <2>1 DEF LastHeight
      <3>2. last <= h /\ h < SaturatingAdd(last, Interval)
        BY <1>3 DEF LastCheckpointFits, Interval
      <3> HIDE DEF last, h
      <3> QED BY <1>0, <1>1, <3>1, <3>2 DEF SaturatingAdd, MinOf
    <2>6. m - 1 = h \div Interval
      <3>1. m - 1 \in Nat
        BY <1>2, <2>1
      <3> HIDE DEF m, h
      <3> QED BY <1>1, <2>4, <2>5, <3>1, Quotient
    <2>7. m = h \div Interval + 1
      <3> DEFINE q == h \div Interval
      <3>1. m - 1 = q
        BY <2>6
      <3> HIDE DEF q, m
      <3>2. m = q + 1
        BY <1>0, <3>1
      <3> QED BY <3>2 DEF q
    <2> QED BY <2>3, <2>5, <2>7 DEF CheckpointsAt
  <1>4. ASSUME K # << >>, CheckpointsAt(K, h), ~HasDuplicates(K), h < MaxHeight
        PROVE  CheckBlockCheckpoints(K) /\ LastCheckpointFits(R, K)
    <2> DEFINE q == h \div Interval
               r == h % Interval
    <2>1. m = q + 1 /\ \A i \in 1..m : K[i].height = (i - 1) * Interval
      BY <1>4 DEF CheckpointsAt
    <2>2. q \in Nat /\ r \in 0..(Interval - 1) /\ h = Interval * q + r
      BY <1>1, Division
    <2>3. K[1].height = 0
      <3>1. K[1].height = (1 - 1) * Interval
        BY <1>2, <1>4, <2>1
      <3>2. (1 - 1) * Interval = 0
        BY <1>0
      <3> QED BY <3>1, <3>2
    <2>4. ASSUME NEW i \in 2..m PROVE K[i].height = K[i - 1].height + Interval
      <3>1. /\ i \in 1..m /\ i - 1 \in 1..m /\ (i - 1) - 1 \in Nat
            /\ ((i - 1) - 1) + 1 = i - 1
        BY <1>0
      <3>2. (((i - 1) - 1) + 1) * Interval = ((i - 1) - 1) * Interval + Interval
        BY <1>0, <3>1, Multiples
      <3>3. K[i].height = (i - 1) * Interval /\ K[i - 1].height = ((i - 1) - 1) * Interval
        BY <2>1, <3>1
      <3> QED BY <3>1, <3>2, <3>3
    <2>5. last <= h /\ h < SaturatingAdd(last, Interval)
      <3>1. m - 1 = q
        BY <2>1, <2>2
      <3>2. last = q * Interval
        BY <1>2, <1>4, <2>1, <3>1 DEF LastHeight
      <3> HIDE DEF q, r, h, last
      <3> DEFINE y == Interval * q
      <3>3. y \in Nat /\ last = y /\ h = y + r
        BY <1>0, <2>2, <3>2
      <3> HIDE DEF y
      <3>4. last \in Nat /\ last <= h /\ h < last + Interval
        BY <1>0, <2>2, <3>3
      <3> QED BY <1>0, <1>1, <1>4, <3>4 DEF SaturatingAdd, MinOf
    <2> QED BY <1>4, <2>3, <2>4, <2>5
            DEF CheckBlockCheckpoints, LastCheckpointFits, Interval
  <1>5. CheckBlockCheckpoints(K) => K # << >> /\ ~HasDuplicates(K)
    BY DEF CheckBlockCheckpoints
  <1> QED BY <1>3, <1>4, <1>5


\* Both maps have the last checkpoint if the recent blocks reach back to it, and no other
\* height in common: they agree when they agree on that one.
LEMMA CommonOnly ==
    ASSUME NEW R, NEW K, IsMap(R), IsMap(K), R # << >>, NEW h, h = LastHeight(R),
           RecentsAt(R, h), CheckpointsAt(K, h)
    PROVE  /\ Overlaps(R) => Common(R) \in Heights(R) \cap Heights(K)
           /\ Agree(R, K) <=>
                 (Overlaps(R) => HashAt(R, Common(R)) = HashAt(K, Common(R)))
  <1> DEFINE k == Len(R)
             q == h \div Interval
             r == h % Interval
             x == Common(R)
  <1>0. /\ Recent \in Nat /\ Interval \in Nat /\ Recent < Interval /\ Recent >= 1
        /\ Interval >= 1 /\ k \in Nat /\ h \in Nat
    <2>1. Len(R) \in 1..Len(R) /\ Len(R) \in Nat /\ \A i \in 1..Len(R) : R[i].height \in Nat
      BY DEF IsMap
    <2>2. h \in Nat
      BY <2>1 DEF LastHeight
    <2>3. Recent \in Nat /\ Interval \in Nat /\ 1 <= Recent /\ Recent < Interval
      BY <2>2, Division
    <2>4. Interval >= 1 /\ Recent >= 1
      BY <2>3
    <2> QED BY <2>1, <2>2, <2>3, <2>4
  <1>1. q \in Nat /\ r \in 0..(Interval - 1) /\ h = Interval * q + r
    BY <1>0, Division
  <1>2. /\ 1 <= k /\ k <= Recent /\ k <= h + 1 /\ (k < Recent => k = h + 1)
        /\ DOMAIN R = 1..k /\ \A i \in 1..k : R[i].height = h - k + i
    BY DEF RecentsAt, IsMap
  <1>3. DOMAIN K = 1..(q + 1) /\ \A i \in 1..(q + 1) : K[i].height = (i - 1) * Interval
    BY DEF CheckpointsAt, IsMap
  <1>4. x = h - r /\ (Overlaps(R) <=> r < Recent)
    BY DEF Common, Overlaps, Interval, Recent
  <1>5. x = q * Interval /\ x \in Nat
    <2> DEFINE y == Interval * q
    <2>1. y = q * Interval /\ y \in Nat /\ h = y + r
      BY <1>0, <1>1
    <2> HIDE DEF y, r, x, q
    <2>2. x = y
      BY <1>0, <1>1, <1>4, <2>1
    <2> QED BY <2>1, <2>2
  <1>6. K[q + 1].height = x /\ q + 1 \in DOMAIN K
    <2>1. q + 1 \in 1..(q + 1) /\ (q + 1) - 1 = q
      BY <1>1
    <2>2. K[q + 1].height = ((q + 1) - 1) * Interval
      BY <1>3, <2>1
    <2> QED BY <1>3, <1>5, <2>1, <2>2
  <1>7. ASSUME Overlaps(R)
        PROVE  \E j \in DOMAIN R : R[j].height = x
    <2> DEFINE j == k - r
    <2> HIDE DEF k, r, x
    <2>1. j \in 1..k
      BY <1>0, <1>1, <1>2, <1>4, <1>5, <1>7
    <2>2. R[j].height = h - k + j
      BY <1>2, <2>1
    <2>3. h - k + j = x
      BY <1>0, <1>1, <1>4
    <2> QED BY <1>2, <2>1, <2>2, <2>3
  <1>8. ASSUME NEW i \in DOMAIN K, NEW j \in DOMAIN R, K[i].height = R[j].height
        PROVE  Overlaps(R) /\ K[i].height = x
    <2>1. i - 1 \in Nat /\ K[i].height = (i - 1) * Interval /\ j \in 1..k
          /\ R[j].height = h - k + j
      BY <1>1, <1>2, <1>3
    <2> DEFINE y == (i - 1) * Interval
    <2>2. y = h - k + j
      BY <1>8, <2>1
    <2>3. y \in Nat
      BY <1>0, <2>1
    <2> HIDE DEF y, k, q, r, x
    <2>4. y <= h /\ h < y + Interval /\ h - y < Recent
      <3>1. /\ h \in Nat /\ k \in Nat /\ Recent \in Nat /\ Interval \in Nat
            /\ k <= Recent /\ Recent < Interval /\ j \in 1..k /\ y = h - k + j
        BY <1>0, <1>2, <2>1, <2>2
      <3> QED BY <3>1
    <2>5. r = h - y
      <3>1. (i - 1) * Interval <= h /\ h < (i - 1) * Interval + Interval
        BY <2>4 DEF y
      <3>2. h % Interval = h - (i - 1) * Interval
        BY <1>0, <2>1, <3>1, Quotient
      <3> QED BY <3>2 DEF r, y
    <2>6. r < Recent /\ y = x
      BY <1>0, <1>4, <2>3, <2>4, <2>5
    <2> QED BY <1>4, <2>1, <2>6 DEF y
  <1> HIDE DEF k, q, r, x
  <1>9. Overlaps(R) => x \in Heights(R) \cap Heights(K)
    BY <1>6, <1>7 DEF Heights
  <1>10. ASSUME NEW M, IsMap(M), NEW i \in DOMAIN M, M[i].height = x
         PROVE  HashAt(M, x) = M[i].hash
    <2> DEFINE c == CHOOSE n \in DOMAIN M : M[n].height = x
    <2>1. c \in DOMAIN M /\ M[c].height = x
      BY <1>10
    <2> HIDE DEF c
    <2>2. c = i
      BY <1>10, <2>1 DEF IsMap
    <2> QED BY <2>2 DEF HashAt, c
  <1>11. ASSUME Agree(R, K), Overlaps(R) PROVE HashAt(R, x) = HashAt(K, x)
    <2>1. PICK j \in DOMAIN R : R[j].height = x
      BY <1>7, <1>11
    <2>2. HashAt(R, x) = R[j].hash /\ HashAt(K, x) = K[q + 1].hash
      BY <1>6, <1>10, <2>1
    <2> QED BY <1>6, <1>11, <2>1, <2>2 DEF Agree
  <1>12. ASSUME Overlaps(R) => HashAt(R, x) = HashAt(K, x) PROVE Agree(R, K)
    <2>1. SUFFICES ASSUME NEW i \in DOMAIN K, NEW j \in DOMAIN R, K[i].height = R[j].height
                   PROVE  K[i].hash = R[j].hash
      BY DEF Agree
    <2>2. Overlaps(R) /\ K[i].height = x /\ R[j].height = x
      BY <1>8, <2>1
    <2>3. HashAt(R, x) = R[j].hash /\ HashAt(K, x) = K[i].hash
      BY <1>10, <2>2
    <2> QED BY <1>12, <2>2, <2>3
  <1> QED BY <1>9, <1>11, <1>12 DEF x


\* The multiples of the interval up to h are those of the numbers up to the quotient.
LEMMA MultiplesUpTo ==
    ASSUME NEW h \in Nat
    PROVE  /\ \A j \in Nat : j * Interval \in Nat /\ (j * Interval) % Interval = 0
           /\ \A j \in Nat : j * Interval <= h <=> j <= h \div Interval
           /\ \A x \in Nat : x % Interval = 0 => \E j \in Nat : x = j * Interval
           /\ \A i, j \in Nat : i < j <=> i * Interval < j * Interval
           /\ \A i, j \in Nat : i * Interval = j * Interval => i = j
  <1>0. Interval \in Nat /\ Interval >= 1
    <2>1. Interval \in Nat /\ Recent \in Nat /\ 1 <= Recent /\ Recent < Interval
      BY Division
    <2> QED BY <2>1
  <1>1. ASSUME NEW j \in Nat PROVE j * Interval \in Nat /\ (j * Interval) % Interval = 0
    <2> DEFINE x == j * Interval
    <2>1. x \in Nat
      BY <1>0
    <2>2. x <= x /\ x < x + Interval
      <3> HIDE DEF x
      <3> QED BY <1>0, <2>1
    <2>3. x % Interval = x - x
      BY <2>1, <2>2, Quotient
    <2>4. x % Interval = 0
      <3> HIDE DEF x
      <3> QED BY <2>1, <2>3
    <2> QED BY <2>1, <2>4
  <1>2. ASSUME NEW i \in Nat, NEW j \in Nat, i < j PROVE i * Interval < j * Interval
    BY <1>0, <1>2, Multiples
  <1>3. ASSUME NEW i \in Nat, NEW j \in Nat PROVE i < j <=> i * Interval < j * Interval
    <2> DEFINE x == i * Interval
               y == j * Interval
    <2>1. /\ x \in Nat /\ y \in Nat /\ (i < j => x < y) /\ (j < i => y < x) /\ (i = j => x = y)
      BY <1>1, <1>2
    <2> HIDE DEF x, y
    <2>2. i < j <=> x < y
      BY <2>1
    <2> QED BY <2>2 DEF x, y
  <1>4. ASSUME NEW i \in Nat, NEW j \in Nat, i * Interval = j * Interval PROVE i = j
    <2> DEFINE x == i * Interval
               y == j * Interval
    <2>1. x \in Nat /\ x = y /\ (i < j <=> x < y) /\ (j < i <=> y < x)
      BY <1>1, <1>3, <1>4
    <2> HIDE DEF x, y
    <2> QED BY <2>1
  <1>5. ASSUME NEW x \in Nat, x % Interval = 0 PROVE \E j \in Nat : x = j * Interval
    <2> DEFINE q == x \div Interval
    <2>1. q \in Nat /\ x = Interval * q + (x % Interval)
      BY Division
    <2> HIDE DEF q
    <2>2. x = Interval * q + 0
      BY <1>5, <2>1
    <2>3. x = q * Interval
      BY <1>0, <2>1, <2>2
    <2> QED BY <2>1, <2>3
  <1>6. ASSUME NEW j \in Nat PROVE j * Interval <= h <=> j <= h \div Interval
    <2> DEFINE q == h \div Interval
               r == h % Interval
               x == j * Interval
               y == q * Interval
               z == (q + 1) * Interval
    <2>1. q \in Nat /\ r \in 0..(Interval - 1) /\ h = Interval * q + r
      BY Division
    <2> HIDE DEF q, r
    <2>2. q + 1 \in Nat /\ (q < j <=> q + 1 <= j)
      BY <2>1
    <2>3. /\ x \in Nat /\ y \in Nat /\ h = y + r /\ z = y + Interval
          /\ (j < q <=> x < y) /\ (q + 1 < j <=> z < x) /\ (j = q => x = y)
          /\ (j = q + 1 => x = z)
      <3>1. x \in Nat /\ y \in Nat /\ z = y + Interval
        BY <1>0, <1>1, <2>1, Multiples
      <3>2. (j < q <=> x < y) /\ (q + 1 < j <=> z < x)
        BY <1>3, <2>1, <2>2
      <3>3. h = y + r
        BY <1>0, <2>1
      <3> QED BY <3>1, <3>2, <3>3
    <2> HIDE DEF x, y, z
    <2>4. x <= h <=> j <= q
      BY <1>0, <2>1, <2>2, <2>3
    <2> QED BY <2>4 DEF x, q
  <1> QED BY <1>1, <1>3, <1>4, <1>5, <1>6

\* The recent blocks of the reference form.
LEMMA RecentsForm ==
    ASSUME NEW R, IsMap(R), NEW n \in Nat, n >= 1,
           NEW first, first = IF n > Recent THEN n - Recent ELSE 0
    PROVE  (/\ Len(R) = n - first
            /\ \A i \in DOMAIN R : R[i].height = first + i - 1)
           <=> R # << >> /\ LastHeight(R) = n - 1 /\ RecentsAt(R, n - 1)
  <1> DEFINE k == Len(R)
  <1>0. /\ Recent \in Nat /\ Recent >= 1 /\ k \in Nat /\ DOMAIN R = 1..k /\ first \in Nat
        /\ \A i \in 1..k : R[i].height \in Nat
    <2>1. Recent \in Nat /\ 1 <= Recent
      BY Division
    <2>2. first \in Nat
      BY <2>1
    <2>3. k \in Nat /\ DOMAIN R = 1..k /\ \A i \in 1..k : R[i].height \in Nat
      BY DEF IsMap
    <2> QED BY <2>1, <2>2, <2>3
  <1>1. ASSUME k = n - first, \A i \in DOMAIN R : R[i].height = first + i - 1
        PROVE  R # << >> /\ LastHeight(R) = n - 1 /\ RecentsAt(R, n - 1)
    <2>1. /\ 1 <= k /\ k <= Recent /\ k <= (n - 1) + 1 /\ (k < Recent => k = (n - 1) + 1)
      <3> HIDE DEF k
      <3> QED BY <1>0, <1>1
    <2>2. k \in 1..k /\ k # 0
      <3> HIDE DEF k
      <3> QED BY <1>0, <2>1
    <2>3. R # << >>
      <3>1. R = << >> => Len(R) = 0
        OBVIOUS
      <3> QED BY <2>2, <3>1
    <2>4. R[k].height = first + k - 1
      BY <1>0, <1>1, <2>2
    <2>5. R[k].height = n - 1
      <3> HIDE DEF k
      <3> QED BY <1>0, <1>1, <2>4
    <2>6. ASSUME NEW i \in 1..k PROVE R[i].height = (n - 1) - k + i
      <3>1. R[i].height = first + i - 1
        BY <1>0, <1>1
      <3> HIDE DEF k
      <3> QED BY <1>0, <1>1, <3>1
    <2> QED BY <2>1, <2>3, <2>5, <2>6 DEF LastHeight, RecentsAt
  <1>2. ASSUME RecentsAt(R, n - 1)
        PROVE  k = n - first /\ \A i \in DOMAIN R : R[i].height = first + i - 1
    <2>1. /\ 1 <= k /\ k <= Recent /\ k <= (n - 1) + 1 /\ (k < Recent => k = (n - 1) + 1)
          /\ \A i \in 1..k : R[i].height = (n - 1) - k + i
      BY <1>2 DEF RecentsAt
    <2>2. k = n - first
      <3> HIDE DEF k
      <3> QED BY <1>0, <2>1
    <2>3. ASSUME NEW i \in 1..k PROVE R[i].height = first + i - 1
      <3>1. R[i].height = (n - 1) - k + i
        BY <2>1
      <3> HIDE DEF k
      <3> QED BY <1>0, <2>2, <3>1
    <2> QED BY <1>0, <2>2, <2>3
  <1> QED BY <1>1, <1>2


\* The checkpoints of the reference form.
LEMMA CheckpointsForm ==
    ASSUME NEW K, IsMap(K), NEW h \in Nat
    PROVE  (/\ Heights(K) = {x \in 0..h : x % Interval = 0}
            /\ \A i, j \in DOMAIN K : i < j => K[i].height < K[j].height)
           <=> K # << >> /\ CheckpointsAt(K, h)
  <1> DEFINE m == Len(K)
             q == h \div Interval
  <1>0. m \in Nat /\ DOMAIN K = 1..m /\ q \in Nat
    BY Division DEF IsMap
  <1>1. /\ \A i \in 1..m : K[i].height \in Nat
        /\ \A i, j \in 1..m : K[i].height = K[j].height => i = j
    BY DEF IsMap
  <1>2. /\ \A j \in Nat : j * Interval \in Nat /\ (j * Interval) % Interval = 0
        /\ \A j \in Nat : j * Interval <= h <=> j <= q
        /\ \A x \in Nat : x % Interval = 0 => \E j \in Nat : x = j * Interval
        /\ \A i, j \in Nat : i < j <=> i * Interval < j * Interval
        /\ \A i, j \in Nat : i * Interval = j * Interval => i = j
    BY MultiplesUpTo
  <1> HIDE DEF q
  <1>3. ASSUME Heights(K) = {x \in 0..h : x % Interval = 0},
               \A i, j \in DOMAIN K : i < j => K[i].height < K[j].height
        PROVE  K # << >> /\ CheckpointsAt(K, h)
    <2> HIDE DEF m
    <2>1. ASSUME NEW j \in 0..q PROVE \E i \in 1..m : K[i].height = j * Interval
      <3> DEFINE x == j * Interval
      <3>0. j \in Nat /\ j <= q
        BY <1>0
      <3>1. x \in Nat /\ x <= h /\ x % Interval = 0
        BY <1>2, <3>0
      <3> HIDE DEF x
      <3>2. x \in Heights(K)
        BY <1>3, <3>1
      <3>3. \E i \in 1..m : K[i].height = x
        BY <1>0, <3>2 DEF Heights
      <3> QED BY <3>3 DEF x
    <2>2. ASSUME NEW i \in 1..m PROVE \E j \in 0..q : K[i].height = j * Interval
      <3>1. K[i].height \in Heights(K)
        BY <1>0 DEF Heights
      <3>2. K[i].height \in Nat /\ K[i].height <= h /\ K[i].height % Interval = 0
        BY <1>1, <1>3, <3>1
      <3>3. PICK j \in Nat : K[i].height = j * Interval
        BY <1>2, <3>2
      <3>4. j <= q
        BY <1>2, <3>2, <3>3
      <3> QED BY <1>0, <3>3, <3>4
    <2> DEFINE Bad == {i \in 1..m : K[i].height # (i - 1) * Interval}
    <2>3. ASSUME Bad # {} PROVE FALSE
      <3>1. PICK i \in Bad : \A j \in Bad : i <= j
        <4>1. Bad \subseteq Nat
          BY <1>0
        <4> HIDE DEF Bad
        <4> QED BY <2>3, <4>1, LeastNumber
      <3>2. i \in 1..m /\ K[i].height # (i - 1) * Interval /\ i - 1 \in Nat
        BY <1>0
      <3>3. ASSUME NEW j \in 1..m, j < i PROVE K[j].height = (j - 1) * Interval
        <4>1. j \notin Bad
          BY <1>0, <3>1, <3>2, <3>3
        <4> QED BY <4>1
      <3>4. PICK y \in 0..q : K[i].height = y * Interval
        BY <2>2, <3>2
      <3>5. y \in Nat /\ y <= q
        BY <1>0
      <3>6. y # i - 1
        BY <3>2, <3>4
      <3> HIDE DEF Bad
      <3>7. ASSUME y < i - 1 PROVE FALSE
        <4>1. y + 1 \in 1..m /\ y + 1 < i /\ (y + 1) - 1 = y
          BY <1>0, <3>2, <3>5, <3>7
        <4>2. K[y + 1].height = ((y + 1) - 1) * Interval
          BY <3>3, <4>1
        <4>3. K[y + 1].height = K[i].height
          BY <3>4, <4>1, <4>2
        <4>4. y + 1 = i
          BY <1>1, <3>2, <4>1, <4>3
        <4> QED BY <3>2, <4>1, <4>4
      <3>8. ASSUME i - 1 < y PROVE FALSE
        <4>1. i - 1 \in 0..q
          BY <1>0, <3>2, <3>5, <3>8
        <4>2. PICK j \in 1..m : K[j].height = (i - 1) * Interval
          BY <2>1, <4>1
        <4>3. j \in Nat /\ i \in Nat /\ j - 1 \in Nat /\ j # i
          BY <1>0, <3>2, <4>2
        <4>4. ~(j < i)
          <5>1. ASSUME j < i PROVE FALSE
            <6>1. (j - 1) * Interval = (i - 1) * Interval
              BY <3>3, <4>2, <5>1
            <6>2. j - 1 = i - 1
              BY <1>2, <3>2, <4>3, <6>1
            <6> QED BY <4>3, <5>1, <6>2
          <5> QED BY <5>1
        <4>5. i < j
          BY <4>3, <4>4
        <4>6. K[i].height < K[j].height
          BY <1>0, <1>3, <3>2, <4>5
        <4>7. y * Interval < (i - 1) * Interval
          BY <3>4, <4>2, <4>6
        <4>8. y < i - 1
          BY <1>2, <3>2, <3>5, <4>7
        <4> QED BY <3>7, <4>8
      <3> QED BY <3>2, <3>5, <3>6, <3>7, <3>8
    <2>4. ASSUME NEW i \in 1..m PROVE K[i].height = (i - 1) * Interval
      BY <2>3
    <2>5. q + 1 <= m
      <3>1. q \in 0..q
        BY <1>0
      <3>2. PICK i \in 1..m : K[i].height = q * Interval
        BY <2>1, <3>1
      <3>3. i - 1 \in Nat /\ (i - 1) * Interval = q * Interval
        BY <1>0, <2>4, <3>2
      <3>4. i - 1 = q
        BY <1>0, <1>2, <3>3
      <3> QED BY <1>0, <3>2, <3>4
    <2>6. m <= q + 1
      <3>1. m \in 1..m /\ m - 1 \in Nat
        BY <1>0, <2>5
      <3>2. PICK j \in 0..q : K[m].height = j * Interval
        BY <2>2, <3>1
      <3>3. j \in Nat /\ (m - 1) * Interval = j * Interval
        BY <1>0, <2>4, <3>1, <3>2
      <3>4. m - 1 = j
        BY <1>2, <3>1, <3>3
      <3> QED BY <1>0, <3>2, <3>4
    <2>7. m = q + 1
      BY <1>0, <2>5, <2>6
    <2>8. K # << >>
      <3>1. K = << >> => Len(K) = 0
        OBVIOUS
      <3>2. m # 0
        BY <1>0, <2>7
      <3> QED BY <3>1, <3>2 DEF m
    <2> QED BY <2>4, <2>7, <2>8 DEF CheckpointsAt, m, q
  <1>4. ASSUME CheckpointsAt(K, h)
        PROVE  /\ Heights(K) = {x \in 0..h : x % Interval = 0}
               /\ \A i, j \in DOMAIN K : i < j => K[i].height < K[j].height
    <2>1. m = q + 1 /\ \A i \in 1..m : K[i].height = (i - 1) * Interval
      BY <1>4 DEF CheckpointsAt, q
    <2> HIDE DEF m
    <2>2. ASSUME NEW i \in 1..m
          PROVE  K[i].height \in 0..h /\ K[i].height % Interval = 0
      <3>1. i - 1 \in Nat /\ i - 1 <= q
        BY <1>0, <2>1
      <3> DEFINE x == (i - 1) * Interval
      <3>2. K[i].height = x /\ x \in Nat /\ x <= h /\ x % Interval = 0
        BY <1>2, <2>1, <3>1
      <3> HIDE DEF x
      <3> QED BY <3>2
    <2>3. ASSUME NEW x \in 0..h, x % Interval = 0 PROVE x \in Heights(K)
      <3>1. x \in Nat /\ x <= h
        OBVIOUS
      <3>2. PICK j \in Nat : x = j * Interval
        BY <1>2, <2>3, <3>1
      <3>3. j <= q
        BY <1>2, <3>1, <3>2
      <3>4. j + 1 \in 1..m /\ (j + 1) - 1 = j
        BY <1>0, <2>1, <3>3
      <3>5. K[j + 1].height = x
        BY <2>1, <3>2, <3>4
      <3> QED BY <1>0, <3>4, <3>5 DEF Heights
    <2>4. ASSUME NEW i \in DOMAIN K, NEW j \in DOMAIN K, i < j
          PROVE  K[i].height < K[j].height
      <3>1. i \in 1..m /\ j \in 1..m /\ i - 1 \in Nat /\ j - 1 \in Nat /\ i - 1 < j - 1
        BY <1>0, <2>4
      <3>2. (i - 1) * Interval < (j - 1) * Interval
        BY <1>2, <3>1
      <3> QED BY <2>1, <3>1, <3>2
    <2>5. \A x \in Heights(K) : x \in 0..h /\ x % Interval = 0
      BY <1>0, <2>2 DEF Heights
    <2> QED BY <2>3, <2>4, <2>5
  <1> QED BY <1>3, <1>4


\* The reference form, in terms of what the checks compare.
LEMMA FormOfLocators ==
    ASSUME NEW R, NEW K, IsMap(R), IsMap(K), NEW n \in Nat, n >= 1
    PROVE  WellFormedFor(R, K, n) <=>
              /\ R # << >> /\ LastHeight(R) = n - 1 /\ RecentsAt(R, n - 1)
              /\ K # << >> /\ CheckpointsAt(K, n - 1)
              /\ Agree(R, K) /\ ~HasDuplicates(R) /\ ~HasDuplicates(K)
  <1> DEFINE first == IF n > Recent THEN n - Recent ELSE 0
             A == /\ Len(R) = n - first
                  /\ \A i \in DOMAIN R : R[i].height = first + i - 1
             B == /\ Heights(K) = {x \in 0..(n - 1) : x % Interval = 0}
                  /\ \A i, j \in DOMAIN K : i < j => K[i].height < K[j].height
  <1>1. WellFormedFor(R, K, n) <=>
           A /\ B /\ Agree(R, K) /\ ~HasDuplicates(R) /\ ~HasDuplicates(K)
    BY DEF WellFormedFor, Recent, Interval
  <1>2. A <=> R # << >> /\ LastHeight(R) = n - 1 /\ RecentsAt(R, n - 1)
    <2> HIDE DEF first
    <2>1. first = IF n > Recent THEN n - Recent ELSE 0
      BY DEF first
    <2> QED BY <2>1, RecentsForm
  <1>3. B <=> K # << >> /\ CheckpointsAt(K, n - 1)
    <2>1. n - 1 \in Nat
      OBVIOUS
    <2> QED BY <2>1, CheckpointsForm
  <1> HIDE DEF A, B
  <1> QED BY <1>1, <1>2, <1>3

\* The checks accept exactly what is of that form, for maps of any length.
LEMMA LocatorsChecked ==
    ASSUME NEW R, NEW K, IsMap(R), IsMap(K)
    PROVE  /\ LooksUp(R, K) => Common(R) \in Heights(R) \cap Heights(K)
           /\ CheckBlockLocators(R, K) <=> WellFormed(R, K, MaxHeight)
  <1> DEFINE h == LastHeight(R)
  <1>0. MaxHeight \in Nat
    BY LocatorsAssumption
  <1>1. ASSUME CheckRecentBlocks(R), CheckBlockCheckpoints(K), LastCheckpointFits(R, K)
        PROVE  /\ R # << >> /\ RecentsAt(R, h) /\ ~HasDuplicates(R)
               /\ K # << >> /\ CheckpointsAt(K, h) /\ ~HasDuplicates(K) /\ h < MaxHeight
               /\ h \in Nat
    <2>1. R # << >> /\ RecentsAt(R, h) /\ ~HasDuplicates(R)
      BY <1>1, RecentsChecked
    <2>2. K # << >> /\ CheckpointsAt(K, h) /\ ~HasDuplicates(K) /\ h < MaxHeight
      BY <1>1, <2>1, CheckpointsChecked
    <2>3. h \in Nat
      <3>1. Len(R) \in 1..Len(R) /\ \A i \in 1..Len(R) : R[i].height \in Nat
        BY <2>1 DEF IsMap
      <3> QED BY <3>1 DEF LastHeight
    <2> QED BY <2>1, <2>2, <2>3
  <1>2. ASSUME LooksUp(R, K) PROVE Common(R) \in Heights(R) \cap Heights(K)
    <2>1. /\ CheckRecentBlocks(R) /\ CheckBlockCheckpoints(K) /\ LastCheckpointFits(R, K)
          /\ Overlaps(R)
      BY <1>2 DEF LooksUp
    <2> HIDE DEF h
    <2>2. h = LastHeight(R) /\ R # << >> /\ RecentsAt(R, h) /\ CheckpointsAt(K, h)
      BY <1>1, <2>1 DEF h
    <2> QED BY <2>1, <2>2, CommonOnly
  <1>3. ASSUME CheckBlockLocators(R, K) PROVE WellFormed(R, K, MaxHeight)
    <2>1. /\ CheckRecentBlocks(R) /\ CheckBlockCheckpoints(K) /\ LastCheckpointFits(R, K)
          /\ Overlaps(R) => HashAt(R, Common(R)) = HashAt(K, Common(R))
      BY <1>3 DEF CheckBlockLocators
    <2> HIDE DEF h
    <2>2. /\ h = LastHeight(R) /\ R # << >> /\ RecentsAt(R, h) /\ CheckpointsAt(K, h)
          /\ K # << >> /\ ~HasDuplicates(R) /\ ~HasDuplicates(K) /\ h < MaxHeight /\ h \in Nat
      BY <1>1, <2>1 DEF h
    <2>3. Agree(R, K)
      BY <2>1, <2>2, CommonOnly
    <2>4. h + 1 \in Nat /\ h + 1 >= 1 /\ (h + 1) - 1 = h /\ h + 1 \in 1..MaxHeight
      BY <1>0, <2>2
    <2>5. WellFormedFor(R, K, h + 1)
      BY <2>2, <2>3, <2>4, FormOfLocators
    <2> QED BY <2>4, <2>5 DEF WellFormed
  <1>4. ASSUME WellFormed(R, K, MaxHeight) PROVE CheckBlockLocators(R, K)
    <2>1. PICK n \in 1..MaxHeight : WellFormedFor(R, K, n)
      BY <1>4 DEF WellFormed
    <2>2. n \in Nat /\ n >= 1 /\ n - 1 < MaxHeight
      BY <1>0
    <2> HIDE DEF h
    <2>3. /\ R # << >> /\ LastHeight(R) = n - 1 /\ RecentsAt(R, n - 1)
          /\ K # << >> /\ CheckpointsAt(K, n - 1)
          /\ Agree(R, K) /\ ~HasDuplicates(R) /\ ~HasDuplicates(K)
      BY <2>1, <2>2, FormOfLocators
    <2>4. h = LastHeight(R) /\ RecentsAt(R, h) /\ CheckpointsAt(K, h) /\ h < MaxHeight
      BY <2>2, <2>3 DEF h
    <2>5. CheckRecentBlocks(R)
      BY <2>3, <2>4, RecentsChecked
    <2>6. CheckBlockCheckpoints(K) /\ LastCheckpointFits(R, K)
      BY <2>3, <2>4, CheckpointsChecked
    <2>7. Overlaps(R) => HashAt(R, Common(R)) = HashAt(K, Common(R))
      BY <2>3, <2>4, CommonOnly
    <2> QED BY <2>5, <2>6, <2>7 DEF CheckBlockLocators
  <1> QED BY <1>2, <1>3, <1>4

\* Whoever receives locators accepts exactly those that a validator of at most MaxHeight
\* blocks builds, in the code's reading: checkpoints at the multiples of the interval below
\* the number of blocks, where the documentation of the structure has them up to it.  The
\* two lookups that check_block_locators unwraps cannot fail (block_locators.rs:187).
THEOREM AcceptedExactly == Spec => []AcceptedIsWellFormed
  <1>1. AcceptedIsWellFormed
    <2>1. SUFFICES ASSUME NEW R \in Maps(NumRecentBlocks + 1), NEW K \in Maps(2)
                   PROVE  /\ LooksUp(R, K) => Common(R) \in Heights(R) \cap Heights(K)
                          /\ CheckBlockLocators(R, K) <=> WellFormed(R, K, MaxHeight)
      BY DEF AcceptedIsWellFormed
    <2>2. NumRecentBlocks + 1 \in Nat /\ 2 \in Nat
      BY LocatorsAssumption
    <2>3. IsMap(R) /\ IsMap(K)
      BY <2>2, MapsAreMaps
    <2> QED BY <2>3, LocatorsChecked
  <1> QED BY <1>1, PTL

-----------------------------------------------------------------------------
(* The byte format.  read_le is the inverse of write_le because the counts *)
(* stand before the entries and no two entries of a map have one height.   *)

\* Entries of distinct heights are read one after the other into the map that has them in
\* their order.
LEMMA ReadMapIs ==
    ASSUME NEW S, NEW M \in Seq(S),
           \A i, j \in 1..Len(M) : M[i].height = M[j].height => i = j
    PROVE  ReadMap(M) = M
  <1> DEFINE n == Len(M)
             Prefix(k) == [i \in 1..k |-> M[i]]
             h == [k \in 0..n |-> Prefix(k)]
             Reads(f) == f = [k \in 0..n |->
                                IF k = 0 THEN << >> ELSE IndexInsert(f[k - 1], M[k])]
             w == CHOOSE f : Reads(f)
             Other == {k \in 0..n : w[k] # h[k]}
  <1>1. n \in Nat /\ M \in [1..n -> S] /\ DOMAIN M = 1..n
    BY LenProperties
  <1> HIDE DEF n
  <1>2. Prefix(0) = << >>
    <2>1. Prefix(0) \in Seq(S) /\ Len(Prefix(0)) = 0
      <3>1. Prefix(0) \in [1..0 -> S]
        OBVIOUS
      <3>2. Prefix(0) \in Seq(S)
        BY <3>1
      <3>3. Len(Prefix(0)) = 0
        <4>1. 0 \in Nat /\ Prefix(0) = [i \in 1..0 |-> Prefix(0)[i]]
          OBVIOUS
        <4> HIDE DEF Prefix
        <4> QED BY <4>1, FunctionIsSequence
      <3> QED BY <3>2, <3>3
    <2> HIDE DEF Prefix
    <2> QED BY <2>1, EmptySeq
  <1>3. ASSUME NEW k \in 0..n, k # 0
        PROVE  Prefix(k) = IndexInsert(Prefix(k - 1), M[k])
    <2> DEFINE P == Prefix(k - 1)
    <2>1. k \in 1..n /\ k - 1 \in Nat /\ k \in Nat /\ M[k] \in S
      BY <1>1, <1>3
    <2>2. P \in [1..(k - 1) -> S] /\ Prefix(k) \in [1..k -> S]
      BY <1>1, <2>1
    <2>3. P \in Seq(S) /\ Prefix(k) \in Seq(S)
      BY <2>1, <2>2
    <2>4. Len(P) = k - 1 /\ Len(Prefix(k)) = k
      <3>1. P = [i \in 1..(k - 1) |-> P[i]] /\ Prefix(k) = [i \in 1..k |-> Prefix(k)[i]]
        OBVIOUS
      <3> HIDE DEF P, Prefix
      <3> QED BY <2>1, <3>1, FunctionIsSequence
    <2>5. M[k].height \notin Heights(P)
      <3>1. SUFFICES ASSUME NEW i \in 1..(k - 1), P[i].height = M[k].height PROVE FALSE
        BY DEF Heights
      <3>2. P[i] = M[i] /\ i \in 1..n /\ i # k
        BY <2>1, <1>1
      <3>3. M[i].height = M[k].height
        BY <3>1, <3>2
      <3> QED BY <2>1, <3>2, <3>3 DEF n
    <2>6. IndexInsert(P, M[k]) = Append(P, M[k])
      BY <2>5 DEF IndexInsert
    <2>7. \A i \in 1..k : Prefix(k)[i] = IF i = k THEN M[k] ELSE P[i]
      BY <2>1
    <2> HIDE DEF P, Prefix
    <2>8. /\ Append(P, M[k]) \in Seq(S) /\ Len(Append(P, M[k])) = k
          /\ \A i \in 1..k : Append(P, M[k])[i] = IF i = k THEN M[k] ELSE P[i]
      BY <2>1, <2>3, <2>4, AppendProperties
    <2>9. Prefix(k) = Append(P, M[k])
      BY <2>3, <2>4, <2>7, <2>8, SeqEqual
    <2> QED BY <2>6, <2>9 DEF P
  <1> HIDE DEF Prefix
  <1>4. Reads(h)
    <2>1. ASSUME NEW k \in 0..n
          PROVE  Prefix(k) = IF k = 0 THEN << >> ELSE IndexInsert(h[k - 1], M[k])
      <3>1. k # 0 => k - 1 \in 0..n
        BY <1>1
      <3> QED BY <1>2, <1>3, <3>1
    <2> QED BY <2>1
  <1>5. Reads(w)
    <2> HIDE DEF h, Reads
    <2> QED BY <1>4
  <1>6. ReadMap(M) = w[n]
    BY DEF ReadMap, n
  <1> HIDE DEF w
  <1>7. \A k \in 0..n : w[k] = IF k = 0 THEN << >> ELSE IndexInsert(w[k - 1], M[k])
    BY <1>5
  <1>8. \A k \in 0..n : h[k] = IF k = 0 THEN << >> ELSE IndexInsert(h[k - 1], M[k])
    BY <1>4
  <1> HIDE DEF h
  <1>9. Other = {}
    <2>1. SUFFICES ASSUME Other # {} PROVE FALSE
      OBVIOUS
    <2>2. PICK k \in Other : \A m \in Other : k <= m
      <3>1. Other \subseteq Nat
        OBVIOUS
      <3> QED BY <2>1, <3>1, LeastNumber
    <2>3. CASE k = 0
      BY <1>7, <1>8, <2>2, <2>3
    <2>4. CASE k # 0
      <3>1. k - 1 \in 0..n /\ ~(k <= k - 1)
        BY <1>1, <2>2, <2>4
      <3>2. w[k - 1] = h[k - 1]
        BY <2>2, <3>1
      <3> QED BY <1>7, <1>8, <2>2, <2>4, <3>2
    <2> QED BY <2>3, <2>4
  <1>10. w[n] = h[n]
    <2>1. n \in 0..n
      BY <1>1
    <2> QED BY <1>9, <2>1
  <1>11. h[n] = M
    <2>1. n \in 0..n
      BY <1>1
    <2>2. h[n] = Prefix(n)
      BY <2>1 DEF h
    <2>3. M = [i \in 1..n |-> M[i]]
      BY <1>1
    <2> QED BY <2>2, <2>3 DEF Prefix
  <1> QED BY <1>6, <1>10, <1>11

\* What write_le writes for two maps.
Written(R, K) == <<Len(R)>> \o R \o <<Len(K)>> \o K

\* A count and that many entries, twice, are read back as they were written.
LEMMA WordsReadBack ==
    ASSUME NEW S, NEW R \in Seq(S), NEW K \in Seq(S)
    PROVE  /\ Written(R, K)[1] = Len(R) /\ Written(R, K)[Len(R) + 2] = Len(K)
           /\ SubSeq(Written(R, K), 2, Len(R) + 1) = R
           /\ SubSeq(Written(R, K), Len(R) + 3, Len(R) + Len(K) + 2) = K
  <1> DEFINE words == Written(R, K)
             n == Len(R)
             m == Len(K)
             W == S \cup Nat
             a == <<n>>
             b == a \o R
             c == b \o <<m>>
  <1>1. n \in Nat /\ m \in Nat /\ (\A i \in 1..n : R[i] \in S) /\ \A i \in 1..m : K[i] \in S
    BY LenProperties, ElementOfSeq
  <1>2. R \in Seq(W) /\ K \in Seq(W)
    BY SeqMonotonic
  <1>3. words = c \o K
    BY DEF Written
  <1> HIDE DEF words, n, m
  <1>4. a \in Seq(W) /\ Len(a) = 1 /\ a[1] = n /\ <<m>> \in Seq(W) /\ Len(<<m>>) = 1 /\ <<m>>[1] = m
    BY <1>1
  <1> HIDE DEF a, W
  <1>5. /\ b \in Seq(W) /\ Len(b) = n + 1
        /\ \A i \in 1..(n + 1) : b[i] = IF i <= 1 THEN a[i] ELSE R[i - 1]
    <2>1. /\ b \in Seq(W) /\ Len(b) = Len(a) + n
          /\ \A i \in 1..(Len(a) + n) : b[i] = IF i <= Len(a) THEN a[i] ELSE R[i - Len(a)]
      BY <1>2, <1>4, ConcatProperties DEF n
    <2> HIDE DEF b
    <2> QED BY <1>1, <1>4, <2>1
  <1> HIDE DEF b
  <1>6. /\ c \in Seq(W) /\ Len(c) = n + 2
        /\ \A i \in 1..(n + 2) : c[i] = IF i <= n + 1 THEN b[i] ELSE <<m>>[i - (n + 1)]
    <2> DEFINE d == <<m>>
    <2>0. d \in Seq(W) /\ Len(d) = 1
      BY <1>4
    <2>1. /\ c \in Seq(W) /\ Len(c) = Len(b) + Len(d)
          /\ \A i \in 1..(Len(b) + Len(d)) : c[i] = IF i <= Len(b) THEN b[i] ELSE d[i - Len(b)]
      <3> HIDE DEF d
      <3>1. c = b \o d
        BY DEF d
      <3> HIDE DEF c
      <3> QED BY <1>5, <2>0, <3>1, ConcatProperties
    <2> HIDE DEF c
    <2>2. Len(b) + Len(d) = n + 2 /\ Len(b) = n + 1
      BY <1>1, <1>5, <2>0
    <2> QED BY <2>1, <2>2
  <1> HIDE DEF c
  <1>7. \A i \in 1..(n + m + 2) : words[i] = IF i <= n + 2 THEN c[i] ELSE K[i - (n + 2)]
    <2>1. \A i \in 1..(Len(c) + m) : words[i] = IF i <= Len(c) THEN c[i] ELSE K[i - Len(c)]
      BY <1>2, <1>3, <1>6, ConcatProperties DEF m
    <2>2. (n + 2) + m = n + m + 2
      BY <1>1
    <2> QED BY <1>6, <2>1, <2>2
  <1>8. words[1] = n
    <2>1. /\ 1 \in 1..(n + m + 2) /\ 1 \in 1..(n + 2) /\ 1 \in 1..(n + 1)
          /\ 1 <= n + 2 /\ 1 <= n + 1 /\ 1 <= 1
      BY <1>1
    <2> QED BY <1>4, <1>5, <1>6, <1>7, <2>1
  <1>9. words[n + 2] = m
    <2>1. n + 2 \in 1..(n + m + 2) /\ n + 2 \in 1..(n + 2) /\ ~(n + 2 <= n + 1) /\ (n + 2) - (n + 1) = 1
          /\ n + 2 <= n + 2
      BY <1>1
    <2>2. words[n + 2] = c[n + 2]
      BY <1>7, <2>1
    <2>3. c[n + 2] = <<m>>[1]
      BY <1>6, <2>1
    <2> QED BY <1>4, <2>2, <2>3
  <1>10. SubSeq(words, 2, n + 1) = R
    <2>1. \A i \in 2..(n + 1) : words[i] = R[i - 1] /\ i - 1 \in 1..n
      <3>1. ASSUME NEW i \in 2..(n + 1) PROVE words[i] = R[i - 1] /\ i - 1 \in 1..n
        <4>1. /\ i \in 1..(n + m + 2) /\ i \in 1..(n + 2) /\ i \in 1..(n + 1)
              /\ i <= n + 2 /\ i <= n + 1 /\ ~(i <= 1) /\ i - 1 \in 1..n
          BY <1>1
        <4> QED BY <1>5, <1>6, <1>7, <4>1
      <3> QED BY <3>1
    <2>2. \A i \in 2..(n + 1) : words[i] \in S
      BY <1>1, <2>1
    <2> DEFINE T == SubSeq(words, 2, n + 1)
    <2>3. /\ T \in Seq(S)
          /\ Len(T) = IF 2 <= n + 1 THEN (n + 1) - 2 + 1 ELSE 0
          /\ \A i \in 1..((n + 1) - 2 + 1) : T[i] = words[2 + i - 1]
      <3>1. 2 \in Int /\ n + 1 \in Int
        BY <1>1
      <3> QED BY <2>2, <3>1, SubSeqProperties
    <2> HIDE DEF T
    <2>4. Len(T) = n /\ \A i \in 1..n : T[i] = R[i]
      <3>1. Len(T) = n
        BY <1>1, <2>3
      <3>2. ASSUME NEW i \in 1..n PROVE T[i] = R[i]
        <4>1. i \in 1..((n + 1) - 2 + 1) /\ 2 + i - 1 \in 2..(n + 1) /\ (2 + i - 1) - 1 = i
          BY <1>1
        <4> QED BY <2>1, <2>3, <4>1
      <3> QED BY <3>1, <3>2
    <2>5. T = R
      BY <2>3, <2>4, SeqEqual DEF n
    <2> QED BY <2>5 DEF T
  <1>11. SubSeq(words, n + 3, n + m + 2) = K
    <2>1. \A i \in (n + 3)..(n + m + 2) : words[i] = K[i - (n + 2)] /\ i - (n + 2) \in 1..m
      <3>1. ASSUME NEW i \in (n + 3)..(n + m + 2)
            PROVE  words[i] = K[i - (n + 2)] /\ i - (n + 2) \in 1..m
        <4>1. i \in 1..(n + m + 2) /\ ~(i <= n + 2) /\ i - (n + 2) \in 1..m
          BY <1>1
        <4> QED BY <1>7, <4>1
      <3> QED BY <3>1
    <2>2. \A i \in (n + 3)..(n + m + 2) : words[i] \in S
      BY <1>1, <2>1
    <2> DEFINE T == SubSeq(words, n + 3, n + m + 2)
    <2>3. /\ T \in Seq(S)
          /\ Len(T) = IF n + 3 <= n + m + 2 THEN (n + m + 2) - (n + 3) + 1 ELSE 0
          /\ \A i \in 1..((n + m + 2) - (n + 3) + 1) : T[i] = words[(n + 3) + i - 1]
      <3>1. n + 3 \in Int /\ n + m + 2 \in Int
        BY <1>1
      <3> QED BY <2>2, <3>1, SubSeqProperties
    <2> HIDE DEF T
    <2>4. Len(T) = m /\ \A i \in 1..m : T[i] = K[i]
      <3>1. Len(T) = m
        BY <1>1, <2>3
      <3>2. ASSUME NEW i \in 1..m PROVE T[i] = K[i]
        <4>1. /\ i \in 1..((n + m + 2) - (n + 3) + 1)
              /\ (n + 3) + i - 1 \in (n + 3)..(n + m + 2)
              /\ ((n + 3) + i - 1) - (n + 2) = i
          BY <1>1
        <4> QED BY <2>1, <2>3, <4>1
      <3> QED BY <3>1, <3>2
    <2>5. T = K
      BY <2>3, <2>4, SeqEqual DEF m
    <2> QED BY <2>5 DEF T
  <1> QED BY <1>8, <1>9, <1>10, <1>11 DEF words, n, m

\* Two maps, written and read: `new` decides.
LEMMA LocatorsReadBack ==
    ASSUME NEW S, NEW R \in Seq(S), NEW K \in Seq(S),
           \A i, j \in 1..Len(R) : R[i].height = R[j].height => i = j,
           \A i, j \in 1..Len(K) : K[i].height = K[j].height => i = j
    PROVE  ReadLe(WriteLe(Locators(R, K))) = New(R, K)
  <1> DEFINE words == Written(R, K)
  <1>1. ReadMap(R) = R /\ ReadMap(K) = K
    BY ReadMapIs
  <1>2. /\ words[1] = Len(R) /\ words[Len(R) + 2] = Len(K)
        /\ SubSeq(words, 2, Len(R) + 1) = R
        /\ SubSeq(words, Len(R) + 3, Len(R) + Len(K) + 2) = K
    BY WordsReadBack
  <1>3. WriteLe(Locators(R, K)) = words
    BY DEF WriteLe, Written, Locators
  <1> HIDE DEF words
  <1>4. ReadLe(words) = New(R, K)
    BY <1>1, <1>2 DEF ReadLe
  <1> QED BY <1>3, <1>4

\* The same of the maps that are built from a chain.
LEMMA BuiltReadBack ==
    ASSUME NEW chain, NEW h \in Nat
    PROVE  ReadLe(WriteLe(Locators(Recents(chain, h), Checkpoints(chain, h))))
             = GetBlockLocators(chain, h)
  <1> DEFINE R == Recents(chain, h)
             K == Checkpoints(chain, h)
             S == {R[i] : i \in DOMAIN R} \cup {K[i] : i \in DOMAIN K}
             f == FirstRecent(h)
             q == h \div Interval
  <1>1. /\ f \in 0..h /\ Len(R) = h - f + 1 /\ DOMAIN R = 1..(h - f + 1)
        /\ \A i \in 1..(h - f + 1) : R[i].height = f + i - 1
    BY RecentsShape
  <1>2. /\ Len(K) = q + 1 /\ DOMAIN K = 1..(q + 1)
        /\ \A i \in 1..(q + 1) : K[i].height = (i - 1) * Interval
    BY CheckpointsShape
  <1>3. q \in Nat /\ Interval \in Nat /\ 1 <= Interval
    <2>1. Interval \in Nat /\ Recent \in Nat /\ 1 <= Recent /\ Recent < Interval /\ q \in Nat
      BY Division
    <2> HIDE DEF q
    <2> QED BY <2>1
  <1>4. R = [i \in 1..Len(R) |-> R[i]] /\ K = [i \in 1..Len(K) |-> K[i]]
    <2>1. R = [i \in DOMAIN R |-> R[i]] /\ K = [i \in DOMAIN K |-> K[i]]
      BY DEF Recents, Checkpoints
    <2> HIDE DEF R, K, f, q
    <2> QED BY <1>1, <1>2, <2>1
  <1> HIDE DEF R, K, f, q
  <1>5. R \in Seq(S) /\ K \in Seq(S)
    <2>1. Len(R) \in Nat /\ Len(K) \in Nat
      BY <1>1, <1>2, <1>3
    <2>2. R \in [1..Len(R) -> S] /\ K \in [1..Len(K) -> S]
      BY <1>1, <1>2, <1>4
    <2> HIDE DEF S
    <2> QED BY <2>1, <2>2
  <1> HIDE DEF S
  <1>6. \A i, j \in 1..Len(R) : R[i].height = R[j].height => i = j
    BY <1>1
  <1>7. \A i, j \in 1..Len(K) : K[i].height = K[j].height => i = j
    <2>1. SUFFICES ASSUME NEW i \in 1..Len(K), NEW j \in 1..Len(K), i < j
                   PROVE  K[i].height # K[j].height
      <3>1. 1..Len(K) \subseteq Int
        OBVIOUS
      <3>2. \A i, j \in 1..Len(K) : i < j \/ j < i \/ i = j
        BY <3>1
      <3> QED BY <2>1, <3>2
    <2>2. i \in 1..(q + 1) /\ j \in 1..(q + 1) /\ i - 1 \in Nat /\ j - 1 \in Nat /\ i - 1 < j - 1
      BY <1>2, <1>3, <2>1
    <2>3. /\ (i - 1) * Interval \in Nat /\ (j - 1) * Interval \in Nat
          /\ (i - 1) * Interval < (j - 1) * Interval
      BY <1>3, <2>2, Multiples
    <2>4. (i - 1) * Interval # (j - 1) * Interval
      <3> DEFINE x == (i - 1) * Interval
                 y == (j - 1) * Interval
      <3>1. x \in Nat /\ y \in Nat /\ x < y
        BY <2>3
      <3> HIDE DEF x, y
      <3>2. x # y
        BY <3>1
      <3> QED BY <3>2 DEF x, y
    <2> QED BY <1>2, <2>2, <2>4
  <1>8. ReadLe(WriteLe(Locators(R, K))) = New(R, K)
    BY <1>5, <1>6, <1>7, LocatorsReadBack
  <1> QED BY <1>8 DEF R, K, GetBlockLocators

\* What a node builds and writes is read unaltered, at every height where it can build it,
\* and what else is written is read unaltered or, exactly if it is not well-formed, refused
\* (block_locators.rs:328): the counts lead the reader to the entries, and since no two of
\* them have one height, inserting them keeps each, and their order.
THEOREM WrittenIsRead == Spec => []LocatorsRoundTrip
  <1>1. LocatorsRoundTrip
    <2>1. MaxHeight \in Nat /\ NumRecentBlocks \in Nat /\ 2 \in Nat
      BY LocatorsAssumption
    <2>2. ASSUME NEW h \in 0..MaxHeight, NEW built \in GetBlockLocators(Chain, h)
          PROVE  ReadLe(WriteLe(built)) = {built}
      <3>1. h \in Nat
        BY <2>1
      <3>2. built = Locators(Recents(Chain, h), Checkpoints(Chain, h))
        BY DEF GetBlockLocators, New
      <3>3. GetBlockLocators(Chain, h) = {built}
        BY <3>2 DEF GetBlockLocators, New
      <3> QED BY <3>1, <3>2, <3>3, BuiltReadBack
    <2>3. ASSUME NEW R \in Maps(NumRecentBlocks), NEW K \in Maps(2)
          PROVE  ReadLe(WriteLe(Locators(R, K)))
                   = IF WellFormed(R, K, MaxHeight) THEN {Locators(R, K)} ELSE {}
      <3> DEFINE E == [height : 0..MaxHeight, hash : {"x", "y"}]
      <3>1. R \in Seq(E) /\ K \in Seq(E)
        <4>1. PICK k \in 0..NumRecentBlocks : R \in [1..k -> E]
          BY DEF Maps
        <4>2. PICK l \in 0..2 : K \in [1..l -> E]
          BY DEF Maps
        <4> HIDE DEF E
        <4> QED BY <2>1, <4>1, <4>2
      <3> HIDE DEF E
      <3>2. IsMap(R) /\ IsMap(K)
        BY <2>1, MapsAreMaps
      <3>3. /\ \A i, j \in 1..Len(R) : R[i].height = R[j].height => i = j
            /\ \A i, j \in 1..Len(K) : K[i].height = K[j].height => i = j
        BY <3>2 DEF IsMap
      <3>4. ReadLe(WriteLe(Locators(R, K))) = New(R, K)
        BY <3>1, <3>3, LocatorsReadBack
      <3>5. CheckBlockLocators(R, K) <=> WellFormed(R, K, MaxHeight)
        BY <3>2, LocatorsChecked
      <3>6. New(R, K) = IF CheckBlockLocators(R, K) THEN {Locators(R, K)} ELSE {}
        BY NewIs
      <3> QED BY <3>4, <3>5, <3>6
    <2> QED BY <2>2, <2>3 DEF LocatorsRoundTrip
  <1> QED BY <1>1, PTL
=============================================================================
