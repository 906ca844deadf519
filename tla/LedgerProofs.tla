---------------------------- MODULE LedgerProofs ----------------------------
(***************************************************************************)
(* What a run that starts from an empty ledger writes to it (without       *)
(* --keep-state every run does), for every committee, GC depth and number  *)
(* of rounds, whatever fails and however the run ends: the anchors         *)
(* increase, no certificate is in two blocks, a block and the blocks       *)
(* before it hold the history of its certificates, no validator            *)
(* equivocates, the DAG takes for committed only what is in a block, every *)
(* even round has its block, and no stored certificate is left behind.     *)
(*                                                                         *)
(* The first five are proved together.  The inductive invariant adds:      *)
(*   - a process that is down holds nothing, and the first one finds       *)
(*     nothing on disk (OffInv, NewInv), so bootup has nothing to load and *)
(*     no block is due before the consensus sender is set (EmptyInv);      *)
(*   - the DAG and the ledger have committed up to the same round, and the *)
(*     leaders about to be committed are above it, one per round           *)
(*     (AnchorInv);                                                        *)
(*   - a certificate that is anywhere is in the storage unless its round   *)
(*     was collected, so that the test for one certificate per author and  *)
(*     round that insertion makes on the storage is a test on all of them  *)
(*     (KnownInv).                                                         *)
(* In a later run the last two may fail: see the run node_unbacked.        *)
(*                                                                         *)
(* The other two follow from how the proposer makes its rounds (SpineInv,  *)
(* at the end).                                                            *)
(***************************************************************************)
EXTENDS RoundProofs, FiniteSetTheorems, WellFoundedInduction

\* The process is up, in its first run.
First == run <= 1 /\ status # "down"

OffInv ==
    status = "down" =>
        /\ certificates = {} /\ graph = {} /\ recent_committed_ids = {}
        /\ last_committed_round = 0 /\ tx_sync_bft_dag = {}
        /\ todo = {} /\ loading = {} /\ propose_lock = 0
        /\ \A t \in Task : batch[t] = {}

NewInv == run = 0 => status = "down" /\ ledger = << >> /\ cache = {}

EmptyInv ==
    First =>
        /\ cache = {} /\ loading = {} /\ tx_sync_bft_dag \subseteq {{}}
        /\ status = "running" => consensus_sender
        /\ status # "running" =>
              /\ ledger = << >> /\ todo = {} /\ batch["boot"] = {}
              /\ pc["boot"] \in {"off", "load"}

AnchorInv ==
    First =>
        /\ last_committed_round = LatestAnchor
        /\ \A c \in handler.chain : c.round > last_committed_round
        /\ \A c, d \in handler.chain : c.round = d.round => c = d
        /\ \A c \in LedgerCertificates : c.round <= LatestAnchor
        /\ DagCommittedInLedger

\* The certificates there are, except batches that are not stored yet.
Known ==
    certificates \cup graph \cup LedgerCertificates \cup handler.chain
        \cup UNION {tx_primary_certificate[t] : t \in Task}

RefersDown(C) == \A c \in C : \A id \in c.previous : id.round = c.round - 1

KnownInv ==
    First =>
        /\ \A c \in Known : c.round > gc_round => c \in certificates
        /\ \A c, d \in Known : ~Equivocation(c, d)
        /\ RefersDown(Known)

BatchesInv ==
    First =>
        /\ \A t \in Task : RefersDown(batch[t]) /\ \A c \in batch[t] : c.round <= propose_lock
        /\ \A t, u \in Task : \A c \in batch[t], d \in batch[u] :
              c.round = d.round => t = u /\ c = d

ChainInv ==
    run <= 1 => AnchorsRise /\ CommittedOnce /\ LedgerClosed /\ OneCertificatePerRound
                  /\ DagCommittedInLedger

FreshInv ==
    /\ RoundInv /\ OffInv /\ NewInv /\ EmptyInv
    /\ AnchorInv /\ KnownInv /\ BatchesInv /\ ChainInv

-----------------------------------------------------------------------------
(* order_dag_with_dfs.                                                      *)

\* A non-empty set of numbers has a least element: the induction behind the
\* recursive functions of the DAG.
LEMMA LeastNumber ==
    ASSUME NEW A, A \subseteq Nat, A # {}
    PROVE  \E n \in A : \A m \in A : n <= m
<1> DEFINE T == {0..n : n \in A}
<1>1. IsWellFoundedOn(StrictSubsetOrdering(Nat), FiniteSubsetsOf(Nat))
  BY FS_StrictSubsetOrderingWellFounded
<1>2. T \subseteq FiniteSubsetsOf(Nat)
  <2>1. ASSUME NEW n \in A PROVE 0..n \in FiniteSubsetsOf(Nat)
    <3>1. 0..n \in SUBSET Nat
      OBVIOUS
    <3>2. IsFiniteSet(0..n)
      BY FS_Interval
    <3> QED BY <3>1, <3>2 DEF FiniteSubsetsOf
  <2> QED BY <2>1
<1>3. T # {}
  OBVIOUS
<1>4. PICK x \in T : \A y \in T : <<y, x>> \notin StrictSubsetOrdering(Nat)
  <2> HIDE DEF T
  <2> QED BY <1>1, <1>2, <1>3, WFMin
<1>5. PICK n \in A : x = 0..n
  OBVIOUS
<1>6. ASSUME NEW m \in A, m < n PROVE FALSE
  <2>1. 0..m \in T
    OBVIOUS
  <2>2. 0..m \in SUBSET Nat /\ 0..n \in SUBSET Nat /\ 0..m \subseteq 0..n
    BY <1>6
  <2>3. n \in 0..n /\ n \notin 0..m
    BY <1>6
  <2>4. 0..m # 0..n
    BY <2>3
  <2>5. <<0..m, 0..n>> \in StrictSubsetOrdering(Nat)
    <3> DEFINE a == 0..m
               b == 0..n
    <3> HIDE DEF a, b
    <3>1. a \in SUBSET Nat /\ b \in SUBSET Nat /\ a \subseteq b /\ a # b
      BY <2>2, <2>4 DEF a, b
    <3>2. <<a, b>> \in StrictSubsetOrdering(Nat)
      BY <3>1 DEF StrictSubsetOrdering
    <3> QED BY <3>2 DEF a, b
  <2> QED BY <1>4, <1>5, <2>1, <2>5
<1> QED BY <1>6

\* The levels of the search: the leader, and below it what the certificates of one
\* level refer to and the search follows.
LEMMA SearchUnfolds ==
    ASSUME NEW leader, leader.round \in Nat, NEW inLedger
    PROVE  LET level == SearchFrom(leader, inLedger)
           IN  /\ level[leader.round] = {leader}
               /\ \A r \in 0..(leader.round - 1) :
                     level[r] = UNION {Lookup(Followed(c, inLedger)) : c \in level[r + 1]}
<1> DEFINE R == leader.round
           Below(C) == UNION {Lookup(Followed(c, inLedger)) : c \in C}
           Search(f, k) == f = [r \in k..R |-> IF r = R THEN {leader} ELSE Below(f[r + 1])]
           Stuck == {n \in 0..R : ~\E f : Search(f, R - n)}
<1> HIDE DEF Below
<1>1. R \in Nat
  OBVIOUS
<1> HIDE DEF R
<1>2. Stuck = {}
  <2>1. SUFFICES ASSUME Stuck # {} PROVE FALSE
    OBVIOUS
  <2>2. PICK n \in Stuck : \A m \in Stuck : n <= m
    <3>1. Stuck \subseteq Nat
      OBVIOUS
    <3> QED BY <2>1, <3>1, LeastNumber
  <2>3. CASE n = 0
    <3>1. Search([r \in R..R |-> {leader}], R)
      BY <1>1
    <3>2. R - n = R
      BY <1>1, <2>3
    <3>3. ~\E f : Search(f, R)
      BY <2>2, <3>2
    <3> QED BY <3>1, <3>3
  <2>4. CASE n # 0
    <3>1. n - 1 \in 0..R /\ n - 1 \notin Stuck
      <4>1. n \in 0..R
        BY <2>2
      <4>2. n - 1 \in 0..R /\ ~(n <= n - 1)
        BY <1>1, <2>4, <4>1
      <4> HIDE DEF Stuck
      <4> QED BY <2>2, <4>2
    <3>2. PICK f : Search(f, R - (n - 1))
      BY <3>1
    <3> DEFINE k == R - n
               g == [r \in k..R |-> IF r = k THEN Below(f[k + 1]) ELSE f[r]]
    <3>3. k \in Nat /\ k + 1 = R - (n - 1) /\ k < R
      BY <1>1, <2>2, <2>4
    <3>4. Search(f, k + 1)
      BY <3>2, <3>3
    <3> HIDE DEF k
    <3>5. ASSUME NEW r \in k..R
          PROVE  g[r] = IF r = R THEN {leader} ELSE Below(g[r + 1])
      <4>1. CASE r = k
        <5>1. k \in k..R /\ k + 1 \in k..R /\ k + 1 # k /\ k # R
          BY <1>1, <3>3
        <5>2. g[k] = Below(f[k + 1]) /\ g[k + 1] = f[k + 1]
          BY <5>1
        <5> QED BY <4>1, <5>1, <5>2
      <4>2. CASE r # k /\ r # R
        <5>1. r \in (k + 1)..R /\ r + 1 \in k..R /\ r + 1 # k
          BY <1>1, <3>3, <4>2
        <5>2. g[r] = f[r] /\ g[r + 1] = f[r + 1]
          BY <4>2, <5>1
        <5>3. f[r] = Below(f[r + 1])
          BY <3>4, <4>2, <5>1
        <5> QED BY <4>2, <5>2, <5>3
      <4>3. CASE r # k /\ r = R
        BY <1>1, <3>3, <3>4, <4>3
      <4> QED BY <4>1, <4>2, <4>3
    <3>6. Search(g, k)
      BY <3>5
    <3> QED BY <2>2, <3>6 DEF k
  <2> QED BY <2>3, <2>4
<1>3. \E f : Search(f, 0)
  <2>1. R \in 0..R /\ R - R = 0
    BY <1>1
  <2>2. \E f : Search(f, R - R)
    BY <1>2, <2>1
  <2> QED BY <2>1, <2>2
<1>4. Search(SearchFrom(leader, inLedger), 0)
  BY <1>3 DEF SearchFrom, R, Below
<1> DEFINE lev == SearchFrom(leader, inLedger)
<1>5. lev = [r \in 0..R |-> IF r = R THEN {leader} ELSE Below(lev[r + 1])]
  BY <1>4
<1> HIDE DEF lev
<1>6. ASSUME NEW r \in 0..R
      PROVE  lev[r] = IF r = R THEN {leader} ELSE Below(lev[r + 1])
  BY <1>5
<1>7. lev[R] = {leader} /\ \A r \in 0..(R - 1) : lev[r] = Below(lev[r + 1])
  <2>1. R \in 0..R /\ \A r \in 0..(R - 1) : r \in 0..R /\ r # R
    BY <1>1
  <2> QED BY <1>6, <2>1
<1> QED BY <1>7 DEF lev, R, Below

\* What order_dag_with_dfs returns, apart from the leader, is not in the ledger.
LEMMA SubdagNew ==
    ASSUME NEW leader \in Certificate, NEW inLedger,
           NEW c \in CommitSubdag(leader, inLedger), c # leader
    PROVE  ID(c) \notin inLedger
<1> DEFINE level == SearchFrom(leader, inLedger)
<1> HIDE DEF level
<1>1. leader.round \in Nat
  BY CertificateFields
<1>2. c.round \in 0..leader.round /\ c \in level[c.round]
  BY DEF CommitSubdag, level
<1>3. /\ level[leader.round] = {leader}
      /\ \A r \in 0..(leader.round - 1) :
            level[r] = UNION {Lookup(Followed(d, inLedger)) : d \in level[r + 1]}
  BY <1>1, SearchUnfolds DEF level
<1>4. c.round \in 0..(leader.round - 1)
  BY <1>1, <1>2, <1>3
<1>5. PICK d \in level[c.round + 1] : c \in Lookup(Followed(d, inLedger))
  BY <1>2, <1>3, <1>4
<1> QED BY <1>5 DEF Lookup, Followed

\* What it returns is complete: below a certificate of the subdag, every reference
\* that is not too old leads to a certificate of the subdag or was committed.
LEMMA SubdagClosed ==
    ASSUME TypeOK, NEW leader \in Certificate, NEW inLedger,
           ~MissingPrevious(leader, inLedger),
           NEW c \in CommitSubdag(leader, inLedger), NEW id \in c.previous,
           c \in Certificate, RefersDown({c}),
           id.round + MaxGcRounds > last_committed_round
    PROVE  id \in recent_committed_ids \/ id \in inLedger
             \/ id \in IDs(CommitSubdag(leader, inLedger))
<1> DEFINE level == SearchFrom(leader, inLedger)
<1> HIDE DEF level
<1>1. leader.round \in Nat /\ c.round \in Nat /\ last_committed_round \in Nat
      /\ MaxGcRounds \in Nat /\ id.round \in Nat /\ id.round = c.round - 1
  <2>1. id \in CertificateID
    BY CertificateFields
  <2> QED BY <2>1, CertificateFields, StorageAssumption DEF TypeOK, CertificateID, RefersDown
<1>2. c.round \in 0..leader.round /\ c \in level[c.round]
  BY DEF CommitSubdag, level
<1>3. \A r \in 0..(leader.round - 1) :
            level[r] = UNION {Lookup(Followed(d, inLedger)) : d \in level[r + 1]}
  BY <1>1, SearchUnfolds DEF level
<1>4. CASE id \notin recent_committed_ids /\ id \notin inLedger
  <2>1. id \in Followed(c, inLedger)
    BY <1>1, <1>4 DEF Followed
  <2>2. c.round \in 1..leader.round
    BY <1>1, <1>2
  <2>3. id \in IDs(graph \cup certificates)
    BY <1>2, <2>1, <2>2 DEF MissingPrevious, level
  <2>4. PICK d \in graph \cup certificates : ID(d) = id
    BY <2>3 DEF IDs
  <2>5. d.round = c.round - 1
    BY <1>1, <2>4 DEF ID
  <2>6. d \in Lookup(Followed(c, inLedger))
    BY <2>1, <2>4 DEF Lookup
  <2>7. d.round \in 0..(leader.round - 1) /\ d.round + 1 = c.round
    BY <1>1, <2>2, <2>5
  <2>8. d \in level[d.round]
    BY <1>2, <1>3, <2>6, <2>7
  <2>9. d \in CommitSubdag(leader, inLedger)
    BY <1>1, <2>4, <2>5, <2>7, <2>8 DEF CommitSubdag, level
  <2> QED BY <2>4, <2>9 DEF IDs
<1> QED BY <1>4

-----------------------------------------------------------------------------
(* Facts about the invariant.                                               *)

\* The members of Known, before and after a step.
LEMMA KnownMember ==
    /\ \A c : c \in Known <=>
          \/ c \in certificates \/ c \in graph \/ c \in LedgerCertificates
          \/ c \in handler.chain \/ \E t \in Task : c \in tx_primary_certificate[t]
    /\ \A c : c \in Known' <=>
          \/ c \in certificates' \/ c \in graph' \/ c \in LedgerCertificates'
          \/ c \in handler'.chain \/ \E t \in Task : c \in tx_primary_certificate'[t]
BY DEF Known

\* Everything known is a certificate.
LEMMA KnownType ==
    ASSUME TypeOK
    PROVE  Known \subseteq Certificate
<1>1. /\ certificates \subseteq Certificate /\ graph \subseteq Certificate
      /\ handler.chain \subseteq Certificate
      /\ \A t \in Task : tx_primary_certificate[t] \subseteq Certificate
  BY DEF TypeOK
<1> QED BY <1>1, LedgerType, KnownMember

\* In the first run the handlers and the tasks only work once the node runs.
LEMMA FirstRuns ==
    ASSUME RoundInv, EmptyInv, First,
           \/ handler # Idle
           \/ \E t \in Task : pc[t] \notin {"off", "load"}
           \/ \E t \in Task : tx_primary_certificate[t] # {} \/ tx_primary_round[t] # 0
    PROVE  status = "running" /\ consensus_sender
<1>1. SUFFICES ASSUME status # "running" PROVE FALSE
  BY DEF EmptyInv
<1>2. \A t \in Task : pc[t] \in {"off", "load"}
  BY <1>1 DEF EmptyInv, RoundInv, PhaseInv
<1>3. \A t \in Task : pc[t] \in Free
  BY <1>2, FreeLabels
<1>4. \A t \in Task : /\ tx_primary_certificate[t] = {} /\ t \notin handler.from
                      /\ tx_primary_round[t] = 0
  BY <1>3, FreeProtocol DEF RoundInv
<1>5. handler = Idle
  <2>1. handler.from \subseteq Task
    BY DEF RoundInv, TypeOK
  <2> QED BY <1>4, <2>1 DEF RoundInv, RequestInv
<1> QED BY <1>2, <1>4, <1>5

\* A step that leaves the disk and the storage alone, makes no batch and adds nothing
\* to what is known.
LEMMA KnownShrinks ==
    ASSUME KnownInv, BatchesInv, First' => First, Known' \subseteq Known,
           UNCHANGED <<certificates, gc_round, batch, propose_lock>>
    PROVE  KnownInv' /\ BatchesInv'
<1>1. KnownInv'
  BY DEF KnownInv, RefersDown, Equivocation
<1>2. BatchesInv'
  BY DEF BatchesInv, RefersDown
<1> QED BY <1>1, <1>2

\* What the four properties of the ledger say stays true while the ledger does.
LEMMA SameLedger ==
    ASSUME UNCHANGED ledger
    PROVE  /\ LedgerCertificates' = LedgerCertificates /\ LatestAnchor' = LatestAnchor
           /\ AnchorsRise' = AnchorsRise /\ CommittedOnce' = CommittedOnce
           /\ LedgerClosed' = LedgerClosed
BY DEF LedgerCertificates, LatestAnchor, AnchorsRise, CommittedOnce, LedgerClosed

\* While the process is up in its first run, there is no cache and what is known does
\* not equivocate.
LEMMA KnownNoEquivocation ==
    ASSUME EmptyInv, KnownInv, First
    PROVE  OneCertificatePerRound
<1>1. cache = {}
  BY DEF EmptyInv
<1>2. \A c, d \in certificates \cup graph \cup LedgerCertificates : ~Equivocation(c, d)
  BY KnownMember DEF KnownInv
<1> QED BY <1>1, <1>2 DEF OneCertificatePerRound

\* The same, after a step.
LEMMA KnownNoEquivocationNext ==
    ASSUME EmptyInv', KnownInv', First'
    PROVE  OneCertificatePerRound'
<1>1. cache' = {}
  BY DEF EmptyInv
<1>2. \A c, d \in certificates' \cup graph' \cup LedgerCertificates' : ~Equivocation(c, d)
  BY KnownMember DEF KnownInv, Equivocation
<1> QED BY <1>1, <1>2 DEF OneCertificatePerRound, Equivocation

\* A step that leaves the ledger alone and ends in the first run keeps ChainInv with
\* the rest.
LEMMA ChainStays ==
    ASSUME ChainInv, UNCHANGED <<ledger, run>>, First', EmptyInv', KnownInv', AnchorInv'
    PROVE  ChainInv'
<1>1. OneCertificatePerRound' /\ DagCommittedInLedger'
  BY KnownNoEquivocationNext DEF AnchorInv
<1>2. AnchorsRise /\ CommittedOnce /\ LedgerClosed
  BY DEF ChainInv, First
<1>3. AnchorsRise' /\ CommittedOnce' /\ LedgerClosed'
  BY <1>2, SameLedger
<1> QED BY <1>1, <1>3 DEF ChainInv

\* Nothing is claimed of a run after the first.
LEMMA LaterRuns ==
    ASSUME run' \in Nat, run' > 1, status' # "down"
    PROVE  /\ OffInv' /\ NewInv' /\ EmptyInv' /\ AnchorInv' /\ KnownInv' /\ BatchesInv'
           /\ ChainInv'
<1>1. ~First' /\ ~(run' <= 1) /\ run' # 0
  BY DEF First
<1> QED BY <1>1 DEF OffInv, NewInv, EmptyInv, AnchorInv, KnownInv, BatchesInv, ChainInv

\* The steps between the start and the end of a run.
UpStep ==
    \/ BootStep \/ SetShutdown \/ ProposerWakes \/ IncrementWakes
    \/ CommitHandler \/ SyncHandler
    \/ \E t \in Task : RoundHandler(t) \/ CertificateHandler(t) \/ TaskStep(t)

\* They are taken by a process that is up, and stays so.
LEMMA UpStays ==
    ASSUME RoundInv, OffInv, UpStep
    PROVE  status # "down" /\ status' # "down" /\ run' = run
<1> USE DEF RoundInv
<1>1. run' = run
  <2>1. ASSUME NEW t \in Task, TaskStep(t) PROVE run' = run
    BY <2>1, TaskFrame DEF processVars
  <2> QED BY <2>1 DEF UpStep, BootStep, SyncCertificate, LoadProposalCache, LoadNext, LoadStore,
       LoadFails, LoadInDag, StartHandlers, SetShutdown, ProposerWakes, IncrementWakes,
       CommitHandler, SyncHandler, RoundHandler, CertificateHandler, processVars
<1>2. status' # "down" \/ status' = status
  <2>1. ASSUME NEW t \in Task, TaskStep(t) PROVE status' = status
    BY <2>1, TaskFrame DEF processVars
  <2> QED BY <2>1 DEF UpStep, BootStep, SyncCertificate, LoadProposalCache, LoadNext, LoadStore,
       LoadFails, LoadInDag, StartHandlers, SetShutdown, ProposerWakes, IncrementWakes,
       CommitHandler, SyncHandler, RoundHandler, CertificateHandler, processVars
<1>3. ASSUME status = "down" PROVE FALSE
  <2>1. \A t \in Task : pc[t] = "off"
    BY <1>3 DEF PhaseInv
  <2>2. \A t \in Task : /\ tx_primary_certificate[t] = {} /\ t \notin handler.from
                        /\ tx_primary_round[t] = 0
    BY <2>1, FreeProtocol, FreeLabels
  <2>3. handler = Idle
    <3>1. handler.from \subseteq Task
      BY DEF TypeOK
    <3> QED BY <2>2, <3>1 DEF RequestInv
  <2>4. tx_sync_bft_dag = {} /\ "boot" \in Task
    BY <1>3 DEF OffInv, Task
  <2>5. ~BootStep /\ ~SetShutdown /\ ~ProposerWakes /\ ~IncrementWakes
    BY <1>3, <2>1, <2>4 DEF BootStep, SyncCertificate, LoadProposalCache, LoadNext, LoadStore,
       LoadFails, LoadInDag, StartHandlers, SetShutdown, ProposerWakes, IncrementWakes
  <2>6. ~CommitHandler /\ ~SyncHandler
    BY <2>3, <2>4 DEF CommitHandler, CheckLeader, CommitLeader, CollectGarbage, AdvanceFails,
       CommitFails, SyncHandler, SyncBftDagAtBootup, Idle
  <2>7. \A t \in Task : ~RoundHandler(t) /\ ~CertificateHandler(t) /\ ~TaskStep(t)
    BY <2>1, <2>2, TaskFrame DEF RoundHandler, UpdateToNextRound, CertificateHandler, UpdateDag
  <2> QED BY <2>5, <2>6, <2>7 DEF UpStep
<1> QED BY <1>1, <1>2, <1>3

-----------------------------------------------------------------------------
(* The start of the first run.                                              *)

\* An empty ledger has no certificates.
LEMMA EmptyLedger ==
    ASSUME ledger = << >>
    PROVE  LedgerCertificates = {} /\ RecentCertificates = {} /\ LatestAnchor = 0
<1>1. Len(ledger) = 0
  OBVIOUS
<1>2. LedgerCertificates = {}
  BY <1>1 DEF LedgerCertificates
<1>3. RecentBlocks = {}
  <2>1. MaxOf(1, SaturatingSub(Len(ledger), MaxGcRounds \div 2)) = 1
    BY <1>1, StorageAssumption DEF MaxOf, SaturatingSub
  <2> QED BY <1>1, <2>1 DEF RecentBlocks
<1>4. RecentCertificates = {}
  BY <1>3 DEF RecentCertificates
<1> QED BY <1>2, <1>4 DEF LatestAnchor

\* The process starts.  The first time there is nothing on disk.
LEMMA BootFresh ==
    ASSUME FreshInv, Boot
    PROVE  /\ OffInv' /\ NewInv' /\ EmptyInv' /\ AnchorInv' /\ KnownInv' /\ BatchesInv'
           /\ ChainInv'
<1> USE DEF FreshInv
<1> USE DEF storageVars, dagVars, bftVars, channelVars, primaryVars, taskVars
<1>0. /\ status = "down" /\ run' = run + 1 /\ status' = "syncing" /\ todo' = RecentCertificates
      /\ UNCHANGED <<certificates, graph, recent_committed_ids, last_committed_round, handler,
                     tx_primary_certificate, tx_sync_bft_dag, ledger, pc, batch, propose_lock,
                     loading, cache, consensus_sender>>
  BY DEF Boot
<1>1. run \in Nat
  BY RunType DEF RoundInv
<1>2. CASE run # 0
  <2>1. run' \in Nat /\ run' > 1 /\ status' # "down"
    BY <1>0, <1>1, <1>2
  <2> QED BY <2>1, LaterRuns
<1>3. CASE run = 0
  <2>1. /\ ledger = << >> /\ cache = {} /\ certificates = {} /\ graph = {}
        /\ recent_committed_ids = {} /\ last_committed_round = 0 /\ tx_sync_bft_dag = {}
        /\ loading = {} /\ \A t \in Task : batch[t] = {}
    BY <1>0, <1>3 DEF NewInv, OffInv
  <2>2. LedgerCertificates = {} /\ RecentCertificates = {} /\ LatestAnchor = 0
    BY <2>1, EmptyLedger
  <2>3. LedgerCertificates' = {} /\ LatestAnchor' = 0 /\ ledger' = << >>
    BY <1>0, <2>1, <2>2, SameLedger
  <2>4. /\ \A t \in Task : pc[t] = "off" /\ tx_primary_certificate[t] = {} /\ t \notin handler.from
        /\ handler = Idle
    <3>1. \A t \in Task : pc[t] = "off"
      BY <1>0 DEF RoundInv, PhaseInv
    <3>2. \A t \in Task : tx_primary_certificate[t] = {} /\ t \notin handler.from
      BY <3>1, FreeProtocol, FreeLabels DEF RoundInv
    <3>3. handler.from \subseteq Task
      BY DEF RoundInv, TypeOK
    <3> QED BY <3>1, <3>2, <3>3 DEF RoundInv, RequestInv
  <2>5. OffInv' /\ NewInv'
    BY <1>0, <1>3 DEF OffInv, NewInv
  <2>6. EmptyInv'
    <3>1. "boot" \in Task
      BY DEF Task
    <3> QED BY <1>0, <2>1, <2>2, <2>4, <3>1 DEF EmptyInv
  <2>7. AnchorInv'
    <3>1. DagCommittedInLedger'
      BY <1>0, <2>1 DEF DagCommittedInLedger
    <3> QED BY <1>0, <2>1, <2>3, <2>4, <3>1 DEF AnchorInv, Idle
  <2>8. KnownInv'
    <3>1. Known' = {}
      BY <1>0, <2>1, <2>3, <2>4, KnownMember DEF Idle
    <3> QED BY <3>1 DEF KnownInv, RefersDown
  <2>9. BatchesInv'
    BY <1>0, <2>1 DEF BatchesInv, RefersDown
  <2>10. ChainInv'
    <3>1. AnchorsRise' /\ CommittedOnce' /\ LedgerClosed'
      BY <2>3 DEF AnchorsRise, CommittedOnce, LedgerClosed
    <3>2. OneCertificatePerRound' /\ DagCommittedInLedger'
      BY <1>0, <2>1, <2>3 DEF OneCertificatePerRound, DagCommittedInLedger
    <3> QED BY <3>1, <3>2 DEF ChainInv
  <2> QED BY <2>5, <2>6, <2>7, <2>8, <2>9, <2>10
<1> QED BY <1>2, <1>3

\* A step that leaves alone what the anchors are about.
LEMMA AnchorStays ==
    ASSUME AnchorInv, First' => First, handler'.chain \subseteq handler.chain,
           UNCHANGED <<ledger, recent_committed_ids, last_committed_round>>
    PROVE  AnchorInv'
<1>1. LedgerCertificates' = LedgerCertificates /\ LatestAnchor' = LatestAnchor
  BY SameLedger
<1>2. DagCommittedInLedger' = DagCommittedInLedger
  BY <1>1 DEF DagCommittedInLedger
<1> QED BY <1>1, <1>2 DEF AnchorInv

\* Bootup has nothing to load, and the loops make no batch.
LEMMA BootStepFresh ==
    ASSUME FreshInv, First, BootStep \/ SetShutdown \/ ProposerWakes \/ IncrementWakes
    PROVE  EmptyInv' /\ AnchorInv' /\ KnownInv' /\ BatchesInv' /\ ChainInv'
<1> USE DEF FreshInv
<1> USE DEF storageVars, dagVars, bftVars, channelVars, primaryVars, taskVars, processVars
<1>0. /\ pc \in [Task -> Label] /\ batch \in [Task -> SUBSET Certificate]
      /\ "boot" \in Task /\ "proposer" \in Task /\ "increment" \in Task
  BY DEF RoundInv, TypeOK, Task
<1>1. /\ ~SyncCertificate /\ ~LoadNext /\ ~LoadStore /\ ~LoadFails /\ ~LoadInDag
  <2>1. ~SyncCertificate
    BY DEF SyncCertificate, EmptyInv, Earliest
  <2>2. status = "running" => pc["boot"] = "done"
    BY DEF RoundInv, PhaseInv
  <2> QED BY <2>1, <2>2 DEF LoadNext, LoadStore, LoadFails, LoadInDag, EmptyInv, Earliest
<1>2. run' = run /\ status' # "down" /\ First'
  BY UpStays DEF UpStep, First
<1>3. /\ UNCHANGED <<certificates, gc_round, graph, ledger, handler, tx_primary_certificate,
                     recent_committed_ids, last_committed_round, propose_lock, cache, todo>>
      /\ \A t \in Task : batch'[t] \subseteq batch[t]
      /\ loading' \subseteq loading
      /\ tx_sync_bft_dag' = tx_sync_bft_dag
           \/ (status = "syncing" /\ tx_sync_bft_dag' = {RecentCertificates})
  <2>1. CASE LoadProposalCache
    BY <2>1 DEF LoadProposalCache, EmptyInv
  <2>2. CASE StartHandlers
    <3>1. /\ UNCHANGED <<certificates, gc_round, graph, ledger, handler, tx_primary_certificate,
                         recent_committed_ids, last_committed_round, propose_lock, cache, todo,
                         tx_sync_bft_dag>>
          /\ loading' = {} /\ batch' = [batch EXCEPT !["boot"] = {}]
      BY <2>2 DEF StartHandlers
    <3>2. \A t \in Task : batch'[t] \subseteq batch[t]
      BY <1>0, <3>1
    <3> QED BY <3>1, <3>2
  <2>3. CASE SetShutdown \/ ProposerWakes \/ IncrementWakes
    <3>1. UNCHANGED <<certificates, gc_round, graph, ledger, handler, tx_primary_certificate,
                      recent_committed_ids, last_committed_round, propose_lock, cache, todo,
                      tx_sync_bft_dag, loading, batch>>
      BY <2>3 DEF SetShutdown, ProposerWakes, IncrementWakes
    <3> QED BY <3>1
  <2> QED BY <1>1, <2>1, <2>2, <2>3 DEF BootStep
<1>4. EmptyInv'
  <2>1. cache' = {} /\ loading' = {} /\ tx_sync_bft_dag' \subseteq {{}}
    BY <1>3, EmptyLedger DEF EmptyInv
  <2>2. CASE LoadProposalCache
    <3>1. /\ status = "syncing" /\ status' = "loading" /\ pc'["boot"] = "load"
          /\ UNCHANGED batch
      BY <1>0, <2>2 DEF LoadProposalCache, Goto
    <3> QED BY <1>3, <2>1, <3>1 DEF EmptyInv
  <2>3. CASE StartHandlers
    BY <2>1, <2>3 DEF EmptyInv, StartHandlers
  <2>4. CASE SetShutdown \/ ProposerWakes \/ IncrementWakes
    BY <2>1, <2>4 DEF EmptyInv, SetShutdown, ProposerWakes, IncrementWakes
  <2> QED BY <1>1, <2>2, <2>3, <2>4 DEF BootStep
<1>5. AnchorInv'
  BY <1>3, AnchorStays
<1>6. KnownInv'
  <2>1. Known' = Known
    BY <1>3, SameLedger DEF Known
  <2> QED BY <1>3, <2>1 DEF KnownInv
<1>7. BatchesInv'
  BY <1>3 DEF BatchesInv, RefersDown
<1>8. ChainInv'
  BY <1>2, <1>3, <1>4, <1>5, <1>6, ChainStays
<1> QED BY <1>4, <1>5, <1>6, <1>7, <1>8

-----------------------------------------------------------------------------
(* The tasks of the primary.                                                *)

\* A task stores and sends at most the batch it has made, if it may be inserted.
LEMMA TaskStores ==
    ASSUME TypeOK, NEW t \in Task, TaskStep(t)
    PROVE  /\ pc[t] \notin {"off", "load"} /\ UNCHANGED tx_sync_bft_dag
           /\ \/ UNCHANGED <<certificates, tx_primary_certificate>>
              \/ \E c \in batch[t] :
                   /\ CanInsert(c) /\ certificates' = certificates \cup {c}
                   /\ \A u \in Task : tx_primary_certificate'[u]
                                         \subseteq tx_primary_certificate[u] \cup {c}
<1> USE DEF storageVars, channelVars
<1>0. tx_primary_certificate \in [Task -> SUBSET Certificate]
  BY DEF TypeOK
<1>1. pc[t] \notin {"off", "load"} /\ UNCHANGED tx_sync_bft_dag
  BY DEF TaskStep, IncrementAnswered, LiteSkips, LiteTooSoon, LiteAsks, LiteAsked,
         LiteProposes, LiteStores, LiteFails, LiteInDag, LiteDone, FakeProposal,
         FakeStores, FakeFails, FakeInDag
<1>2. CASE LiteStores(t) \/ FakeStores(t)
  <2>1. PICK c \in batch[t] :
           /\ InsertCertificate(c)
           /\ \/ UNCHANGED tx_primary_certificate
              \/ CanInsert(c) /\ Send(t, c)
    BY <1>2 DEF LiteStores, FakeStores
  <2>2. CASE ~CanInsert(c)
    BY <1>1, <2>1, <2>2 DEF InsertCertificate
  <2>3. CASE CanInsert(c)
    <3>1. certificates' = certificates \cup {c}
      BY <2>1, <2>3 DEF InsertCertificate
    <3>2. \A u \in Task : tx_primary_certificate'[u] \subseteq tx_primary_certificate[u] \cup {c}
      BY <1>0, <2>1 DEF Send
    <3> QED BY <1>1, <2>3, <3>1, <3>2
  <2> QED BY <2>2, <2>3
<1>3. CASE ~LiteStores(t) /\ ~FakeStores(t)
  <2>1. UNCHANGED <<certificates, tx_primary_certificate>>
    BY <1>3 DEF TaskStep, IncrementAnswered, LiteSkips, LiteTooSoon, LiteAsks, LiteAsked,
         LiteProposes, LiteFails, LiteInDag, LiteDone, FakeProposal, FakeFails, FakeInDag
  <2> QED BY <1>1, <2>1
<1> QED BY <1>2, <1>3

\* A certificate of a batch that may be inserted equivocates with nothing known: what
\* is known of its round is in the storage, where insertion looked.
LEMMA InsertIsNew ==
    ASSUME TypeOK, KnownInv, First, NEW c \in Certificate, CanInsert(c), NEW d \in Known
    PROVE  ~Equivocation(c, d) /\ ~Equivocation(d, c)
<1>1. SUFFICES ASSUME c.author = d.author, c.round = d.round PROVE FALSE
  BY DEF Equivocation
<1>2. d \in certificates
  BY <1>1 DEF KnownInv, CanInsert
<1> QED BY <1>1, <1>2 DEF CanInsert, ContainsInRoundFrom

\* A new batch refers to the round before its own.
LEMMA NewRefersDown ==
    ASSUME NEW author, NEW r
    PROVE  RefersDown({NewCertificate(author, r)})
BY DEF RefersDown, NewCertificate, IDs, ID, CertificatesFor

\* A step of a task keeps the invariant.
LEMMA TaskFresh ==
    ASSUME FreshInv, First, NEW t \in Task, TaskStep(t)
    PROVE  EmptyInv' /\ AnchorInv' /\ KnownInv' /\ BatchesInv' /\ ChainInv'
<1> USE DEF FreshInv
<1>0. /\ TypeOK /\ batch \in [Task -> SUBSET Certificate]
      /\ current_round \in Nat /\ propose_lock \in Nat
  BY DEF RoundInv, TypeOK
<1>1. /\ UNCHANGED <<status, run, cache, loading, todo, graph, recent_committed_ids,
                     last_committed_round, handler, consensus_sender, ledger, gc_round>>
      /\ \A u \in Task \ {t} : batch'[u] = batch[u]
  BY <1>0, TaskFrame DEF processVars, dagVars, bftVars
<1>2. status = "running" /\ consensus_sender /\ First'
  <2>1. pc[t] \notin {"off", "load"}
    BY <1>0, TaskStores
  <2> QED BY <1>1, <2>1, FirstRuns DEF First
<1>3. EmptyInv'
  BY <1>0, <1>1, <1>2, TaskStores DEF EmptyInv
<1>4. AnchorInv'
  BY <1>1, AnchorStays DEF First
<1>5. KnownInv'
  <2>0. LedgerCertificates' = LedgerCertificates
    BY <1>1, SameLedger
  <2>1. CASE UNCHANGED <<certificates, tx_primary_certificate>>
    <3>1. Known' = Known
      BY <1>1, <2>0, <2>1 DEF Known
    <3> QED BY <1>1, <1>2, <2>1, <3>1 DEF KnownInv
  <2>2. ASSUME NEW c \in batch[t], CanInsert(c), certificates' = certificates \cup {c},
               \A u \in Task : tx_primary_certificate'[u]
                                  \subseteq tx_primary_certificate[u] \cup {c}
        PROVE  KnownInv'
    <3>1. Known' \subseteq Known \cup {c}
      BY <1>1, <2>0, <2>2, KnownMember
    <3>2. RefersDown(Known')
      BY <3>1 DEF RefersDown, KnownInv, BatchesInv
    <3>3. c \in Certificate
      BY <1>0
    <3>4. ASSUME NEW d \in Known', NEW e \in Known' PROVE ~Equivocation(d, e)
      <4>1. CASE d \in Known /\ e \in Known
        BY <4>1 DEF KnownInv
      <4>2. CASE d = c /\ e = c
        BY <4>2 DEF Equivocation
      <4> QED BY <1>0, <2>2, <3>1, <3>3, <4>1, <4>2, InsertIsNew
    <3>5. ASSUME NEW d \in Known', d.round > gc_round PROVE d \in certificates'
      BY <2>2, <3>1, <3>5 DEF KnownInv
    <3> QED BY <1>1, <3>2, <3>4, <3>5 DEF KnownInv, Equivocation
  <2> QED BY <1>0, <2>1, <2>2, TaskStores
<1>6. BatchesInv'
  <2>1. CASE UNCHANGED <<batch, propose_lock>>
    BY <1>2, <2>1 DEF BatchesInv, RefersDown
  <2>2. CASE LiteProposes(t)
    <3> DEFINE b == NewCertificate(Self, current_round)
    <3>1. /\ current_round > propose_lock /\ propose_lock' = current_round
          /\ batch' = [batch EXCEPT ![t] = {b}]
      BY <2>2 DEF LiteProposes
    <3>2. batch'[t] = {b} /\ b.round = current_round
      BY <1>0, <3>1 DEF NewCertificate
    <3>3. RefersDown({b})
      BY NewRefersDown
    <3> HIDE DEF b
    <3>4. ASSUME NEW u \in Task, u # t, NEW d \in batch'[u]
          PROVE  /\ d \in batch[u] /\ d.round \in Nat /\ d.round <= propose_lock
                 /\ d.round < current_round
      <4>1. d \in batch[u] /\ d \in Certificate
        BY <1>0, <1>1, <3>4
      <4> QED BY <1>0, <3>1, <4>1, CertificateFields DEF BatchesInv
    <3>5. ASSUME NEW u \in Task
          PROVE  RefersDown(batch'[u]) /\ \A c \in batch'[u] : c.round <= propose_lock'
      <4>1. CASE u = t
        BY <1>0, <3>1, <3>2, <3>3, <4>1
      <4>2. CASE u # t
        BY <1>0, <3>1, <3>4, <4>2 DEF BatchesInv, RefersDown
      <4> QED BY <4>1, <4>2
    <3>6. ASSUME NEW u \in Task, NEW v \in Task, NEW c \in batch'[u], NEW d \in batch'[v],
                 c.round = d.round
          PROVE  u = v /\ c = d
      <4>1. CASE u = t /\ v = t
        BY <3>2, <4>1
      <4>2. CASE u # t /\ v # t
        BY <3>4, <3>6, <4>2 DEF BatchesInv
      <4>3. CASE u = t /\ v # t
        BY <1>0, <3>2, <3>4, <3>6, <4>3
      <4>4. CASE u # t /\ v = t
        BY <1>0, <3>2, <3>4, <3>6, <4>4
      <4> QED BY <4>1, <4>2, <4>3, <4>4
    <3> QED BY <3>5, <3>6 DEF BatchesInv
  <2>3. CASE FakeProposal(t) /\ UNCHANGED propose_lock
    <3>1. PICK b \in batch[t] :
             \/ batch' = [batch EXCEPT ![t] = {NewCertificate(vid[t], b.round)}]
             \/ UNCHANGED batch
      BY <2>3 DEF FakeProposal
    <3>2. CASE UNCHANGED batch
      BY <2>3, <3>2, <2>1
    <3>3. CASE batch' = [batch EXCEPT ![t] = {NewCertificate(vid[t], b.round)}]
      <4> DEFINE n == NewCertificate(vid[t], b.round)
      <4>1. batch'[t] = {n} /\ n.round = b.round
        BY <1>0, <3>3 DEF NewCertificate
      <4>2. RefersDown({n})
        BY NewRefersDown
      <4> HIDE DEF n
      <4>3. b.round <= propose_lock
        BY DEF BatchesInv
      <4>4. ASSUME NEW u \in Task
            PROVE  RefersDown(batch'[u]) /\ \A c \in batch'[u] : c.round <= propose_lock
        BY <1>1, <4>1, <4>2, <4>3 DEF BatchesInv
      <4>5. ASSUME NEW u \in Task, NEW v \in Task, NEW c \in batch'[u], NEW d \in batch'[v],
                   c.round = d.round
            PROVE  u = v /\ c = d
        BY <1>1, <4>1, <4>5 DEF BatchesInv
      <4> QED BY <2>3, <4>4, <4>5 DEF BatchesInv
    <3> QED BY <3>1, <3>2, <3>3
  <2> QED BY <1>0, <2>1, <2>2, <2>3, TaskBatch
<1>7. ChainInv'
  BY <1>1, <1>2, <1>3, <1>4, <1>5, ChainStays
<1> QED BY <1>3, <1>4, <1>5, <1>6, <1>7

-----------------------------------------------------------------------------
(* The handlers of the BFT.                                                 *)

\* The leaders to commit are above the committed rounds, one per round.
LEMMA ChainAbove ==
    ASSUME TypeOK, NEW l \in ReadyLeader
    PROVE  /\ LeaderChain(l) \subseteq graph
           /\ \A c \in LeaderChain(l) : c.round > last_committed_round
           /\ \A c, d \in LeaderChain(l) : c.round = d.round => c = d
<1>1. l \in graph /\ l.round > last_committed_round
  <2>1. l \in graph /\ l.round = CommitRound /\ ~(CommitRound <= last_committed_round)
    BY DEF ReadyLeader, LeaderIn
  <2>2. l.round \in Nat /\ last_committed_round \in Nat
    BY <2>1, CertificateFields DEF TypeOK
  <2> QED BY <2>1, <2>2
<1>2. l.round \in Nat /\ last_committed_round \in Nat
  BY <1>1, CertificateFields DEF TypeOK
<1>3. \A c \in LeaderChain(l) :
         c = l \/ /\ c.round > last_committed_round + 1 /\ c.round < l.round
                  /\ c = LeaderWalk(l)[c.round]
  BY DEF LeaderChain, PreviousLeaders
<1>4. \A c \in LeaderChain(l) : c.round \in Nat
  BY LeaderChainSubset, CertificateFields DEF TypeOK
<1>5. \A c \in LeaderChain(l) : c.round > last_committed_round
  BY <1>1, <1>2, <1>3, <1>4
<1>6. \A c, d \in LeaderChain(l) : c.round = d.round => c = d
  BY <1>2, <1>3, <1>4
<1> QED BY <1>5, <1>6, LeaderChainSubset

\* A block adds exactly its certificates to those of the ledger.
LEMMA AppendCertificates ==
    ASSUME TypeOK, NEW a \in Certificate, NEW C \in SUBSET Certificate,
           ledger' = Append(ledger, [anchor |-> a.round, certificates |-> C])
    PROVE  LedgerCertificates' = LedgerCertificates \cup C
<1>1. a.round \in Nat
  BY CertificateFields
<1>2. LedgerCertificates' \subseteq LedgerCertificates \cup C
  BY <1>1, LedgerAppend
<1>3. /\ Len(ledger) \in Nat /\ Len(ledger') = Len(ledger) + 1
      /\ ledger'[Len(ledger) + 1].certificates = C
      /\ \A h \in 1..Len(ledger) : ledger'[h] = ledger[h]
  BY AppendAnchor
<1>4. C \subseteq LedgerCertificates'
  <2>1. Len(ledger) + 1 \in 1..Len(ledger')
    BY <1>3
  <2> QED BY <1>3, <2>1 DEF LedgerCertificates
<1>5. LedgerCertificates \subseteq LedgerCertificates'
  <2>1. \A h \in 1..Len(ledger) : h \in 1..Len(ledger')
    BY <1>3
  <2> QED BY <1>3, <2>1 DEF LedgerCertificates
<1> QED BY <1>2, <1>4, <1>5

\* A block is anchored above the others, holds nothing of theirs, and together with
\* them holds what its certificates refer to.
LEMMA BlockKeepsChain ==
    ASSUME FreshInv, First, NEW leader \in handler.chain,
           ~MissingPrevious(leader, IDs(LedgerCertificates)),
           ledger' = Append(ledger, [anchor |-> leader.round, certificates |-> Subdag(leader)])
    PROVE  AnchorsRise' /\ CommittedOnce' /\ LedgerClosed'
<1> USE DEF FreshInv
<1> DEFINE N == Len(ledger)
<1>0. TypeOK /\ leader \in Certificate /\ leader.round \in Nat /\ Subdag(leader) \in SUBSET Certificate
  <2>1. TypeOK /\ leader \in Certificate
    BY DEF RoundInv, TypeOK
  <2> QED BY <2>1, CertificateFields, SubdagType
<1>1. /\ N \in Nat /\ Len(ledger') = N + 1
      /\ ledger'[N + 1].anchor = leader.round /\ ledger'[N + 1].certificates = Subdag(leader)
      /\ \A h \in 1..N : ledger'[h] = ledger[h]
  BY <1>0, AppendAnchor
<1>2. /\ LatestAnchor \in Nat /\ leader.round > LatestAnchor
      /\ last_committed_round = LatestAnchor
      /\ \A c \in LedgerCertificates : c.round <= LatestAnchor
      /\ DagCommittedInLedger
  BY <1>0, LatestAnchorType DEF AnchorInv
<1>3. AnchorsRise /\ CommittedOnce /\ LedgerClosed
  BY DEF ChainInv, First
<1>4. \A h \in 1..N : ledger[h].certificates \subseteq LedgerCertificates
  BY DEF LedgerCertificates
<1>5. N # 0 => LatestAnchor = ledger[N].anchor
  BY <1>1 DEF LatestAnchor
<1> HIDE DEF N
<1>6. AnchorsRise'
  <2>1. ASSUME NEW h \in 2..(N + 1) PROVE ledger'[h - 1].anchor < ledger'[h].anchor
    <3>1. CASE h = N + 1
      <4>1. N \in 1..N /\ h - 1 = N /\ N # 0
        BY <1>1, <3>1
      <4> QED BY <1>1, <1>2, <1>5, <3>1, <4>1
    <3>2. CASE h \in 2..N
      <4>1. h \in 1..N /\ h - 1 \in 1..N
        BY <1>1, <3>2
      <4> QED BY <1>1, <1>3, <3>2, <4>1 DEF AnchorsRise, N
    <3> QED BY <1>1, <3>1, <3>2
  <2> QED BY <1>1, <2>1 DEF AnchorsRise
<1>7. Subdag(leader) \cap LedgerCertificates = {}
  <2>1. SUFFICES ASSUME NEW c \in Subdag(leader), c \in LedgerCertificates PROVE FALSE
    OBVIOUS
  <2>2. ID(c) \in IDs(LedgerCertificates)
    BY <2>1 DEF IDs
  <2>3. c = leader
    BY <1>0, <2>2, SubdagNew DEF Subdag
  <2> QED BY <1>0, <1>2, <2>1, <2>3
<1>8. CommittedOnce'
  <2>1. ASSUME NEW g \in 1..(N + 1), NEW h \in 1..(N + 1), g # h
        PROVE  ledger'[g].certificates \cap ledger'[h].certificates = {}
    <3>1. CASE g \in 1..N /\ h \in 1..N
      BY <1>1, <1>3, <2>1, <3>1 DEF CommittedOnce, N
    <3>2. CASE g = N + 1 /\ h \in 1..N
      BY <1>1, <1>4, <1>7, <3>2
    <3>3. CASE g \in 1..N /\ h = N + 1
      BY <1>1, <1>4, <1>7, <3>3
    <3> QED BY <1>1, <2>1, <3>1, <3>2, <3>3
  <2> QED BY <1>1, <2>1 DEF CommittedOnce
<1>9. LedgerClosed'
  <2>1. ASSUME NEW h \in 1..(N + 1), NEW c \in ledger'[h].certificates, NEW id \in c.previous,
               id.round + MaxGcRounds > ledger'[h].anchor
        PROVE  \E g \in 1..h : id \in IDs(ledger'[g].certificates)
    <3>1. CASE h \in 1..N
      <4>1. PICK g \in 1..h : id \in IDs(ledger[g].certificates)
        BY <1>1, <1>3, <2>1, <3>1 DEF LedgerClosed, N
      <4>2. g \in 1..N
        BY <1>1, <3>1
      <4> QED BY <1>1, <4>1, <4>2
    <3>2. CASE h = N + 1
      <4>1. c \in Subdag(leader) /\ c \in Certificate
        BY <1>0, <1>1, <3>2
      <4>2. RefersDown({c})
        <5>1. c \in Known
          BY <4>1, KnownMember DEF Subdag, CommitSubdag
        <5> QED BY <5>1 DEF KnownInv, RefersDown
      <4>3. id.round \in Nat
        BY <4>1, CertificateFields DEF CertificateID
      <4>4. id.round + MaxGcRounds > last_committed_round
        BY <1>0, <1>1, <1>2, <2>1, <3>2, <4>3, StorageAssumption
      <4>5. id \in recent_committed_ids \/ id \in IDs(LedgerCertificates) \/ id \in IDs(Subdag(leader))
        BY <1>0, <4>1, <4>2, <4>4, SubdagClosed DEF Subdag
      <4>6. CASE id \in IDs(Subdag(leader))
        BY <1>1, <3>2, <4>6
      <4>7. CASE id \in IDs(LedgerCertificates)
        <5>1. PICK g \in 1..N : id \in IDs(ledger[g].certificates)
          BY <4>7 DEF IDs, LedgerCertificates, N
        <5> QED BY <1>1, <3>2, <5>1
      <4> QED BY <1>2, <4>5, <4>6, <4>7 DEF DagCommittedInLedger
    <3> QED BY <1>1, <3>1, <3>2
  <2> QED BY <1>1, <2>1 DEF LedgerClosed
<1> QED BY <1>6, <1>8, <1>9

\* A leader is committed: the DAG and the ledger move to its round together.
LEMMA CommitFresh ==
    ASSUME FreshInv, First, status = "running", consensus_sender, NEW leader \in OldestLeader,
           ~MissingPrevious(leader, IDs(LedgerCertificates)),
           ledger' = Append(ledger, [anchor |-> leader.round, certificates |-> Subdag(leader)]),
           DagCommit(Subdag(leader), leader.round),
           handler' = [handler EXCEPT !.chain = @ \ {leader}],
           UNCHANGED <<certificates, gc_round, batch, propose_lock, tx_primary_certificate,
                       status, run, cache, loading, tx_sync_bft_dag, consensus_sender>>
    PROVE  EmptyInv' /\ AnchorInv' /\ KnownInv' /\ BatchesInv' /\ ChainInv'
<1> USE DEF FreshInv
<1>0. /\ TypeOK /\ leader \in handler.chain /\ leader \in Certificate
      /\ leader.round \in Nat /\ Subdag(leader) \in SUBSET Certificate
      /\ \A c \in handler.chain : c.round \in Nat
  <2>1. TypeOK /\ leader \in handler.chain /\ handler.chain \subseteq Certificate
    BY DEF OldestLeader, RoundInv, TypeOK
  <2> QED BY <2>1, CertificateFields, SubdagType
<1>1. /\ LatestAnchor' = leader.round
      /\ LedgerCertificates' = LedgerCertificates \cup Subdag(leader)
  BY <1>0, AppendAnchor, AppendCertificates
<1>2. handler'.chain = handler.chain \ {leader}
  <2>1. handler \in [pc : {"idle", "check", "commit"}, from : SUBSET Task, round : Nat,
                     chain : SUBSET Certificate]
    BY <1>0 DEF TypeOK
  <2> QED BY <2>1
<1>3. First' /\ First
  BY DEF First
<1>4. EmptyInv'
  BY <1>3 DEF EmptyInv
<1>5. AnchorInv'
  <2>1. /\ LatestAnchor \in Nat /\ leader.round > LatestAnchor
        /\ last_committed_round = LatestAnchor
    BY <1>0, LatestAnchorType DEF AnchorInv
  <2>2. last_committed_round' = leader.round
    BY <1>0, <2>1 DEF DagCommit, MaxOf
  <2>3. ASSUME NEW c \in handler'.chain PROVE c.round > leader.round
    <3>1. c \in handler.chain /\ c # leader /\ leader.round <= c.round
      BY <1>2 DEF OldestLeader
    <3>2. c.round # leader.round
      BY <1>0, <1>3, <3>1 DEF AnchorInv
    <3> QED BY <1>0, <3>1, <3>2
  <2>4. ASSUME NEW c \in LedgerCertificates' PROVE c.round <= leader.round
    <3>1. CASE c \in LedgerCertificates
      <4>1. c \in Certificate /\ c.round <= LatestAnchor
        BY <1>0, <1>3, <3>1, LedgerType DEF AnchorInv
      <4> QED BY <1>0, <2>1, <4>1, CertificateFields
    <3>2. CASE c \in Subdag(leader)
      BY <1>0, <3>2 DEF Subdag, CommitSubdag
    <3> QED BY <1>1, <3>1, <3>2
  <2>5. DagCommittedInLedger'
    <3>1. recent_committed_ids' \subseteq recent_committed_ids \cup IDs(Subdag(leader))
      BY DEF DagCommit
    <3>2. recent_committed_ids \subseteq IDs(LedgerCertificates)
      BY <1>3 DEF AnchorInv, DagCommittedInLedger
    <3> QED BY <1>1, <3>1, <3>2 DEF DagCommittedInLedger, IDs
  <2>6. \A c, d \in handler'.chain : c.round = d.round => c = d
    BY <1>2, <1>3 DEF AnchorInv
  <2> QED BY <1>1, <2>2, <2>3, <2>4, <2>5, <2>6 DEF AnchorInv
<1>6. KnownInv' /\ BatchesInv'
  <2>1. Subdag(leader) \subseteq Known
    BY <1>0, KnownMember DEF Subdag, CommitSubdag
  <2>2. graph' \subseteq graph
    BY DEF DagCommit
  <2>3. Known' \subseteq Known
    BY <1>1, <1>2, <2>1, <2>2, KnownMember
  <2> QED BY <1>3, <2>3, KnownShrinks
<1>7. ChainInv'
  <2>1. AnchorsRise' /\ CommittedOnce' /\ LedgerClosed'
    BY <1>0, <1>3, BlockKeepsChain
  <2>2. OneCertificatePerRound' /\ DagCommittedInLedger'
    BY <1>3, <1>4, <1>5, <1>6, KnownNoEquivocationNext DEF AnchorInv
  <2> QED BY <2>1, <2>2 DEF ChainInv
<1> QED BY <1>4, <1>5, <1>6, <1>7

\* Garbage collection keeps what it leaves above the new GC round.
LEMMA CollectFresh ==
    ASSUME TypeOK, KnownInv, BatchesInv, First' => First, NEW r \in Nat, GarbageCollect(r),
           UNCHANGED <<graph, ledger, tx_primary_certificate, batch, propose_lock>>,
           handler'.chain \subseteq handler.chain
    PROVE  KnownInv' /\ BatchesInv'
<1>1. BatchesInv'
  BY DEF BatchesInv, RefersDown
<1>2. /\ certificates' \subseteq certificates /\ gc_round' \in Nat /\ gc_round \in Nat
      /\ \A c \in certificates : c.round \in Nat
      /\ \A c \in certificates : c.round > gc_round' => c \in certificates'
      /\ gc_round' >= gc_round
  <2>1. gc_round \in Nat /\ SaturatingSub(r, MaxGcRounds) \in Nat
        /\ \A c \in certificates : c.round \in Nat
    BY SaturatingSubType, StorageAssumption, CertificateFields DEF TypeOK
  <2>2. CASE SaturatingSub(r, MaxGcRounds) > gc_round
    <3>1. /\ gc_round' = SaturatingSub(r, MaxGcRounds)
          /\ certificates' = {c \in certificates : c.round \notin gc_round..gc_round'}
      BY <2>2 DEF GarbageCollect
    <3> QED BY <2>1, <2>2, <3>1
  <2>3. CASE ~(SaturatingSub(r, MaxGcRounds) > gc_round)
    <3>1. UNCHANGED <<gc_round, certificates>>
      BY <2>3 DEF GarbageCollect
    <3> QED BY <2>1, <3>1
  <2> QED BY <2>2, <2>3
<1>3. Known' \subseteq Known
  BY <1>2, SameLedger, KnownMember
<1>4. Known \subseteq Certificate
  BY KnownType
<1>5. SUFFICES ASSUME First' PROVE KnownInv'
  BY <1>1 DEF KnownInv
<1>6. ASSUME NEW c \in Known', c.round > gc_round' PROVE c \in certificates'
  <2>1. c \in Known /\ c.round \in Nat
    BY <1>3, <1>4, CertificateFields
  <2>2. c.round > gc_round
    BY <1>2, <1>6, <2>1
  <2> QED BY <1>2, <1>5, <1>6, <2>1, <2>2 DEF KnownInv
<1>7. (\A c, d \in Known' : ~Equivocation(c, d)) /\ RefersDown(Known')
  BY <1>3, <1>5 DEF KnownInv, RefersDown
<1> QED BY <1>6, <1>7 DEF KnownInv, Equivocation

\* The handlers keep the invariant.
LEMMA HandlerFresh ==
    ASSUME FreshInv, First,
           \/ CommitHandler \/ SyncHandler
           \/ \E t \in Task : RoundHandler(t) \/ CertificateHandler(t)
    PROVE  EmptyInv' /\ AnchorInv' /\ KnownInv' /\ BatchesInv' /\ ChainInv'
<1> USE DEF FreshInv
<1>0. /\ UNCHANGED <<pc, batch, propose_lock, todo, loading, status, run, cache, consensus_sender>>
      /\ tx_sync_bft_dag' \subseteq tx_sync_bft_dag
  BY DEF CommitHandler, SyncHandler, RoundHandler, CertificateHandler, CheckLeader, CommitLeader,
         CollectGarbage, AdvanceFails, CommitFails, SyncBftDagAtBootup, UpdateToNextRound,
         UpdateDag, bftVars, primaryVars, taskVars, processVars
<1>1. First'
  BY <1>0 DEF First
<1>2. TypeOK
  BY DEF RoundInv
<1>3. ASSUME UNCHANGED ledger PROVE EmptyInv'
  BY <1>0, <1>3 DEF EmptyInv
<1>4. ASSUME UNCHANGED ledger, AnchorInv', KnownInv', BatchesInv'
      PROVE  EmptyInv' /\ AnchorInv' /\ KnownInv' /\ BatchesInv' /\ ChainInv'
  BY <1>0, <1>1, <1>3, <1>4, ChainStays
<1>5. ASSUME UNCHANGED <<ledger, certificates, gc_round, recent_committed_ids, last_committed_round,
                         graph, tx_primary_certificate>>,
             handler'.chain \subseteq handler.chain
      PROVE  EmptyInv' /\ AnchorInv' /\ KnownInv' /\ BatchesInv' /\ ChainInv'
  <2>1. AnchorInv'
    BY <1>5, AnchorStays
  <2>2. Known' \subseteq Known
    BY <1>5, SameLedger, KnownMember
  <2>3. KnownInv' /\ BatchesInv'
    BY <1>0, <1>5, <2>2, KnownShrinks
  <2> QED BY <1>4, <1>5, <2>1, <2>3
<1>6. ASSUME NEW t \in Task, RoundHandler(t)
      PROVE  EmptyInv' /\ AnchorInv' /\ KnownInv' /\ BatchesInv' /\ ChainInv'
  BY <1>5, <1>6 DEF RoundHandler, UpdateToNextRound, dagVars
<1>7. ASSUME NEW t \in Task, CertificateHandler(t)
      PROVE  EmptyInv' /\ AnchorInv' /\ KnownInv' /\ BatchesInv' /\ ChainInv'
  <2>1. PICK c \in tx_primary_certificate[t] :
          /\ graph' = DagInserted(c)
          /\ handler' = [Idle EXCEPT !.pc = "check", !.from = {t}, !.round = c.round]
    BY <1>7 DEF CertificateHandler, UpdateDag
  <2>2. /\ UNCHANGED <<ledger, certificates, gc_round, recent_committed_ids, last_committed_round>>
        /\ tx_primary_certificate' = [tx_primary_certificate EXCEPT ![t] = {}]
    BY <1>7 DEF CertificateHandler, UpdateDag, storageVars
  <2>3. handler'.chain = {}
    BY <2>1 DEF Idle
  <2>4. AnchorInv'
    BY <2>2, <2>3, AnchorStays
  <2>5. \A u \in Task : tx_primary_certificate'[u] \subseteq tx_primary_certificate[u]
    BY <1>2, <2>2 DEF TypeOK
  <2>6. graph' \subseteq graph \cup {c}
    BY <2>1, DagInsertedSubset
  <2>7. Known' \subseteq Known
    BY <2>2, <2>3, <2>5, <2>6, SameLedger, KnownMember
  <2>8. KnownInv' /\ BatchesInv'
    BY <1>0, <2>2, <2>7, KnownShrinks
  <2> QED BY <1>4, <2>2, <2>4, <2>8
<1>8. CASE SyncHandler
  <2>1. PICK C \in tx_sync_bft_dag : DagCommit(C, LatestAnchor)
    BY <1>8 DEF SyncHandler, SyncBftDagAtBootup
  <2>2. UNCHANGED <<ledger, certificates, gc_round, handler, tx_primary_certificate>>
    BY <1>8 DEF SyncHandler, SyncBftDagAtBootup, storageVars, bftVars
  <2>3. C = {} /\ last_committed_round = LatestAnchor /\ LatestAnchor \in Nat
    BY <1>2, LatestAnchorType DEF EmptyInv, AnchorInv
  <2>4. /\ UNCHANGED last_committed_round /\ graph' \subseteq graph
        /\ recent_committed_ids' \subseteq recent_committed_ids
    BY <2>1, <2>3 DEF DagCommit, MaxOf, IDs
  <2>5. AnchorInv'
    <3>1. LedgerCertificates' = LedgerCertificates /\ LatestAnchor' = LatestAnchor
      BY <2>2, SameLedger
    <3>2. DagCommittedInLedger'
      BY <2>4, <3>1 DEF AnchorInv, DagCommittedInLedger
    <3> QED BY <2>2, <2>4, <3>1, <3>2 DEF AnchorInv
  <2>6. Known' \subseteq Known
    BY <2>2, <2>4, SameLedger, KnownMember
  <2>7. KnownInv' /\ BatchesInv'
    BY <1>0, <2>2, <2>6, KnownShrinks
  <2> QED BY <1>4, <2>2, <2>5, <2>7
<1>9. CASE CommitHandler
  <2>0. UNCHANGED tx_primary_certificate
    BY <1>9 DEF CommitHandler, CheckLeader, CommitLeader, CollectGarbage, AdvanceFails, CommitFails
  <2>1. ASSUME NEW r, Answer(r) PROVE handler'.chain = {}
    BY <2>1 DEF Answer, Idle
  <2>2. ASSUME UNCHANGED <<storageVars, dagVars, ledger>>, Answer("ok") \/ Answer("err")
        PROVE  EmptyInv' /\ AnchorInv' /\ KnownInv' /\ BatchesInv' /\ ChainInv'
    BY <1>5, <2>0, <2>1, <2>2 DEF storageVars, dagVars
  <2>3. CASE AdvanceFails \/ CommitFails
    BY <2>2, <2>3 DEF AdvanceFails, CommitFails
  <2>4. CASE CollectGarbage
    <3>1. /\ GarbageCollect(handler.round) /\ handler'.chain = {}
          /\ UNCHANGED <<ledger, graph, recent_committed_ids, last_committed_round>>
      BY <2>1, <2>4 DEF CollectGarbage, dagVars
    <3>2. handler.round \in Nat
      BY <1>2 DEF TypeOK
    <3>3. KnownInv' /\ BatchesInv'
      BY <1>0, <1>2, <2>0, <3>1, <3>2, CollectFresh
    <3>4. AnchorInv'
      BY <3>1, AnchorStays
    <3> QED BY <1>4, <3>1, <3>3, <3>4
  <2>5. CASE CheckLeader
    <3>1. UNCHANGED <<storageVars, dagVars, ledger>>
      BY <2>5 DEF CheckLeader
    <3>2. ASSUME NEW l \in ReadyLeader,
                 handler' = [handler EXCEPT !.pc = "commit", !.round = l.round,
                                            !.chain = LeaderChain(l)]
          PROVE  EmptyInv' /\ AnchorInv' /\ KnownInv' /\ BatchesInv' /\ ChainInv'
      <4>1. handler'.chain = LeaderChain(l)
        <5>1. handler \in [pc : {"idle", "check", "commit"}, from : SUBSET Task, round : Nat,
                           chain : SUBSET Certificate]
          BY <1>2 DEF TypeOK
        <5> QED BY <3>2, <5>1
      <4>2. AnchorInv'
        <5>1. LedgerCertificates' = LedgerCertificates /\ LatestAnchor' = LatestAnchor
          BY <3>1, SameLedger
        <5>2. UNCHANGED <<last_committed_round, recent_committed_ids>>
          BY <3>1 DEF dagVars
        <5>3. DagCommittedInLedger'
          BY <5>1, <5>2 DEF AnchorInv, DagCommittedInLedger
        <5> QED BY <1>2, <4>1, <5>1, <5>2, <5>3, ChainAbove DEF AnchorInv
      <4>3. Known' \subseteq Known
        BY <1>2, <2>0, <3>1, <4>1, ChainAbove, SameLedger, KnownMember DEF storageVars, dagVars
      <4>4. KnownInv' /\ BatchesInv'
        BY <1>0, <3>1, <4>3, KnownShrinks DEF storageVars
      <4> QED BY <1>4, <3>1, <4>2, <4>4
    <3>3. \/ Answer("ok") \/ Answer("err")
          \/ \E l \in ReadyLeader :
                handler' = [handler EXCEPT !.pc = "commit", !.round = l.round,
                                           !.chain = LeaderChain(l)]
      BY <2>5 DEF CheckLeader
    <3> QED BY <2>2, <3>1, <3>2, <3>3
  <2>6. CASE CommitLeader
    <3>1. status = "running" /\ consensus_sender
      <4>1. handler # Idle
        BY <2>6 DEF CommitLeader, Idle
      <4> QED BY <4>1, FirstRuns
    <3>2. UNCHANGED <<storageVars, tx_sync_bft_dag>>
      BY <2>6 DEF CommitLeader
    <3>3. \/ Answer("err") /\ UNCHANGED <<ledger, dagVars>>
          \/ \E leader \in OldestLeader :
               /\ ~MissingPrevious(leader, IDs(LedgerCertificates))
               /\ ledger' = Append(ledger, [anchor |-> leader.round,
                                            certificates |-> Subdag(leader)])
               /\ DagCommit(Subdag(leader), leader.round)
               /\ handler' = [handler EXCEPT !.chain = @ \ {leader}]
      BY <2>6, <3>1 DEF CommitLeader
    <3>4. CASE Answer("err") /\ UNCHANGED <<ledger, dagVars>>
      BY <2>2, <3>2, <3>4
    <3>5. ASSUME NEW leader \in OldestLeader,
                 ~MissingPrevious(leader, IDs(LedgerCertificates)),
                 ledger' = Append(ledger, [anchor |-> leader.round,
                                           certificates |-> Subdag(leader)]),
                 DagCommit(Subdag(leader), leader.round),
                 handler' = [handler EXCEPT !.chain = @ \ {leader}]
          PROVE  EmptyInv' /\ AnchorInv' /\ KnownInv' /\ BatchesInv' /\ ChainInv'
      <4>1. UNCHANGED <<certificates, gc_round>>
        BY <3>2 DEF storageVars
      <4> QED BY <1>0, <2>0, <3>1, <3>2, <3>5, <4>1, CommitFresh
    <3> QED BY <3>3, <3>4, <3>5
  <2> QED BY <1>9, <2>3, <2>4, <2>5, <2>6 DEF CommitHandler
<1> QED BY <1>6, <1>7, <1>8, <1>9

-----------------------------------------------------------------------------
(* The end of a run, and the theorems.                                      *)

\* What a shutdown saves equivocates with nothing: the insertions in flight are of
\* different rounds, and those that succeed looked in the storage.
LEMMA SavedNoEquivocation ==
    ASSUME FreshInv, First, ShutDown
    PROVE  OneCertificatePerRound'
<1> USE DEF FreshInv
<1>1. PICK finished \in SUBSET InFlight :
         LET stored == certificates \cup
                         {c \in UNION {batch[t] : t \in finished} : CanInsert(c)}
         IN  cache' = {[round   |-> propose_lock,
                        signed  |-> signed_proposals,
                        pending |-> {c \in stored : c \notin LedgerCertificates}]}
  BY DEF ShutDown
<1> DEFINE Flying == {c \in UNION {batch[t] : t \in finished} : CanInsert(c)}
<1>2. UNION {saved.pending : saved \in cache'} \subseteq certificates \cup Flying
  BY <1>1
<1>3. certificates' = {} /\ graph' = {} /\ LedgerCertificates' = LedgerCertificates
  BY SameLedger DEF ShutDown, PowerOff
<1>4. TypeOK /\ finished \subseteq Task /\ \A t \in Task : batch[t] \subseteq Certificate
  BY DEF RoundInv, TypeOK, InFlight
<1>5. ASSUME NEW c \in Known \cup Flying, NEW d \in Known \cup Flying
      PROVE  ~Equivocation(c, d)
  <2>1. \A e \in Flying : /\ CanInsert(e) /\ e \in Certificate
                          /\ \E t \in Task : e \in batch[t]
    BY <1>4
  <2>2. CASE c \in Known /\ d \in Known
    BY <2>2 DEF KnownInv
  <2>3. CASE c \in Flying /\ d \in Known
    BY <1>4, <2>1, <2>3, InsertIsNew
  <2>4. CASE c \in Known /\ d \in Flying
    BY <1>4, <2>1, <2>4, InsertIsNew
  <2>5. CASE c \in Flying /\ d \in Flying
    BY <2>1, <2>5 DEF BatchesInv, Equivocation
  <2> QED BY <2>2, <2>3, <2>4, <2>5
<1>6. certificates' \cup graph' \cup LedgerCertificates' \cup UNION {saved.pending : saved \in cache'}
        \subseteq Known \cup Flying
  <2>1. certificates \subseteq Known /\ LedgerCertificates \subseteq Known
    BY KnownMember
  <2> QED BY <1>2, <1>3, <2>1
<1> HIDE DEF Flying
<1> QED BY <1>5, <1>6 DEF OneCertificatePerRound, Equivocation

\* The process stops, by a shutdown or a crash.
LEMMA StopFresh ==
    ASSUME FreshInv, ShutDown \/ Crash
    PROVE  /\ OffInv' /\ NewInv' /\ EmptyInv' /\ AnchorInv' /\ KnownInv' /\ BatchesInv'
           /\ ChainInv'
<1> USE DEF FreshInv
<1>1. /\ status # "down" /\ status' = "down" /\ UNCHANGED <<ledger, run>>
      /\ certificates' = {} /\ graph' = {} /\ recent_committed_ids' = {}
      /\ last_committed_round' = 0 /\ tx_sync_bft_dag' = {}
      /\ todo' = {} /\ loading' = {} /\ propose_lock' = 0
      /\ \A t \in Task : batch'[t] = {}
  BY DEF ShutDown, Crash, PowerOff
<1>2. OffInv' /\ NewInv'
  BY <1>1 DEF OffInv, NewInv
<1>3. ~First'
  BY <1>1 DEF First
<1>4. EmptyInv' /\ AnchorInv' /\ KnownInv' /\ BatchesInv'
  BY <1>3 DEF EmptyInv, AnchorInv, KnownInv, BatchesInv
<1>5. ChainInv'
  <2>1. SUFFICES ASSUME run <= 1 PROVE AnchorsRise' /\ CommittedOnce' /\ LedgerClosed'
                     /\ OneCertificatePerRound' /\ DagCommittedInLedger'
    BY <1>1 DEF ChainInv
  <2>2. First
    BY <1>1, <2>1 DEF First
  <2>3. AnchorsRise' /\ CommittedOnce' /\ LedgerClosed'
    BY <1>1, <2>1, SameLedger DEF ChainInv
  <2>4. DagCommittedInLedger'
    BY <1>1 DEF DagCommittedInLedger
  <2>5. OneCertificatePerRound'
    <3>1. CASE ShutDown
      BY <2>2, <3>1, SavedNoEquivocation
    <3>2. CASE Crash
      <4>1. cache' = {} /\ LedgerCertificates' = LedgerCertificates
        BY <1>1, <2>2, <3>2, SameLedger DEF Crash, EmptyInv
      <4>2. OneCertificatePerRound
        BY <2>2, KnownNoEquivocation
      <4> QED BY <1>1, <4>1, <4>2 DEF OneCertificatePerRound, Equivocation
    <3> QED BY <3>1, <3>2
  <2> QED BY <2>3, <2>4, <2>5
<1> QED BY <1>2, <1>4, <1>5

\* The invariant holds before the first run.
LEMMA FreshInit == Init => FreshInv
<1> SUFFICES ASSUME Init PROVE FreshInv
  OBVIOUS
<1>1. /\ status = "down" /\ ledger = << >> /\ cache = {} /\ certificates = {} /\ graph = {}
      /\ recent_committed_ids = {} /\ last_committed_round = 0 /\ tx_sync_bft_dag = {}
      /\ todo = {} /\ loading = {} /\ propose_lock = 0 /\ \A t \in Task : batch[t] = {}
  BY DEF Init, DagInit
<1>2. OffInv /\ NewInv
  BY <1>1 DEF OffInv, NewInv
<1>3. EmptyInv /\ AnchorInv /\ KnownInv /\ BatchesInv
  BY <1>1 DEF First, EmptyInv, AnchorInv, KnownInv, BatchesInv
<1>4. LedgerCertificates = {}
  BY <1>1, EmptyLedger
<1>5. OneCertificatePerRound /\ DagCommittedInLedger
  BY <1>1, <1>4 DEF OneCertificatePerRound, DagCommittedInLedger
<1>6. AnchorsRise /\ CommittedOnce /\ LedgerClosed
  BY <1>1 DEF AnchorsRise, CommittedOnce, LedgerClosed
<1> QED BY <1>2, <1>3, <1>5, <1>6, RoundInit DEF FreshInv, ChainInv

\* Every step keeps it.
LEMMA FreshNext == FreshInv /\ [Next]_vars => FreshInv'
<1> SUFFICES ASSUME FreshInv, [Next]_vars
             PROVE  /\ OffInv' /\ NewInv' /\ EmptyInv' /\ AnchorInv' /\ KnownInv' /\ BatchesInv'
                    /\ ChainInv'
  BY RoundNext DEF FreshInv
<1> USE DEF FreshInv
<1>1. CASE UNCHANGED vars
  <2>1. UNCHANGED <<pc, tx_primary_certificate, handler, batch, status, cache, tx_sync_bft_dag,
                    consensus_sender, ledger, run, certificates, gc_round, graph, todo, loading,
                    recent_committed_ids, last_committed_round, propose_lock>>
    BY <1>1 DEF vars, storageVars, dagVars, bftVars, channelVars, primaryVars, taskVars, processVars
  <2>2. OffInv' /\ NewInv' /\ EmptyInv'
    BY <2>1 DEF OffInv, NewInv, EmptyInv, First
  <2>3. AnchorInv'
    BY <2>1, AnchorStays DEF First
  <2>4. Known' = Known
    BY <2>1, SameLedger DEF Known
  <2>5. KnownInv' /\ BatchesInv'
    BY <2>1, <2>4, KnownShrinks DEF First
  <2>6. ChainInv'
    <3>1. OneCertificatePerRound' = OneCertificatePerRound /\ DagCommittedInLedger' = DagCommittedInLedger
      BY <2>1, SameLedger DEF OneCertificatePerRound, Equivocation, DagCommittedInLedger
    <3> QED BY <2>1, <3>1, SameLedger DEF ChainInv
  <2> QED BY <2>2, <2>3, <2>5, <2>6
<1>2. CASE Boot
  BY <1>2, BootFresh
<1>3. CASE ShutDown \/ Crash
  BY <1>3, StopFresh
<1>4. CASE UpStep
  <2>1. status # "down" /\ status' # "down" /\ run' = run /\ run \in Nat
    BY <1>4, UpStays, RunType DEF RoundInv
  <2>2. CASE run > 1
    BY <2>1, <2>2, LaterRuns
  <2>3. CASE ~(run > 1)
    <3>1. First
      BY <2>1, <2>3 DEF First
    <3>2. OffInv' /\ NewInv'
      BY <2>1 DEF OffInv, NewInv
    <3>3. EmptyInv' /\ AnchorInv' /\ KnownInv' /\ BatchesInv' /\ ChainInv'
      BY <1>4, <3>1, BootStepFresh, HandlerFresh, TaskFresh DEF UpStep
    <3> QED BY <3>2, <3>3
  <2> QED BY <2>2, <2>3
<1> QED BY <1>1, <1>2, <1>3, <1>4 DEF Next, UpStep

\* FreshInv is an invariant.
LEMMA Fresh == Spec => []FreshInv
BY FreshInit, FreshNext, PTL DEF Spec

\* A block of a run from an empty ledger and the blocks before it hold every certificate
\* its certificates refer to, down to the GC depth: order_dag_with_dfs fails rather than
\* leave one out, and what it takes for committed is in a block.
THEOREM FirstRunLedgerClosed == Spec => [](run <= 1 => LedgerClosed)
<1>1. FreshInv => (run <= 1 => LedgerClosed)
  BY DEF FreshInv, ChainInv
<1> QED BY <1>1, Fresh, PTL

\* In such a run every anchor is above the one before: commit_leader_certificate walks the
\* leaders from the oldest, and the DAG and the ledger have always committed up to the same
\* round.  (LedgerClosed is stated with the property, whose guard it is, so that the
\* property cannot hold by its guard; likewise in the next two theorems.)
THEOREM FirstRunAnchors == Spec => [](run <= 1 => LedgerClosed /\ AnchorsIncrease)
<1>1. FreshInv => (run <= 1 => LedgerClosed /\ AnchorsIncrease)
  BY DEF FreshInv, ChainInv, AnchorsIncrease
<1> QED BY <1>1, Fresh, PTL

\* No certificate of such a run is in two blocks: order_dag_with_dfs leaves out what
\* the ledger contains, and a leader is above everything the ledger contains.
THEOREM FirstRunCommitsOnce == Spec => [](run <= 1 => LedgerClosed /\ NoDoubleCommit)
<1>1. FreshInv => (run <= 1 => LedgerClosed /\ NoDoubleCommit)
  BY DEF FreshInv, ChainInv, NoDoubleCommit
<1> QED BY <1>1, Fresh, PTL

\* In such a run no validator has two certificates for a round, in the storage, the
\* DAG, the ledger or the proposal cache that ends the run: the test at insertion
\* sees every certificate whose round was not collected.
THEOREM FirstRunNoEquivocation == Spec => [](run <= 1 => LedgerClosed /\ NoEquivocation)
<1>1. FreshInv => (run <= 1 => LedgerClosed /\ NoEquivocation)
  BY DEF FreshInv, ChainInv, NoEquivocation
<1> QED BY <1>1, Fresh, PTL

\* In such a run the DAG takes for committed only what is in a block: it is updated
\* after the ledger has advanced, and the bootup message that is handled late is empty.
THEOREM FirstRunDagBacked == Spec => [](run <= 1 => DagCommittedInLedger)
<1>1. FreshInv => (run <= 1 => DagCommittedInLedger)
  BY DEF FreshInv, ChainInv
<1> QED BY <1>1, Fresh, PTL

-----------------------------------------------------------------------------
(* No even round is passed over, and nothing below a block is left behind.  *)
(* In the first run the proposer alone makes batches, one round after the   *)
(* other, and each on all that the storage has of the round before; so the  *)
(* certificates of validator 0 are linked without a gap, and the walk from  *)
(* a leader down to the last committed round meets every leader between.    *)

Working == First /\ status = "running"

\* The proposer is past storing the batch of validator 0.
Stored == pc["proposer"] \in {"dag", "ask_lite", "fake", "fake_store", "fake_dag"}

HasOwn(C, r) == \E c \in C : c.author = Self /\ c.round = r

\* Bootup of the first run loads nothing.
NothingLoaded ==
    First /\ status # "running" =>
        certificates = {} /\ graph = {} /\ propose_lock = 0 /\ gc_round = 0

\* One task makes batches, all of the round behind the propose lock.
ProposerInv ==
    /\ pc["increment"] = "idle"
    /\ batch["boot"] = {} /\ batch["increment"] = {}
    /\ propose_lock <= current_round
    /\ \A c \in batch["proposer"] : c.round = propose_lock
    /\ tx_primary_certificate["proposer"] \subseteq batch["proposer"]
    /\ pc["proposer"] = "store" => \A c \in batch["proposer"] : c.author = Self
    /\ \A c \in Known : c.round <= propose_lock

\* A certificate refers to all of the round before, and the DAG has every certificate of
\* validator 0 above the last block.
OwnInv ==
    /\ \A s \in Known \cup batch["proposer"] : \A c \in certificates :
          c.round = s.round - 1 => ID(c) \in s.previous
    /\ \A r \in (LatestAnchor + 1)..(propose_lock - 1) : HasOwn(graph, r)
    /\ propose_lock > LatestAnchor
         /\ (Stored \/ \E c \in certificates : c.round = propose_lock)
           => HasOwn(graph \cup tx_primary_certificate["proposer"], propose_lock)

\* The leaders about to be committed are those of all even rounds up to the latest one.
TurnInv ==
    /\ LatestAnchor < propose_lock \/ LatestAnchor = 0
    /\ gc_round <= LatestAnchor
    /\ handler.pc = "check" => handler.round <= propose_lock
    /\ handler.pc = "commit" =>
          /\ handler.round < propose_lock /\ handler.round % 2 = 0
          /\ \A c \in handler.chain : c.round % 2 = 0 /\ c.round <= handler.round
          /\ \A r \in (LatestAnchor + 1)..handler.round :
                r % 2 = 0 => \E c \in handler.chain : c.round = r

SpineInv ==
    /\ NothingLoaded
    /\ Working => ProposerInv /\ OwnInv /\ TurnInv
    /\ run <= 1 => NoAnchorSkipped /\ NothingLeftBehind

-----------------------------------------------------------------------------
(* The walk of commit_leader_certificate.                                   *)

\* Halves of the numbers.
LEMMA Parity ==
    /\ \A k \in Nat : k % 2 \in {0, 1} /\ (k + 1) % 2 = 1 - (k % 2)
    /\ \A k \in Nat : (2 * k) % 2 = 0
    /\ \A k, m \in Nat : k % 2 = 0 /\ m % 2 = 0 /\ k > m => k >= m + 2
<1>1. \A k \in Nat : k % 2 \in {0, 1} /\ (k + 1) % 2 = 1 - (k % 2)
  OBVIOUS
<1>2. \A k \in Nat : (2 * k) % 2 = 0
  OBVIOUS
<1>3. \A k, m \in Nat : k % 2 = 0 /\ m % 2 = 0 /\ k > m => k >= m + 2
  OBVIOUS
<1> QED BY <1>1, <1>2, <1>3

\* A quorum of certificates is not empty.
LEMMA QuorumExists ==
    ASSUME NEW r, IsQuorum(Authors(CertificatesFor(r)))
    PROVE  \E c \in certificates : c.round = r
<1>1. SUFFICES ASSUME CertificatesFor(r) = {} PROVE FALSE
  BY DEF CertificatesFor
<1>2. Authors(CertificatesFor(r)) = {}
  BY <1>1 DEF Authors
<1>3. Cardinality({}) = 0
  BY FS_EmptySet
<1>4. QuorumThreshold \in Int /\ QuorumThreshold > 0
  BY CommitteeAssumption DEF QuorumThreshold, MaxFaulty
<1> QED BY <1>2, <1>3, <1>4 DEF IsQuorum

\* A certificate two rounds up, through one that both know: is_linked.
LEMMA LinkedTwo ==
    ASSUME NEW c \in graph, NEW d \in graph, NEW e, c.round \in Nat, d.round = c.round + 1,
           e.round = c.round + 2, ID(c) \in d.previous, ID(d) \in e.previous
    PROVE  IsLinked(c, e)
<1> DEFINE k == c.round
           Down(C, r) == UNION {{g \in graph : g.round = r /\ ID(g) \in x.previous} : x \in C}
           Level(f) == f = [r \in k..e.round |-> IF r = e.round THEN {e} ELSE Down(f[r + 1], r)]
           one == Down({e}, k + 1)
           f == [r \in k..e.round |-> IF r = e.round THEN {e} ELSE
                                      IF r = k + 1 THEN one ELSE Down(one, k)]
<1>1. d \in one
  OBVIOUS
<1>2. c \in Down(one, k)
  BY <1>1
<1> HIDE DEF Down
<1>3. k \in Nat /\ e.round = k + 2
  OBVIOUS
<1> HIDE DEF k
<1>4. Level(f)
  <2>1. ASSUME NEW r \in k..e.round
        PROVE  f[r] = IF r = e.round THEN {e} ELSE Down(f[r + 1], r)
    <3>1. r = k \/ r = k + 1 \/ r = k + 2
      BY <1>3
    <3>2. k \in k..e.round /\ k + 1 \in k..e.round /\ k + 2 \in k..e.round
      BY <1>3
    <3>3. f[k] = Down(one, k) /\ f[k + 1] = one /\ f[k + 2] = {e}
      BY <1>3, <3>2
    <3>4. (k + 1) + 1 = k + 2 /\ k # e.round /\ k + 1 # e.round
      BY <1>3
    <3> HIDE DEF f
    <3>5. CASE r = k
      BY <3>3, <3>4, <3>5
    <3>6. CASE r = k + 1
      BY <1>3, <3>3, <3>4, <3>6 DEF one
    <3>7. CASE r = k + 2
      BY <1>3, <3>3, <3>7
    <3> QED BY <3>1, <3>5, <3>6, <3>7
  <2> QED BY <2>1
<1> DEFINE g == CHOOSE h : Level(h)
<1>5. Level(g)
  <2>1. \E h : Level(h)
    BY <1>4
  <2> HIDE DEF Level
  <2> QED BY <2>1
<1> HIDE DEF g
<1>6. \A r \in k..e.round : g[r] = IF r = e.round THEN {e} ELSE Down(g[r + 1], r)
  BY <1>5
<1>7. g[k + 2] = {e} /\ g[k + 1] = Down(g[k + 2], k + 1) /\ g[k] = Down(g[k + 1], k)
  <2>1. k \in k..e.round /\ k + 1 \in k..e.round /\ k + 2 \in k..e.round
    BY <1>3
  <2>2. (k + 1) + 1 = k + 2 /\ k # e.round /\ k + 1 # e.round
    BY <1>3
  <2> QED BY <1>3, <1>6, <2>1, <2>2
<1>8. c \in g[k]
  BY <1>2, <1>7 DEF one
<1> QED BY <1>8 DEF IsLinked, g, Down, k


\* The walk from a leader down to the last committed round, if a function is one.
LEMMA WalkIs ==
    ASSUME NEW leader, leader.round \in Nat, last_committed_round \in Nat,
           leader.round > last_committed_round, NEW h,
           h = [r \in (last_committed_round + 1)..leader.round |->
                  IF r >= leader.round
                  THEN leader
                  ELSE LET up == h[r + 1]
                           linked == {c \in LeaderIn(r) : /\ r >= last_committed_round + 1 + 1
                                                          /\ r % 2 = leader.round % 2
                                                          /\ IsLinked(c, up)}
                       IN  IF linked = {} THEN up ELSE CHOOSE c \in linked : TRUE]
    PROVE  LeaderWalk(leader) = h
<1> DEFINE R == leader.round
           low == last_committed_round + 1
           Chosen(r, up) ==
             LET linked == {c \in LeaderIn(r) : /\ r >= low + 1
                                                /\ r % 2 = R % 2
                                                /\ IsLinked(c, up)}
             IN  IF linked = {} THEN up ELSE CHOOSE c \in linked : TRUE
           Walk(f) == f = [r \in low..MaxOf(low, R) |->
                             IF r >= R THEN leader ELSE Chosen(r, f[r + 1])]
           w == LeaderWalk(leader)
           Other == {n \in 0..(R - low) : w[R - n] # h[R - n]}
<1>1. MaxOf(low, R) = R /\ low \in Nat /\ low <= R /\ R \in Nat
  BY DEF MaxOf
<1>2. Walk(h)
  BY <1>1
<1>3. Walk(w)
  BY <1>2 DEF LeaderWalk
<1> HIDE DEF w, Chosen, R, low
<1>4. \A r \in low..R : w[r] = IF r >= R THEN leader ELSE Chosen(r, w[r + 1])
  BY <1>1, <1>3
<1>5. \A r \in low..R : h[r] = IF r >= R THEN leader ELSE Chosen(r, h[r + 1])
  BY <1>1, <1>2
<1>6. Other = {}
  <2>1. SUFFICES ASSUME Other # {} PROVE FALSE
    OBVIOUS
  <2>2. PICK n \in Other : \A m \in Other : n <= m
    <3>1. Other \subseteq Nat
      OBVIOUS
    <3> QED BY <2>1, <3>1, LeastNumber
  <2>3. n \in 0..(R - low) /\ w[R - n] # h[R - n] /\ R - n \in low..R
    BY <1>1, <2>2
  <2>4. CASE n = 0
    <3>1. R - n = R /\ R \in low..R /\ R >= R
      BY <1>1, <2>4
    <3> QED BY <1>4, <1>5, <2>3, <3>1
  <2>5. CASE n # 0
    <3>1. n - 1 \in 0..(R - low) /\ ~(n <= n - 1) /\ R - (n - 1) = (R - n) + 1 /\ ~(R - n >= R)
      BY <1>1, <2>3, <2>5
    <3>2. w[R - (n - 1)] = h[R - (n - 1)]
      BY <2>2, <3>1
    <3> QED BY <1>4, <1>5, <2>3, <3>1, <3>2
  <2> QED BY <2>4, <2>5
<1>7. \A r \in low..R : w[r] = h[r]
  <2>1. ASSUME NEW r \in low..R PROVE w[r] = h[r]
    <3>1. R - r \in 0..(R - low) /\ R - (R - r) = r
      BY <1>1
    <3> QED BY <1>6, <3>1
  <2> QED BY <2>1
<1>8. w = [r \in low..R |-> w[r]] /\ h = [r \in low..R |-> h[r]]
  BY <1>1, <1>2, <1>3
<1> QED BY <1>7, <1>8 DEF w

\* When the certificates of validator 0 are linked without a gap down to the last
\* committed round, the walk from one of an even round meets all of the even rounds.
LEMMA ChainComplete ==
    ASSUME TypeOK, NEW l \in graph, l.author = Self, l.round % 2 = 0,
           last_committed_round % 2 = 0, l.round > last_committed_round,
           \A r \in (last_committed_round + 1)..l.round : HasOwn(graph, r),
           \A c, d \in graph : ~Equivocation(c, d),
           \A c, d \in graph : c.round > last_committed_round /\ d.round = c.round + 1
                                   => ID(c) \in d.previous,
           NEW r \in (last_committed_round + 1)..l.round, r % 2 = 0
    PROVE  \E c \in LeaderChain(l) : c.round = r
<1> DEFINE R == l.round
           low == last_committed_round + 1
           Own(k) == CHOOSE c \in graph : c.author = Self /\ c.round = k
           h == [k \in low..R |-> Own(k + (k % 2))]
           Linked(k, up) == {c \in LeaderIn(k) : k >= low + 1 /\ k % 2 = R % 2 /\ IsLinked(c, up)}
<1>0. last_committed_round \in Nat
  BY DEF TypeOK
<1>1. R \in Nat /\ low \in Nat /\ low <= R /\ low % 2 = 1 /\ R % 2 = 0 /\ r \in low..R
  <2>1. R \in Nat
    BY CertificateFields DEF TypeOK
  <2> QED BY <1>0, <2>1, Parity
<1> HIDE DEF R, low
<1>2. ASSUME NEW k \in low..R
      PROVE  /\ Own(k) \in graph /\ Own(k).author = Self /\ Own(k).round = k
             /\ LeaderIn(k) = {Own(k)}
  <2>1. Own(k) \in graph /\ Own(k).author = Self /\ Own(k).round = k
    BY <1>2 DEF HasOwn, R, low
  <2> HIDE DEF Own
  <2>2. \A c \in LeaderIn(k) : c = Own(k)
    BY <2>1 DEF LeaderIn, Equivocation
  <2> QED BY <2>1, <2>2 DEF LeaderIn
<1> HIDE DEF Own
<1>3. Own(R) = l
  <2>1. R \in low..R
    BY <1>1
  <2> QED BY <1>2, <2>1 DEF Equivocation, R
<1>4. ASSUME NEW k \in low..R
      PROVE  h[k] = IF k >= R THEN l
                    ELSE IF Linked(k, h[k + 1]) = {} THEN h[k + 1]
                         ELSE CHOOSE c \in Linked(k, h[k + 1]) : TRUE
  <2>1. CASE k >= R
    <3>1. k = R /\ k + (k % 2) = R
      BY <1>1, <2>1
    <3> QED BY <1>3, <2>1, <3>1
  <2>2. CASE ~(k >= R) /\ k % 2 # 0
    <3>1. /\ k \in Nat /\ k + 1 \in low..R /\ k % 2 = 1
          /\ k + (k % 2) = (k + 1) + ((k + 1) % 2) /\ k % 2 # R % 2
      BY <1>1, <2>2, Parity
    <3>2. h[k] = h[k + 1]
      BY <3>1
    <3>3. Linked(k, h[k + 1]) = {}
      BY <3>1
    <3> HIDE DEF h, Linked
    <3> QED BY <2>2, <3>2, <3>3
  <2>3. CASE ~(k >= R) /\ k % 2 = 0
    <3>1. /\ k \in Nat /\ k < R
          /\ k >= low + 1 /\ k % 2 = R % 2 /\ k + (k % 2) = k
          /\ k + 1 \in low..R /\ (k + 1) + ((k + 1) % 2) = k + 2
      BY <1>1, <2>3, Parity
    <3>2. k + 2 \in low..R
      BY <1>1, <2>3, Parity
    <3>3. h[k] = Own(k) /\ h[k + 1] = Own(k + 2)
      BY <3>1
    <3>4. IsLinked(Own(k), Own(k + 2))
      <4>1. /\ Own(k) \in graph /\ Own(k + 1) \in graph /\ Own(k + 2) \in graph
            /\ Own(k).round = k /\ Own(k + 1).round = k + 1 /\ Own(k + 2).round = k + 2
        BY <1>2, <3>1, <3>2
      <4>2. k > last_committed_round /\ k + 1 > last_committed_round /\ k + 2 = (k + 1) + 1
        BY <1>0, <3>1 DEF low
      <4>3. ID(Own(k)) \in Own(k + 1).previous /\ ID(Own(k + 1)) \in Own(k + 2).previous
        BY <4>1, <4>2
      <4> QED BY <3>1, <4>1, <4>3, LinkedTwo
    <3>5. Linked(k, h[k + 1]) = {Own(k)}
      BY <1>2, <3>1, <3>3, <3>4
    <3> HIDE DEF h, Linked
    <3> QED BY <2>3, <3>3, <3>5
  <2> QED BY <2>1, <2>2, <2>3
<1>5. h = [k \in low..R |-> IF k >= R THEN l
                            ELSE IF Linked(k, h[k + 1]) = {} THEN h[k + 1]
                                 ELSE CHOOSE c \in Linked(k, h[k + 1]) : TRUE]
  <2> DEFINE G(k) == IF k >= R THEN l
                     ELSE IF Linked(k, h[k + 1]) = {} THEN h[k + 1]
                          ELSE CHOOSE c \in Linked(k, h[k + 1]) : TRUE
  <2>1. h = [k \in low..R |-> h[k]]
    OBVIOUS
  <2>2. \A k \in low..R : h[k] = G(k)
    BY <1>4
  <2> HIDE DEF h, G
  <2>3. h = [k \in low..R |-> G(k)]
    BY <2>1, <2>2
  <2> QED BY <2>3 DEF G
<1>6. LeaderWalk(l) = h
  <2> HIDE DEF h
  <2>1. /\ h = [k \in (last_committed_round + 1)..l.round |->
                  IF k >= l.round
                  THEN l
                  ELSE LET up == h[k + 1]
                           linked == {c \in LeaderIn(k) : /\ k >= last_committed_round + 1 + 1
                                                          /\ k % 2 = l.round % 2
                                                          /\ IsLinked(c, up)}
                       IN  IF linked = {} THEN up ELSE CHOOSE c \in linked : TRUE]
        /\ l.round \in Nat /\ l.round > last_committed_round
    BY <1>1, <1>5 DEF R, low
  <2> QED BY <1>0, <2>1, WalkIs
<1>7. CASE r = R
  BY <1>7 DEF LeaderChain, R
<1>8. CASE r # R
  <2>1. r \in low..R /\ r < R /\ r >= low + 1 /\ r > last_committed_round + 1 /\ r + (r % 2) = r
    <3>1. r # low
      BY <1>1
    <3> QED BY <1>0, <1>1, <1>8, <3>1 DEF low
  <2>2. h[r] = Own(r)
    BY <2>1
  <2>3. Own(r) \in LeaderChain(l)
    BY <1>1, <1>2, <1>6, <2>1, <2>2 DEF LeaderChain, PreviousLeaders, R
  <2> QED BY <1>2, <2>1, <2>3
<1> QED BY <1>7, <1>8


-----------------------------------------------------------------------------
(* The steps of a run.                                                      *)

\* Without a gap, the last anchor is twice the number of blocks.
LEMMA AnchorEven ==
    ASSUME TypeOK, NoAnchorSkipped
    PROVE  /\ Len(ledger) \in Nat /\ LatestAnchor \in Nat
           /\ LatestAnchor = 2 * Len(ledger) /\ LatestAnchor % 2 = 0
<1>1. Len(ledger) \in Nat
  BY DEF TypeOK
<1>2. LatestAnchor = 2 * Len(ledger)
  <2>1. CASE ledger = << >>
    BY <2>1 DEF LatestAnchor
  <2>2. CASE ledger # << >>
    <3>1. Len(ledger) \in 1..Len(ledger)
      BY <1>1, <2>2 DEF TypeOK
    <3> QED BY <2>2, <3>1 DEF LatestAnchor, NoAnchorSkipped
  <2> QED BY <2>1, <2>2
<1>3. LatestAnchor % 2 = 0
  BY <1>1, <1>2, Parity
<1> QED BY <1>1, <1>2, <1>3

\* The invariant while the first run is running, with the types of what it is about.
LEMMA SpineFacts ==
    ASSUME FreshInv, SpineInv, Working
    PROVE  /\ TypeOK /\ First /\ ProposerInv /\ OwnInv /\ TurnInv
           /\ NoAnchorSkipped /\ NothingLeftBehind
           /\ propose_lock \in Nat /\ current_round \in Nat /\ gc_round \in Nat
           /\ LatestAnchor \in Nat /\ last_committed_round = LatestAnchor
           /\ \A c \in Known \cup batch["proposer"] : c \in Certificate /\ c.round \in Nat
           /\ \A t \in Task : t # "proposer" =>
                  pc[t] \in {"idle", "done"} /\ tx_primary_certificate[t] = {} /\ batch[t] = {}
<1>1. TypeOK /\ First /\ run <= 1
  BY DEF FreshInv, RoundInv, Working, First
<1>2. ProposerInv /\ OwnInv /\ TurnInv /\ NoAnchorSkipped /\ NothingLeftBehind
  BY <1>1 DEF SpineInv
<1>3. propose_lock \in Nat /\ current_round \in Nat /\ gc_round \in Nat /\ LatestAnchor \in Nat
  BY <1>1, LatestAnchorType DEF TypeOK
<1>4. last_committed_round = LatestAnchor
  BY <1>1 DEF FreshInv, AnchorInv
<1>5. \A c \in Known \cup batch["proposer"] : c \in Certificate /\ c.round \in Nat
  <2>1. batch["proposer"] \subseteq Certificate
    BY <1>1 DEF TypeOK, Task
  <2> QED BY <1>1, <2>1, KnownType, CertificateFields
<1>6. ASSUME NEW t \in Task, t # "proposer"
      PROVE  pc[t] \in {"idle", "done"} /\ tx_primary_certificate[t] = {} /\ batch[t] = {}
  <2>1. t \in {"boot", "increment"}
    BY <1>6 DEF Task
  <2>2. pc[t] \in {"idle", "done"} /\ batch[t] = {}
    BY <1>2, <2>1 DEF Working, FreshInv, RoundInv, PhaseInv, ProposerInv
  <2> QED BY <2>2, FreeProtocol, FreeLabels DEF FreshInv, RoundInv
<1> QED BY <1>1, <1>2, <1>3, <1>4, <1>5, <1>6

\* What the invariant says while the first run is running.
Spine == ProposerInv /\ OwnInv /\ TurnInv /\ NoAnchorSkipped /\ NothingLeftBehind

\* A step that makes no batch and no block, stores nothing, and keeps in the DAG what
\* validator 0 has there above the last block.
LEMMA SpineStays ==
    ASSUME FreshInv, SpineInv, Working,
           UNCHANGED <<batch, propose_lock, ledger>>,
           pc'["increment"] = pc["increment"],
           pc'["proposer"] = "store" => pc["proposer"] = "store",
           Stored' => Stored,
           current_round' \in Nat, current_round' >= current_round,
           certificates' \subseteq certificates, Known' \subseteq Known,
           UNCHANGED tx_primary_certificate,
           \A r \in Nat : r > LatestAnchor /\ HasOwn(graph, r) => HasOwn(graph', r),
           gc_round' <= LatestAnchor,
           \/ UNCHANGED handler
           \/ handler'.pc = "idle"
    PROVE  Spine'
<1>1. /\ TypeOK /\ ProposerInv /\ OwnInv /\ TurnInv /\ NoAnchorSkipped /\ NothingLeftBehind
      /\ propose_lock \in Nat /\ current_round \in Nat /\ LatestAnchor \in Nat
  BY SpineFacts
<1>2. LatestAnchor' = LatestAnchor /\ LedgerCertificates' = LedgerCertificates
  BY SameLedger
<1>3. ProposerInv'
  BY <1>1 DEF ProposerInv
<1>4. OwnInv'
  <2>1. \A s \in Known' \cup batch'["proposer"] : \A c \in certificates' :
           c.round = s.round - 1 => ID(c) \in s.previous
    BY <1>1 DEF OwnInv
  <2>2. \A r \in (LatestAnchor' + 1)..(propose_lock' - 1) : HasOwn(graph', r)
    <3>1. ASSUME NEW r \in (LatestAnchor + 1)..(propose_lock - 1) PROVE HasOwn(graph', r)
      <4>1. r \in Nat /\ r > LatestAnchor /\ HasOwn(graph, r)
        BY <1>1 DEF OwnInv
      <4> QED BY <4>1
    <3> QED BY <1>2, <3>1
  <2>3. ASSUME propose_lock > LatestAnchor, Stored' \/ \E c \in certificates' : c.round = propose_lock
        PROVE  HasOwn(graph' \cup tx_primary_certificate'["proposer"], propose_lock)
    <3>1. HasOwn(graph \cup tx_primary_certificate["proposer"], propose_lock)
      BY <1>1, <2>3 DEF OwnInv
    <3>2. HasOwn(graph, propose_lock) => HasOwn(graph', propose_lock)
      BY <1>1, <2>3
    <3> QED BY <3>1, <3>2 DEF HasOwn
  <2> QED BY <1>2, <2>1, <2>2, <2>3 DEF OwnInv
<1>5. TurnInv'
  BY <1>1, <1>2 DEF TurnInv
<1>6. NoAnchorSkipped' /\ NothingLeftBehind'
  BY <1>1, <1>2 DEF NoAnchorSkipped, NothingLeftBehind
<1> QED BY <1>3, <1>4, <1>5, <1>6 DEF Spine

\* A batch is made on top of the round before, which validator 0 has completed.
LEMMA SpineProposes ==
    ASSUME FreshInv, SpineInv, Working, LiteProposes("proposer")
    PROVE  Spine'
<1> USE DEF storageVars, dagVars, bftVars, channelVars
<1> DEFINE b == NewCertificate(Self, current_round)
<1>0. "proposer" \in Task /\ "boot" \in Task /\ "increment" \in Task
  BY DEF Task
<1>1. /\ TypeOK /\ ProposerInv /\ OwnInv /\ TurnInv /\ NoAnchorSkipped /\ NothingLeftBehind
      /\ propose_lock \in Nat /\ current_round \in Nat /\ LatestAnchor \in Nat
      /\ pc \in [Task -> Label] /\ batch \in [Task -> SUBSET Certificate]
      /\ \A c \in Known : c.round \in Nat
  BY SpineFacts DEF TypeOK
<1>2. /\ pc["proposer"] = "enter" /\ current_round > propose_lock /\ PreviousReady
      /\ propose_lock' = current_round
      /\ batch' = [batch EXCEPT !["proposer"] = {b}] /\ pc' = [pc EXCEPT !["proposer"] = "store"]
      /\ UNCHANGED <<current_round, gc_round, certificates, graph, handler,
                     tx_primary_certificate, ledger>>
  BY DEF LiteProposes, Goto
<1>3. /\ batch'["proposer"] = {b} /\ batch'["boot"] = {} /\ batch'["increment"] = {}
      /\ pc'["proposer"] = "store" /\ pc'["increment"] = "idle" /\ ~Stored'
  BY <1>0, <1>1, <1>2 DEF ProposerInv, Stored
<1>4. b.author = Self /\ b.round = current_round /\ b.previous = IDs(CertificatesFor(current_round - 1))
  BY DEF NewCertificate
<1> HIDE DEF b
<1>5. tx_primary_certificate["proposer"] = {}
  BY <1>0, <1>2, FreeProtocol, FreeLabels DEF FreshInv, RoundInv
<1>6. Known' = Known /\ LatestAnchor' = LatestAnchor /\ LedgerCertificates' = LedgerCertificates
  BY <1>2, SameLedger DEF Known
<1>7. \A c \in certificates : c \in Known /\ c.round \in Nat /\ c.round <= propose_lock
  BY <1>1, KnownMember DEF ProposerInv
<1>8. /\ current_round = propose_lock + 1
      /\ propose_lock = 0 \/ \E c \in certificates : c.round = propose_lock
  <2>1. CASE current_round = 1
    BY <1>1, <1>2, <2>1
  <2>2. CASE current_round # 1
    <3>1. PICK c \in certificates : c.round = current_round - 1
      BY <1>2, <2>2, QuorumExists DEF PreviousReady
    <3> QED BY <1>1, <1>2, <1>7, <3>1
  <2> QED BY <2>1, <2>2
<1>9. ProposerInv'
  <2>1. \A c \in Known' : c.round <= propose_lock'
    BY <1>1, <1>2, <1>6 DEF ProposerInv
  <2> QED BY <1>1, <1>2, <1>3, <1>4, <1>5, <2>1 DEF ProposerInv
<1>10. OwnInv'
  <2>1. \A s \in Known' \cup batch'["proposer"] : \A c \in certificates' :
           c.round = s.round - 1 => ID(c) \in s.previous
    <3>1. \A c \in certificates : c.round = b.round - 1 => ID(c) \in b.previous
      BY <1>4 DEF IDs, CertificatesFor
    <3> QED BY <1>1, <1>2, <1>3, <1>6, <3>1 DEF OwnInv
  <2>2. ASSUME NEW r \in (LatestAnchor + 1)..(propose_lock' - 1) PROVE HasOwn(graph', r)
    <3>1. r \in (LatestAnchor + 1)..propose_lock
      BY <1>1, <1>2, <1>8
    <3>2. CASE r # propose_lock
      BY <1>1, <1>2, <3>1, <3>2 DEF OwnInv
    <3>3. CASE r = propose_lock
      BY <1>1, <1>2, <1>5, <1>8, <3>1, <3>3 DEF OwnInv, HasOwn
    <3> QED BY <3>2, <3>3
  <2>3. ~\E c \in certificates' : c.round = propose_lock'
    BY <1>1, <1>2, <1>7
  <2> QED BY <1>3, <1>6, <2>1, <2>2, <2>3 DEF OwnInv
<1>11. TurnInv'
  <2>1. /\ LatestAnchor' < propose_lock' \/ LatestAnchor' = 0
        /\ handler'.pc = "check" => handler'.round <= propose_lock'
        /\ handler'.pc = "commit" => handler'.round < propose_lock'
    <3>1. handler.round \in Nat
      BY <1>1 DEF TypeOK
    <3> QED BY <1>1, <1>2, <1>6, <3>1 DEF TurnInv
  <2> QED BY <1>1, <1>2, <1>6, <2>1 DEF TurnInv
<1>12. NoAnchorSkipped' /\ NothingLeftBehind'
  BY <1>1, <1>2, <1>6 DEF NoAnchorSkipped, NothingLeftBehind
<1> QED BY <1>9, <1>10, <1>11, <1>12 DEF Spine


\* A batch is forged for another validator, on the same round.
LEMMA SpineForges ==
    ASSUME FreshInv, SpineInv, Working, FakeProposal("proposer"), ~UNCHANGED batch
    PROVE  Spine'
<1> USE DEF storageVars, dagVars, bftVars, channelVars
<1>0. "proposer" \in Task /\ "boot" \in Task /\ "increment" \in Task
  BY DEF Task
<1>1. /\ TypeOK /\ ProposerInv /\ OwnInv /\ TurnInv /\ NoAnchorSkipped /\ NothingLeftBehind
      /\ pc \in [Task -> Label] /\ batch \in [Task -> SUBSET Certificate]
  BY SpineFacts DEF TypeOK
<1>2. PICK c \in batch["proposer"] :
         /\ batch' = [batch EXCEPT !["proposer"] = {NewCertificate(vid["proposer"], c.round)}]
         /\ pc' = [pc EXCEPT !["proposer"] = "fake_store"]
  BY DEF FakeProposal, Goto
<1> DEFINE b == NewCertificate(vid["proposer"], c.round)
<1>3. /\ pc["proposer"] = "fake"
      /\ UNCHANGED <<current_round, gc_round, certificates, graph, handler, propose_lock,
                     tx_primary_certificate, ledger>>
  BY DEF FakeProposal
<1>4. /\ batch'["proposer"] = {b} /\ batch'["boot"] = {} /\ batch'["increment"] = {}
      /\ pc'["proposer"] = "fake_store" /\ pc'["increment"] = "idle" /\ Stored /\ Stored'
  BY <1>0, <1>1, <1>2, <1>3 DEF ProposerInv, Stored
<1>5. b.round = c.round /\ b.previous = IDs(CertificatesFor(c.round - 1))
  BY DEF NewCertificate
<1> HIDE DEF b
<1>6. tx_primary_certificate["proposer"] = {}
  BY <1>0, <1>3, FreeProtocol, FreeLabels DEF FreshInv, RoundInv
<1>7. Known' = Known /\ LatestAnchor' = LatestAnchor /\ LedgerCertificates' = LedgerCertificates
  BY <1>3, SameLedger DEF Known
<1>8. ProposerInv'
  BY <1>1, <1>3, <1>4, <1>5, <1>6, <1>7 DEF ProposerInv
<1>9. OwnInv'
  <2>1. \A s \in Known' \cup batch'["proposer"] : \A d \in certificates' :
           d.round = s.round - 1 => ID(d) \in s.previous
    <3>1. \A d \in certificates : d.round = b.round - 1 => ID(d) \in b.previous
      BY <1>5 DEF IDs, CertificatesFor
    <3> QED BY <1>1, <1>3, <1>4, <1>7, <3>1 DEF OwnInv
  <2> QED BY <1>1, <1>3, <1>4, <1>7, <2>1 DEF OwnInv
<1>10. TurnInv'
  BY <1>1, <1>3, <1>7 DEF TurnInv
<1>11. NoAnchorSkipped' /\ NothingLeftBehind'
  BY <1>1, <1>3, <1>7 DEF NoAnchorSkipped, NothingLeftBehind
<1> QED BY <1>8, <1>9, <1>10, <1>11 DEF Spine

\* A batch is stored and sent to the BFT, or only stored.
LEMMA SpineStores ==
    ASSUME FreshInv, SpineInv, Working, NEW b \in batch["proposer"],
           certificates' = certificates \cup {b},
           pc["proposer"] \in {"store", "fake_store"}, pc'["proposer"] # "store",
           pc'["increment"] = pc["increment"],
           \/ tx_primary_certificate' = [tx_primary_certificate EXCEPT !["proposer"] = {b}]
           \/ pc["proposer"] = "fake_store" /\ UNCHANGED tx_primary_certificate,
           UNCHANGED <<batch, propose_lock, ledger, graph, handler, current_round, gc_round>>
    PROVE  Spine'
<1>0. "proposer" \in Task /\ "boot" \in Task /\ "increment" \in Task
  BY DEF Task
<1>1. /\ TypeOK /\ ProposerInv /\ OwnInv /\ TurnInv /\ NoAnchorSkipped /\ NothingLeftBehind
      /\ propose_lock \in Nat /\ LatestAnchor \in Nat /\ b.round = propose_lock
      /\ tx_primary_certificate \in [Task -> SUBSET Certificate]
      /\ \A c \in Known \cup batch["proposer"] : c.round \in Nat
  BY SpineFacts DEF TypeOK, ProposerInv
<1>2. LatestAnchor' = LatestAnchor /\ LedgerCertificates' = LedgerCertificates
  BY SameLedger
<1>3. tx_primary_certificate["proposer"] = {}
  BY <1>0, FreeProtocol, FreeLabels DEF FreshInv, RoundInv
<1>4. /\ tx_primary_certificate'["proposer"] \subseteq {b}
      /\ pc["proposer"] = "store" => tx_primary_certificate'["proposer"] = {b}
      /\ \A t \in Task : tx_primary_certificate'[t] \subseteq tx_primary_certificate[t] \cup {b}
  BY <1>0, <1>1, <1>3
<1>5. Known' \subseteq Known \cup {b}
  BY <1>2, <1>4, KnownMember
<1>6. ProposerInv'
  BY <1>1, <1>4, <1>5 DEF ProposerInv
<1>7. OwnInv'
  <2>1. ASSUME NEW s \in Known' \cup batch'["proposer"], NEW c \in certificates',
               c.round = s.round - 1
        PROVE  ID(c) \in s.previous
    <3>1. s \in Known \cup batch["proposer"] /\ s.round \in Nat /\ s.round <= propose_lock
      BY <1>1, <1>5 DEF ProposerInv
    <3>2. c # b
      BY <1>1, <2>1, <3>1
    <3> QED BY <1>1, <2>1, <3>1, <3>2 DEF OwnInv
  <2>2. ASSUME propose_lock > LatestAnchor
        PROVE  HasOwn(graph \cup tx_primary_certificate'["proposer"], propose_lock)
    <3>1. CASE pc["proposer"] = "store"
      BY <1>1, <1>4, <3>1 DEF ProposerInv, HasOwn
    <3>2. CASE pc["proposer"] = "fake_store"
      BY <1>1, <1>3, <2>2, <3>2 DEF OwnInv, Stored, HasOwn
    <3> QED BY <3>1, <3>2
  <2> QED BY <1>1, <1>2, <2>1, <2>2 DEF OwnInv
<1>8. TurnInv'
  BY <1>1, <1>2 DEF TurnInv
<1>9. NoAnchorSkipped' /\ NothingLeftBehind'
  <2>1. ~(b.round < LatestAnchor)
    BY <1>1 DEF TurnInv
  <2> QED BY <1>1, <1>2, <2>1 DEF NoAnchorSkipped, NothingLeftBehind
<1> QED BY <1>6, <1>7, <1>8, <1>9 DEF Spine

\* A step of a task: it is the proposer.
LEMMA SpineTask ==
    ASSUME FreshInv, SpineInv, Working, NEW t \in Task, TaskStep(t)
    PROVE  Spine'
<1> USE DEF storageVars, dagVars, bftVars, channelVars, Return
<1>0. "proposer" \in Task /\ "boot" \in Task /\ "increment" \in Task
  BY DEF Task
<1>1. /\ TypeOK /\ TurnInv /\ gc_round <= LatestAnchor
      /\ pc \in [Task -> Label] /\ tx_primary_certificate \in [Task -> SUBSET Certificate]
  BY SpineFacts DEF TypeOK, TurnInv
<1>2. t = "proposer"
  <2>1. pc[t] \notin {"idle", "done"}
    BY DEF TaskStep, IncrementAnswered, LiteSkips, LiteTooSoon, LiteAsks, LiteAsked,
         LiteProposes, LiteStores, LiteFails, LiteInDag, LiteDone, FakeProposal,
         FakeStores, FakeFails, FakeInDag
  <2> QED BY <2>1, SpineFacts
<1>3. /\ UNCHANGED <<graph, handler, ledger, gc_round>>
      /\ pc'["increment"] = pc["increment"]
      /\ current_round' \in Nat /\ current_round' >= current_round
  BY <1>0, <1>1, <1>2, TaskFrame
<1>4. ReturnLabel("proposer", TRUE) = "idle" /\ ReturnLabel("proposer", FALSE) = "idle"
  BY DEF ReturnLabel
<1>5. ASSUME UNCHANGED <<certificates, tx_primary_certificate, batch, propose_lock>>,
             pc'["proposer"] # "store", Stored' => Stored
      PROVE  Spine'
  <2>1. Known' = Known
    BY <1>3, <1>5, SameLedger DEF Known
  <2> QED BY <1>1, <1>3, <1>5, <2>1, SpineStays
<1>6. CASE \/ IncrementAnswered(t) \/ LiteSkips(t) \/ LiteTooSoon(t) \/ LiteAsks(t) \/ LiteAsked(t)
           \/ LiteFails(t) \/ FakeFails(t)
  <2>1. \E p \in {"idle", "enter", "ask_skip"} : Goto("proposer", p)
    BY <1>2, <1>4, <1>6 DEF IncrementAnswered, LiteSkips, LiteTooSoon, LiteAsks, LiteAsked,
          LiteFails, FakeFails
  <2>2. pc'["proposer"] # "store" /\ ~Stored'
    BY <1>0, <1>1, <2>1 DEF Goto, Stored
  <2>3. UNCHANGED <<certificates, tx_primary_certificate, batch, propose_lock>>
    BY <1>6 DEF IncrementAnswered, LiteSkips, LiteTooSoon, LiteAsks, LiteAsked,
          LiteFails, FakeFails
  <2> QED BY <1>5, <2>2, <2>3
<1>7. CASE LiteInDag(t) \/ LiteDone(t) \/ FakeInDag(t)
  <2>1. \E p \in {"idle", "ask_lite", "fake"} : Goto("proposer", p)
    BY <1>2, <1>4, <1>7 DEF LiteInDag, LiteDone, FakeInDag
  <2>2. pc'["proposer"] # "store" /\ Stored
    BY <1>0, <1>1, <1>2, <1>7, <2>1 DEF Goto, Stored, LiteInDag, LiteDone, FakeInDag
  <2>3. UNCHANGED <<certificates, tx_primary_certificate, batch, propose_lock>>
    BY <1>7 DEF LiteInDag, LiteDone, FakeInDag
  <2> QED BY <1>5, <2>2, <2>3
<1>8. CASE LiteProposes(t)
  BY <1>2, <1>8, SpineProposes
<1>9. CASE FakeProposal(t)
  <2>1. CASE ~UNCHANGED batch
    BY <1>2, <1>9, <2>1, SpineForges
  <2>2. CASE UNCHANGED batch
    <3>1. UNCHANGED <<certificates, tx_primary_certificate, propose_lock>>
      BY <1>9 DEF FakeProposal
    <3>2. pc["proposer"] = "fake" /\ \E p \in {"idle", "fake_store"} : Goto("proposer", p)
      BY <1>2, <1>4, <1>9 DEF FakeProposal
    <3>3. pc'["proposer"] # "store" /\ Stored
      BY <1>0, <1>1, <3>2 DEF Goto, Stored
    <3> QED BY <1>5, <2>2, <3>1, <3>3
  <2> QED BY <2>1, <2>2
<1>10. CASE LiteStores(t) \/ FakeStores(t)
  <2>1. /\ pc["proposer"] \in {"store", "fake_store"}
        /\ UNCHANGED <<batch, propose_lock, current_round>>
    BY <1>2, <1>10 DEF LiteStores, FakeStores
  <2>2. PICK b \in batch["proposer"] :
          /\ InsertCertificate(b)
          /\ \/ ~CanInsert(b) /\ UNCHANGED tx_primary_certificate /\ Goto("proposer", "idle")
             \/ /\ CanInsert(b)
                /\ \E p \in {"dag", "fake", "fake_dag"} : Goto("proposer", p)
                /\ \/ Send("proposer", b)
                   \/ pc["proposer"] = "fake_store" /\ UNCHANGED tx_primary_certificate
    BY <1>2, <1>4, <1>10 DEF LiteStores, FakeStores
  <2>3. CASE ~CanInsert(b)
    <3>1. pc'["proposer"] # "store" /\ ~Stored'
      BY <1>0, <1>1, <2>2, <2>3 DEF Goto, Stored
    <3> QED BY <1>5, <2>1, <2>2, <2>3, <3>1 DEF InsertCertificate
  <2>4. CASE CanInsert(b)
    <3>1. pc'["proposer"] # "store"
      BY <1>0, <1>1, <2>2, <2>4 DEF Goto
    <3> QED BY <1>3, <2>1, <2>2, <2>4, <3>1, SpineStores DEF InsertCertificate, Send
  <2> QED BY <2>3, <2>4
<1> QED BY <1>6, <1>7, <1>8, <1>9, <1>10 DEF TaskStep

\* The proposer wakes up, a shutdown is requested; the other loop never finds a quorum
\* in a round that the proposer has not reached.
LEMMA SpineLoops ==
    ASSUME FreshInv, SpineInv, Working, SetShutdown \/ ProposerWakes \/ IncrementWakes
    PROVE  Spine'
<1> USE DEF storageVars, dagVars, bftVars, channelVars, primaryVars, taskVars
<1>0. "proposer" \in Task /\ "increment" \in Task
  BY DEF Task
<1>1. /\ TypeOK /\ ProposerInv /\ TurnInv /\ gc_round <= LatestAnchor
      /\ pc \in [Task -> Label] /\ propose_lock \in Nat /\ current_round \in Nat
      /\ \A c \in Known : c.round \in Nat
  BY SpineFacts DEF TypeOK, TurnInv
<1>2. ~IncrementWakes
  <2>1. SUFFICES ASSUME IncrementWakes PROVE FALSE
    OBVIOUS
  <2>2. PICK c \in certificates : c.round = current_round + 1
    BY <2>1, QuorumExists DEF IncrementWakes
  <2>3. c \in Known
    BY KnownMember
  <2> QED BY <1>1, <2>2, <2>3 DEF ProposerInv
<1>3. UNCHANGED <<certificates, graph, handler, ledger, gc_round, current_round, batch,
                  propose_lock, tx_primary_certificate>>
  BY <1>2 DEF SetShutdown, ProposerWakes
<1>4. Known' = Known
  BY <1>3, SameLedger DEF Known
<1>5. UNCHANGED pc \/ pc' = [pc EXCEPT !["proposer"] = "enter"]
  BY <1>2 DEF SetShutdown, ProposerWakes, Goto
<1>6. /\ pc'["increment"] = pc["increment"]
      /\ Stored' => Stored
      /\ pc'["proposer"] = "store" => pc["proposer"] = "store"
  BY <1>0, <1>1, <1>5 DEF Stored
<1> QED BY <1>1, <1>3, <1>4, <1>6, SpineStays


\* A certificate enters the DAG.  It is of the latest round, and no block has it.
LEMMA SpineCertificate ==
    ASSUME FreshInv, SpineInv, Working, NEW t \in Task, CertificateHandler(t)
    PROVE  Spine'
<1> USE DEF storageVars, primaryVars, taskVars
<1>0. "proposer" \in Task
  BY DEF Task
<1>1. /\ TypeOK /\ First /\ ProposerInv /\ OwnInv /\ TurnInv /\ NoAnchorSkipped /\ NothingLeftBehind
      /\ propose_lock \in Nat /\ LatestAnchor \in Nat
      /\ tx_primary_certificate \in [Task -> SUBSET Certificate]
  BY SpineFacts DEF TypeOK
<1>2. PICK c \in tx_primary_certificate[t] :
         /\ graph' = DagInserted(c)
         /\ handler' = [Idle EXCEPT !.pc = "check", !.from = {t}, !.round = c.round]
  BY DEF CertificateHandler, UpdateDag
<1>3. /\ tx_primary_certificate' = [tx_primary_certificate EXCEPT ![t] = {}]
      /\ UNCHANGED <<certificates, gc_round, current_round, ledger, pc, batch, propose_lock>>
  BY DEF CertificateHandler, UpdateDag
<1>4. t = "proposer"
  BY <1>2, SpineFacts
<1>5. c.round = propose_lock /\ tx_primary_certificate["proposer"] = {c}
  <2>1. c \in batch["proposer"] /\ tx_primary_certificate["proposer"] \subseteq batch["proposer"]
    BY <1>1, <1>2, <1>4 DEF ProposerInv
  <2>2. \A d \in batch["proposer"] : d.round = propose_lock /\ d = c
    BY <1>0, <1>1, <2>1 DEF ProposerInv, FreshInv, BatchesInv
  <2> QED BY <1>2, <1>4, <2>1, <2>2
<1>6. handler'.pc = "check" /\ handler'.round = propose_lock /\ handler'.chain = {}
  BY <1>2, <1>5 DEF Idle
<1>7. LatestAnchor' = LatestAnchor /\ LedgerCertificates' = LedgerCertificates
  BY <1>3, SameLedger
<1>8. /\ \A u \in Task : tx_primary_certificate'[u] \subseteq tx_primary_certificate[u]
      /\ tx_primary_certificate'["proposer"] = {}
  BY <1>1, <1>3, <1>4
<1>9. Known' \subseteq Known
  <2>1. graph' \subseteq graph \cup {c}
    BY <1>2, DagInsertedSubset
  <2> QED BY <1>2, <1>3, <1>6, <1>7, <1>8, <2>1, KnownMember
<1>10. ProposerInv'
  BY <1>1, <1>3, <1>8, <1>9 DEF ProposerInv
<1>11. OwnInv'
  <2>1. \A s \in Known' \cup batch'["proposer"] : \A d \in certificates' :
           d.round = s.round - 1 => ID(d) \in s.previous
    BY <1>1, <1>3, <1>9 DEF OwnInv
  <2>2. ASSUME NEW r, r # propose_lock, HasOwn(graph, r) PROVE HasOwn(graph', r)
    BY <1>2, <1>5, <2>2 DEF HasOwn, DagInserted
  <2>3. ASSUME propose_lock > LatestAnchor,
               HasOwn(graph \cup tx_primary_certificate["proposer"], propose_lock)
        PROVE  HasOwn(graph', propose_lock)
    <3>1. ID(c) \notin recent_committed_ids
      <4>1. SUFFICES ASSUME ID(c) \in recent_committed_ids PROVE FALSE
        OBVIOUS
      <4>2. PICK d \in LedgerCertificates : ID(d) = ID(c)
        BY <1>1, <4>1 DEF FreshInv, AnchorInv, DagCommittedInLedger, IDs
      <4>3. d.round = propose_lock /\ d.round <= LatestAnchor
        BY <1>1, <1>5, <4>2 DEF ID, FreshInv, AnchorInv
      <4> QED BY <1>1, <2>3, <4>3
    <3>2. graph' = {g \in graph : ~(g.round = c.round /\ g.author = c.author)} \cup {c}
      BY <1>2, <3>1 DEF DagInserted
    <3> QED BY <1>5, <2>3, <3>2 DEF HasOwn
  <2>4. \A r \in (LatestAnchor + 1)..(propose_lock - 1) : HasOwn(graph', r)
    <3>1. ASSUME NEW r \in (LatestAnchor + 1)..(propose_lock - 1) PROVE HasOwn(graph', r)
      <4>1. r # propose_lock /\ HasOwn(graph, r)
        BY <1>1 DEF OwnInv
      <4> QED BY <2>2, <4>1
    <3> QED BY <3>1
  <2>5. Stored' = Stored
    BY <1>3 DEF Stored
  <2>6. propose_lock > LatestAnchor /\ (Stored \/ \E d \in certificates : d.round = propose_lock)
          => HasOwn(graph' \cup tx_primary_certificate'["proposer"], propose_lock)
    BY <1>1, <2>3 DEF OwnInv, HasOwn
  <2> QED BY <1>3, <1>7, <2>1, <2>4, <2>5, <2>6 DEF OwnInv
<1>12. TurnInv'
  BY <1>1, <1>3, <1>6, <1>7 DEF TurnInv
<1>13. NoAnchorSkipped' /\ NothingLeftBehind'
  BY <1>1, <1>3, <1>7 DEF NoAnchorSkipped, NothingLeftBehind
<1> QED BY <1>10, <1>11, <1>12, <1>13 DEF Spine

\* What the DAG has above the last block is in the storage.
LEMMA GraphStored ==
    ASSUME FreshInv, SpineInv, Working, NEW c \in graph, c.round > LatestAnchor
    PROVE  c \in certificates
<1>1. First /\ TurnInv /\ gc_round \in Nat /\ LatestAnchor \in Nat
  BY SpineFacts
<1>2. c \in Known
  BY KnownMember
<1>3. c.round \in Nat
  BY <1>2, SpineFacts
<1>4. c.round > gc_round
  BY <1>1, <1>3 DEF TurnInv
<1> QED BY <1>1, <1>2, <1>4 DEF FreshInv, KnownInv

\* A leader is ready: with it, the walk finds those of all even rounds above the last
\* block.
LEMMA SpineCheck ==
    ASSUME FreshInv, SpineInv, Working, NEW l \in ReadyLeader, handler.pc = "check",
           handler' = [handler EXCEPT !.pc = "commit", !.round = l.round,
                                      !.chain = LeaderChain(l)],
           UNCHANGED <<storageVars, dagVars, ledger, batch, propose_lock, pc,
                       tx_primary_certificate>>
    PROVE  Spine'
<1> USE DEF storageVars, dagVars
<1>1. /\ TypeOK /\ First /\ ProposerInv /\ OwnInv /\ TurnInv /\ NoAnchorSkipped /\ NothingLeftBehind
      /\ propose_lock \in Nat /\ LatestAnchor \in Nat /\ last_committed_round = LatestAnchor
      /\ handler \in [pc : {"idle", "check", "commit"}, from : SUBSET Task, round : Nat,
                      chain : SUBSET Certificate]
  BY SpineFacts DEF TypeOK
<1>2. handler'.pc = "commit" /\ handler'.round = l.round /\ handler'.chain = LeaderChain(l)
  BY <1>1
<1>3. /\ l \in graph /\ l.author = Self /\ l.round = handler.round - 1 /\ l.round % 2 = 0
      /\ l.round > LatestAnchor /\ l.round \in Nat /\ l.round < propose_lock
  <2>1. /\ l \in graph /\ l.author = Self /\ l.round = handler.round - 1 /\ l.round % 2 = 0
        /\ ~(l.round <= last_committed_round)
    BY DEF ReadyLeader, LeaderIn, CommitRound
  <2>2. l.round \in Nat
    BY <1>1, <2>1, CertificateFields DEF TypeOK
  <2>3. handler.round <= propose_lock /\ handler.round \in Nat
    BY <1>1 DEF TurnInv
  <2> QED BY <1>1, <2>1, <2>2, <2>3
<1>4. LatestAnchor % 2 = 0
  BY <1>1, AnchorEven
<1>5. ASSUME NEW r \in (LatestAnchor + 1)..l.round PROVE HasOwn(graph, r)
  <2>1. r \in (LatestAnchor + 1)..(propose_lock - 1)
    BY <1>1, <1>3
  <2> QED BY <1>1, <2>1 DEF OwnInv
<1>6. \A c, d \in graph : ~Equivocation(c, d)
  BY <1>1, KnownMember DEF FreshInv, KnownInv
<1>7. ASSUME NEW c \in graph, NEW d \in graph, c.round > LatestAnchor, d.round = c.round + 1
      PROVE  ID(c) \in d.previous
  <2>1. c \in certificates
    BY <1>7, GraphStored
  <2>2. c.round \in Nat /\ d \in Known
    BY <1>1, CertificateFields, KnownMember DEF TypeOK
  <2>3. c.round = d.round - 1
    BY <1>7, <2>2
  <2> QED BY <1>1, <2>1, <2>2, <2>3 DEF OwnInv
<1>8. ASSUME NEW r \in (LatestAnchor + 1)..l.round, r % 2 = 0
      PROVE  \E c \in LeaderChain(l) : c.round = r
  BY <1>1, <1>3, <1>4, <1>5, <1>6, <1>7, <1>8, ChainComplete
<1>9. ASSUME NEW c \in LeaderChain(l) PROVE c.round % 2 = 0 /\ c.round <= l.round
  <2>1. c = l \/ (c.round < l.round /\ c.round % 2 = l.round % 2)
    BY DEF LeaderChain, PreviousLeaders
  <2>2. c.round \in Nat
    BY <1>1, LeaderChainSubset, CertificateFields, <1>3 DEF TypeOK
  <2> QED BY <1>3, <2>1, <2>2
<1>10. LatestAnchor' = LatestAnchor /\ LedgerCertificates' = LedgerCertificates
  BY SameLedger
<1>11. Known' \subseteq Known
  <2>1. LeaderChain(l) \subseteq graph
    BY <1>1, ChainAbove
  <2> QED BY <1>2, <1>10, <2>1, KnownMember
<1>12. ProposerInv'
  BY <1>1, <1>11 DEF ProposerInv
<1>13. OwnInv'
  <2>1. Stored' = Stored
    BY DEF Stored
  <2> QED BY <1>1, <1>10, <1>11, <2>1 DEF OwnInv
<1>14. TurnInv'
  BY <1>1, <1>2, <1>3, <1>8, <1>9, <1>10 DEF TurnInv
<1>15. NoAnchorSkipped' /\ NothingLeftBehind'
  BY <1>1, <1>10 DEF NoAnchorSkipped, NothingLeftBehind
<1> QED BY <1>12, <1>13, <1>14, <1>15 DEF Spine


\* A leader is committed.  It is the one of the next even round, and its subdag has all
\* of the two rounds below it that no block has.
LEMMA SpineCommit ==
    ASSUME FreshInv, SpineInv, Working, handler.pc = "commit", NEW leader \in OldestLeader,
           ~MissingPrevious(leader, IDs(LedgerCertificates)),
           ledger' = Append(ledger, [anchor |-> leader.round, certificates |-> Subdag(leader)]),
           DagCommit(Subdag(leader), leader.round),
           handler' = [handler EXCEPT !.chain = @ \ {leader}],
           UNCHANGED <<storageVars, batch, propose_lock, pc, tx_primary_certificate>>
    PROVE  Spine'
<1> USE DEF storageVars
<1> DEFINE A == LatestAnchor
           N == Len(ledger)
<1>1. /\ TypeOK /\ First /\ ProposerInv /\ OwnInv /\ TurnInv /\ NoAnchorSkipped /\ NothingLeftBehind
      /\ propose_lock \in Nat /\ last_committed_round = A
      /\ handler \in [pc : {"idle", "check", "commit"}, from : SUBSET Task, round : Nat,
                      chain : SUBSET Certificate]
  BY SpineFacts DEF TypeOK
<1>2. N \in Nat /\ A \in Nat /\ A = 2 * N /\ A % 2 = 0
  BY <1>1, AnchorEven
<1>3. /\ leader \in handler.chain /\ leader \in Certificate /\ leader \in Known
      /\ leader.round \in Nat /\ leader.round > A
      /\ Subdag(leader) \in SUBSET Certificate
      /\ \A c \in handler.chain : leader.round <= c.round
  <2>1. leader \in handler.chain /\ \A c \in handler.chain : leader.round <= c.round
    BY DEF OldestLeader
  <2>2. leader \in Certificate /\ leader.round > A
    BY <1>1, <2>1 DEF FreshInv, AnchorInv
  <2> QED BY <1>1, <2>1, <2>2, CertificateFields, SubdagType, KnownMember
<1>4. leader.round = A + 2 /\ A + 2 <= handler.round /\ handler.round < propose_lock
  <2>1. leader.round % 2 = 0 /\ leader.round <= handler.round /\ handler.round < propose_lock
    BY <1>1, <1>3 DEF TurnInv
  <2>2. leader.round >= A + 2
    BY <1>2, <1>3, <2>1, Parity
  <2>3. A + 2 \in (A + 1)..handler.round /\ (A + 2) % 2 = 0
    BY <1>1, <1>2, <1>3, <2>1, <2>2
  <2>4. PICK c \in handler.chain : c.round = A + 2
    BY <1>1, <2>3 DEF TurnInv
  <2>5. leader.round <= A + 2
    BY <1>3, <2>4
  <2> QED BY <1>1, <1>2, <1>3, <2>1, <2>2, <2>5
<1>5. /\ LatestAnchor' = A + 2
      /\ LedgerCertificates' = LedgerCertificates \cup Subdag(leader)
      /\ Len(ledger') = N + 1 /\ ledger'[N + 1].anchor = A + 2
      /\ \A h \in 1..N : ledger'[h] = ledger[h]
  BY <1>1, <1>3, <1>4, AppendAnchor, AppendCertificates
<1>6. handler'.pc = "commit" /\ handler'.round = handler.round /\ handler'.chain = handler.chain \ {leader}
  BY <1>1
<1>7. /\ Subdag(leader) \subseteq Known
      /\ \A c \in Subdag(leader) : c.round <= A + 2 /\ c.round \in Nat
  <2>1. \A c \in Subdag(leader) : c.round \in 0..leader.round
    BY DEF Subdag, CommitSubdag
  <2>2. Subdag(leader) \subseteq Known
    BY <1>3, KnownMember DEF Subdag, CommitSubdag
  <2> QED BY <1>3, <1>4, <2>1, <2>2
<1>8. last_committed_round' = A + 2
  BY <1>1, <1>2, <1>4 DEF DagCommit, MaxOf
<1> HIDE DEF N
<1>9. ASSUME NEW r \in Nat, r > A + 2, HasOwn(graph, r) PROVE HasOwn(graph', r)
  <2>1. PICK g \in graph : g.author = Self /\ g.round = r
    BY <1>9 DEF HasOwn
  <2>2. g.round + MaxGcRounds > A + 2
    BY <1>2, <1>9, <2>1, StorageAssumption
  <2>3. \A c \in Subdag(leader) : ~(g.round <= c.round)
    BY <1>2, <1>7, <1>9, <2>1
  <2>4. g \in graph'
    BY <1>8, <2>1, <2>2, <2>3 DEF DagCommit
  <2> QED BY <2>1, <2>4 DEF HasOwn
<1>10. Known' \subseteq Known
  <2>1. graph' \subseteq graph
    BY DEF DagCommit
  <2> QED BY <1>5, <1>6, <1>7, <2>1, KnownMember
<1>11. ProposerInv'
  BY <1>1, <1>10 DEF ProposerInv
<1>12. OwnInv'
  <2>1. \A s \in Known' \cup batch'["proposer"] : \A c \in certificates' :
           c.round = s.round - 1 => ID(c) \in s.previous
    BY <1>1, <1>10 DEF OwnInv
  <2>2. ASSUME NEW r \in (A + 2 + 1)..(propose_lock - 1) PROVE HasOwn(graph', r)
    <3>1. r \in (A + 1)..(propose_lock - 1) /\ r \in Nat /\ r > A + 2
      BY <1>1, <1>2
    <3> QED BY <1>1, <1>9, <3>1 DEF OwnInv
  <2>3. ASSUME propose_lock > A + 2, Stored \/ \E c \in certificates : c.round = propose_lock
        PROVE  HasOwn(graph' \cup tx_primary_certificate["proposer"], propose_lock)
    <3>1. propose_lock > A
      BY <1>1, <1>2, <2>3
    <3>2. HasOwn(graph \cup tx_primary_certificate["proposer"], propose_lock)
      BY <1>1, <2>3, <3>1 DEF OwnInv
    <3>3. HasOwn(graph, propose_lock) => HasOwn(graph', propose_lock)
      BY <1>1, <1>9, <2>3
    <3> QED BY <3>2, <3>3 DEF HasOwn
  <2>4. Stored' = Stored
    BY DEF Stored
  <2> QED BY <1>5, <2>1, <2>2, <2>3, <2>4 DEF OwnInv
<1>13. TurnInv'
  <2>1. LatestAnchor' < propose_lock
    BY <1>1, <1>2, <1>4, <1>5
  <2>2. gc_round' <= LatestAnchor'
    BY <1>1, <1>2, <1>5 DEF TurnInv, TypeOK
  <2>3. ASSUME NEW r \in (A + 2 + 1)..handler.round, r % 2 = 0
        PROVE  \E c \in handler'.chain : c.round = r
    <3>1. r \in (A + 1)..handler.round /\ r # A + 2
      BY <1>1, <1>2
    <3>2. PICK c \in handler.chain : c.round = r
      BY <1>1, <2>3, <3>1 DEF TurnInv
    <3> QED BY <1>4, <1>6, <3>1, <3>2
  <2> QED BY <1>1, <1>5, <1>6, <2>1, <2>2, <2>3 DEF TurnInv
<1>14. NoAnchorSkipped'
  <2>1. ASSUME NEW h \in 1..(N + 1) PROVE ledger'[h].anchor = 2 * h
    <3>1. CASE h = N + 1
      BY <1>2, <1>5, <3>1
    <3>2. CASE h # N + 1
      <4>1. h \in 1..N
        BY <1>2, <3>2
      <4> QED BY <1>1, <1>5, <4>1 DEF NoAnchorSkipped, N
    <3> QED BY <3>1, <3>2
  <2> QED BY <1>5, <2>1 DEF NoAnchorSkipped
<1>15. ASSUME NEW s \in Subdag(leader), NEW c \in certificates, c.round = s.round - 1,
              c.round >= A
       PROVE  c \in LedgerCertificates'
  <2>1. s \in Known /\ s \in Certificate /\ c \in Known /\ c.round \in Nat
    BY <1>3, <1>7, KnownMember, SpineFacts
  <2>2. ID(c) \in s.previous /\ ID(c).round = c.round
    BY <1>1, <1>15, <2>1 DEF OwnInv, ID
  <2>3. RefersDown({s})
    BY <1>1, <2>1 DEF FreshInv, KnownInv, RefersDown
  <2>4. ID(c).round + MaxGcRounds > last_committed_round
    BY <1>1, <1>2, <1>15, <2>1, <2>2, StorageAssumption
  <2>5. \/ ID(c) \in recent_committed_ids \/ ID(c) \in IDs(LedgerCertificates)
        \/ ID(c) \in IDs(Subdag(leader))
    BY <1>1, <1>3, <2>1, <2>2, <2>3, <2>4, SubdagClosed DEF Subdag
  <2>6. ID(c) \in IDs(LedgerCertificates')
    BY <1>1, <1>5, <2>5 DEF FreshInv, AnchorInv, DagCommittedInLedger, IDs
  <2>7. PICK d \in LedgerCertificates' : ID(d) = ID(c)
    BY <2>6 DEF IDs
  <2>8. d \in Known
    BY <1>5, <1>7, <2>7, KnownMember
  <2>9. d.author = c.author /\ d.round = c.round
    BY <2>7 DEF ID
  <2>10. d = c
    BY <1>1, <2>1, <2>8, <2>9 DEF FreshInv, KnownInv, Equivocation
  <2> QED BY <2>7, <2>10
<1>16. leader \in Subdag(leader)
  <2>1. leader \in SearchFrom(leader, IDs(LedgerCertificates))[leader.round]
    BY <1>3, SearchUnfolds
  <2>2. leader.round \in 0..leader.round /\ leader.round + MaxGcRounds > last_committed_round
    BY <1>1, <1>2, <1>3, StorageAssumption
  <2> QED BY <2>1, <2>2 DEF Subdag, CommitSubdag
<1>17. NothingLeftBehind'
  <2>1. SUFFICES ASSUME NEW c \in certificates, c.round < A + 2 PROVE c \in LedgerCertificates'
    BY <1>5 DEF NothingLeftBehind
  <2>2. c.round \in Nat /\ c \in Known
    BY KnownMember, SpineFacts
  <2>3. CASE c.round < A
    BY <1>1, <1>5, <2>3 DEF NothingLeftBehind
  <2>4. CASE c.round = A + 1
    BY <1>2, <1>4, <1>15, <1>16, <2>4
  <2>5. CASE c.round = A
    <3>1. PICK d \in graph : d.author = Self /\ d.round = A + 1
      <4>1. A + 1 \in (A + 1)..(propose_lock - 1)
        BY <1>1, <1>2, <1>4
      <4>2. HasOwn(graph, A + 1)
        BY <1>1, <4>1 DEF OwnInv
      <4> QED BY <4>2 DEF HasOwn
    <3>2. d \in certificates
      BY <1>2, <3>1, GraphStored
    <3>3. d \in LedgerCertificates'
      BY <1>2, <1>4, <1>15, <1>16, <3>1, <3>2
    <3>4. d \notin LedgerCertificates
      BY <1>1, <1>2, <3>1 DEF FreshInv, AnchorInv
    <3>5. d \in Subdag(leader)
      BY <1>5, <3>3, <3>4
    <3> QED BY <1>2, <1>15, <2>5, <3>1, <3>5
  <2>6. c.round < A \/ c.round = A \/ c.round = A + 1
    BY <1>2, <2>1, <2>2
  <2> QED BY <2>3, <2>4, <2>5, <2>6
<1> QED BY <1>11, <1>12, <1>13, <1>14, <1>17 DEF Spine

\* The loop over the leaders ends when the ledger has reached the latest of them.
LEMMA SpineCollect ==
    ASSUME FreshInv, SpineInv, Working, CollectGarbage,
           UNCHANGED <<batch, propose_lock, pc>>
    PROVE  Spine'
<1> USE DEF dagVars
<1>1. /\ TypeOK /\ TurnInv /\ LatestAnchor \in Nat /\ gc_round \in Nat /\ current_round \in Nat
      /\ handler.round \in Nat
  BY SpineFacts DEF TypeOK
<1>2. /\ handler.pc = "commit" /\ handler.chain = {} /\ GarbageCollect(handler.round)
      /\ handler' = Idle
      /\ UNCHANGED <<graph, ledger, tx_primary_certificate, current_round>>
  BY DEF CollectGarbage, Answer
<1>3. handler.round <= LatestAnchor
  <2>1. SUFFICES ASSUME handler.round > LatestAnchor PROVE FALSE
    BY <1>1
  <2>2. handler.round \in (LatestAnchor + 1)..handler.round /\ handler.round % 2 = 0
    BY <1>1, <1>2, <2>1 DEF TurnInv
  <2> QED BY <1>1, <1>2, <2>2 DEF TurnInv
<1>4. certificates' \subseteq certificates /\ gc_round' <= LatestAnchor
  <2>1. SaturatingSub(handler.round, MaxGcRounds) <= handler.round
    BY <1>1, StorageAssumption DEF SaturatingSub
  <2>2. SaturatingSub(handler.round, MaxGcRounds) \in Nat
    BY <1>1, SaturatingSubType, StorageAssumption
  <2>3. gc_round <= LatestAnchor
    BY <1>1 DEF TurnInv
  <2> QED BY <1>1, <1>2, <1>3, <2>1, <2>2, <2>3 DEF GarbageCollect
<1>5. handler'.pc = "idle" /\ handler'.chain = {}
  BY <1>2 DEF Idle
<1>6. Known' \subseteq Known
  BY <1>2, <1>4, <1>5, SameLedger, KnownMember
<1>7. Stored' = Stored
  BY DEF Stored
<1> QED BY <1>1, <1>2, <1>4, <1>5, <1>6, <1>7, SpineStays


\* The handlers of the BFT.
LEMMA SpineHandler ==
    ASSUME FreshInv, SpineInv, Working,
           \/ CommitHandler \/ SyncHandler
           \/ \E t \in Task : RoundHandler(t) \/ CertificateHandler(t)
    PROVE  Spine'
<1> USE DEF storageVars, dagVars, bftVars
<1>1. /\ TypeOK /\ First /\ TurnInv /\ current_round \in Nat /\ LatestAnchor \in Nat
      /\ gc_round <= LatestAnchor /\ last_committed_round = LatestAnchor
      /\ consensus_sender
  BY SpineFacts DEF TurnInv, FreshInv, EmptyInv, Working
<1>2. UNCHANGED <<pc, batch, propose_lock>>
  BY DEF CommitHandler, SyncHandler, RoundHandler, CertificateHandler, primaryVars, taskVars
<1>3. Stored' = Stored
  BY <1>2 DEF Stored
<1>4. ASSUME UNCHANGED <<certificates, gc_round, current_round, graph, ledger,
                         tx_primary_certificate>>,
             handler' = Idle
      PROVE  Spine'
  <2>1. handler'.pc = "idle" /\ handler'.chain = {}
    BY <1>4 DEF Idle
  <2>2. Known' \subseteq Known
    BY <1>4, <2>1, SameLedger, KnownMember
  <2> QED BY <1>1, <1>2, <1>3, <1>4, <2>1, <2>2, SpineStays
<1>5. ASSUME NEW t \in Task, RoundHandler(t) PROVE Spine'
  <2>1. /\ UNCHANGED <<gc_round, certificates, graph, handler, tx_primary_certificate, ledger>>
        /\ tx_primary_round[t] \in Nat
        /\ current_round' = current_round
             \/ current_round' = Incremented(tx_primary_round[t], LatestAnchor)
    BY <1>1, <1>5 DEF RoundHandler, UpdateToNextRound, TypeOK
  <2>2. current_round' \in Nat /\ current_round' >= current_round
    BY <1>1, <2>1, IncrementedUp, RoundTypes
  <2>3. Known' = Known
    BY <2>1, SameLedger DEF Known
  <2> QED BY <1>1, <1>2, <1>3, <2>1, <2>2, <2>3, SpineStays
<1>6. CASE SyncHandler
  <2>1. PICK C \in tx_sync_bft_dag : DagCommit(C, LatestAnchor)
    BY <1>6 DEF SyncHandler, SyncBftDagAtBootup
  <2>2. UNCHANGED <<certificates, gc_round, current_round, handler, tx_primary_certificate, ledger>>
    BY <1>6 DEF SyncHandler, SyncBftDagAtBootup
  <2>3. C = {}
    BY <1>1 DEF FreshInv, EmptyInv
  <2>4. graph' = {g \in graph : g.round + MaxGcRounds > LatestAnchor}
    <3>1. last_committed_round' = LatestAnchor
      BY <1>1, <2>1 DEF DagCommit, MaxOf
    <3> QED BY <2>1, <2>3, <3>1 DEF DagCommit
  <2>5. ASSUME NEW r \in Nat, r > LatestAnchor, HasOwn(graph, r) PROVE HasOwn(graph', r)
    <3>1. PICK g \in graph : g.author = Self /\ g.round = r
      BY <2>5 DEF HasOwn
    <3>2. g.round + MaxGcRounds > LatestAnchor
      BY <1>1, <2>5, <3>1, StorageAssumption
    <3> QED BY <2>4, <3>1, <3>2 DEF HasOwn
  <2>6. Known' \subseteq Known
    BY <2>2, <2>4, SameLedger, KnownMember
  <2> QED BY <1>1, <1>2, <1>3, <2>2, <2>5, <2>6, SpineStays
<1>7. CASE CommitHandler
  <2>1. CASE AdvanceFails \/ CommitFails
    BY <1>4, <2>1 DEF AdvanceFails, CommitFails, Answer
  <2>2. CASE CollectGarbage
    BY <1>2, <2>2, SpineCollect
  <2>3. CASE CheckLeader
    <3>1. UNCHANGED <<storageVars, dagVars, ledger, tx_primary_certificate>> /\ handler.pc = "check"
      BY <2>3 DEF CheckLeader
    <3>2. \/ handler' = Idle
          \/ \E l \in ReadyLeader :
                handler' = [handler EXCEPT !.pc = "commit", !.round = l.round,
                                           !.chain = LeaderChain(l)]
      BY <2>3 DEF CheckLeader, Answer
    <3> QED BY <1>2, <1>4, <3>1, <3>2, SpineCheck
  <2>4. CASE CommitLeader
    <3>1. UNCHANGED <<storageVars, tx_primary_certificate>> /\ handler.pc = "commit"
      BY <2>4 DEF CommitLeader
    <3>2. \/ handler' = Idle /\ UNCHANGED <<ledger, dagVars>>
          \/ \E leader \in OldestLeader :
               /\ ~MissingPrevious(leader, IDs(LedgerCertificates))
               /\ ledger' = Append(ledger, [anchor |-> leader.round,
                                            certificates |-> Subdag(leader)])
               /\ DagCommit(Subdag(leader), leader.round)
               /\ handler' = [handler EXCEPT !.chain = @ \ {leader}]
      BY <1>1, <2>4 DEF CommitLeader, Answer
    <3>3. CASE handler' = Idle /\ UNCHANGED <<ledger, dagVars>>
      BY <1>4, <3>1, <3>3
    <3>4. ASSUME NEW leader \in OldestLeader,
                 ~MissingPrevious(leader, IDs(LedgerCertificates)),
                 ledger' = Append(ledger, [anchor |-> leader.round,
                                           certificates |-> Subdag(leader)]),
                 DagCommit(Subdag(leader), leader.round),
                 handler' = [handler EXCEPT !.chain = @ \ {leader}]
          PROVE  Spine'
      BY <1>2, <3>1, <3>4, SpineCommit
    <3> QED BY <3>2, <3>3, <3>4
  <2> QED BY <1>7, <2>1, <2>2, <2>3, <2>4 DEF CommitHandler
<1> QED BY <1>5, <1>6, <1>7, SpineCertificate

\* The first run starts to run, with nothing in its storage.
LEMMA SpineStarts ==
    ASSUME FreshInv, SpineInv, First, status # "running", StartHandlers
    PROVE  Spine'
<1> USE DEF storageVars, dagVars, channelVars
<1>0. "proposer" \in Task /\ "boot" \in Task /\ "increment" \in Task
  BY DEF Task
<1>1. /\ certificates = {} /\ graph = {} /\ propose_lock = 0 /\ gc_round = 0 /\ ledger = << >>
      /\ batch["boot"] = {} /\ pc["boot"] \in {"off", "load"}
  BY DEF SpineInv, NothingLoaded, FreshInv, EmptyInv
<1>2. TypeOK /\ current_round \in Nat /\ batch \in [Task -> SUBSET Certificate]
  BY DEF FreshInv, RoundInv, TypeOK
<1>3. /\ UNCHANGED <<certificates, graph, propose_lock, gc_round, ledger, current_round, handler,
                     tx_primary_certificate>>
      /\ batch' = [batch EXCEPT !["boot"] = {}]
      /\ pc' = [t \in Task |-> IF t = "boot" THEN "done" ELSE "idle"]
  BY DEF StartHandlers
<1>4. \A t \in Task : pc[t] \in Free /\ batch[t] = {}
  BY <1>1, FreeLabels DEF FreshInv, RoundInv, PhaseInv
<1>5. \A t \in Task : tx_primary_certificate[t] = {} /\ t \notin handler.from
  BY <1>4, FreeProtocol DEF FreshInv, RoundInv
<1>6. handler.pc = "idle" /\ handler.chain = {}
  <2>1. handler.from \subseteq Task
    BY <1>2 DEF TypeOK
  <2> QED BY <1>5, <2>1 DEF FreshInv, RoundInv, RequestInv, Idle
<1>7. LedgerCertificates' = {} /\ LatestAnchor' = 0
  BY <1>1, <1>3, EmptyLedger, SameLedger
<1>8. Known' = {}
  BY <1>1, <1>3, <1>5, <1>6, <1>7, KnownMember
<1>9. batch'["proposer"] = {} /\ batch'["boot"] = {} /\ batch'["increment"] = {}
  BY <1>0, <1>2, <1>3, <1>4
<1>10. ProposerInv'
  BY <1>0, <1>1, <1>2, <1>3, <1>5, <1>8, <1>9 DEF ProposerInv
<1>11. OwnInv'
  BY <1>1, <1>3, <1>7, <1>8, <1>9 DEF OwnInv
<1>12. TurnInv'
  BY <1>1, <1>3, <1>6, <1>7 DEF TurnInv
<1>13. NoAnchorSkipped' /\ NothingLeftBehind'
  BY <1>1, <1>3 DEF NoAnchorSkipped, NothingLeftBehind
<1> QED BY <1>10, <1>11, <1>12, <1>13 DEF Spine

\* While it boots, the first run has nothing and makes nothing.
LEMMA SpineBoots ==
    ASSUME FreshInv, SpineInv, First, status # "running", UpStep, ~StartHandlers
    PROVE  /\ UNCHANGED <<certificates, propose_lock, gc_round, ledger>> /\ graph' \subseteq graph
<1> USE DEF storageVars, dagVars, bftVars
<1>1. /\ handler = Idle
      /\ \A t \in Task : /\ pc[t] \in {"off", "load"}
                         /\ tx_primary_certificate[t] = {} /\ tx_primary_round[t] = 0
  BY FirstRuns DEF FreshInv
<1>2. TypeOK /\ "boot" \in Task
  BY DEF FreshInv, RoundInv, Task
<1>3. ~CommitHandler
  BY <1>1 DEF CommitHandler, CheckLeader, CommitLeader, CollectGarbage, AdvanceFails, CommitFails,
              Idle
<1>4. \A t \in Task : ~RoundHandler(t) /\ ~CertificateHandler(t) /\ ~TaskStep(t)
  BY <1>1, <1>2, TaskStores DEF RoundHandler, UpdateToNextRound, CertificateHandler, UpdateDag
<1>5. ~SetShutdown /\ ~ProposerWakes /\ ~IncrementWakes
  BY DEF SetShutdown, ProposerWakes, IncrementWakes
<1>6. todo = {} /\ cache = {}
  BY DEF FreshInv, EmptyInv
<1>7. ~SyncCertificate /\ ~LoadNext /\ ~LoadStore /\ ~LoadFails /\ ~LoadInDag
  BY <1>1, <1>2, <1>6 DEF SyncCertificate, LoadNext, LoadStore, LoadFails, LoadInDag, Earliest
<1>8. CASE LoadProposalCache
  BY <1>6, <1>8 DEF LoadProposalCache
<1>9. CASE SyncHandler
  BY <1>9 DEF SyncHandler, SyncBftDagAtBootup, DagCommit, primaryVars
<1> QED BY <1>3, <1>4, <1>5, <1>7, <1>8, <1>9 DEF UpStep, BootStep

\* The phases between which a step moves.
LEMMA UpStatus ==
    ASSUME FreshInv, First, UpStep
    PROVE  /\ status = "running" => status' = "running" /\ ~BootStep
           /\ status' = "running" => status = "running" \/ StartHandlers
<1>1. ASSUME NEW t \in Task, TaskStep(t) PROVE UNCHANGED status
  BY <1>1, TaskFrame DEF FreshInv, RoundInv, processVars
<1>2. ASSUME ~BootStep PROVE UNCHANGED status
  BY <1>1, <1>2 DEF UpStep, SetShutdown, ProposerWakes, IncrementWakes, CommitHandler, SyncHandler,
                    RoundHandler, CertificateHandler, processVars
<1>3. ASSUME status = "running" PROVE ~BootStep
  BY <1>3 DEF FreshInv, RoundInv, PhaseInv, BootStep, SyncCertificate, LoadProposalCache, LoadNext,
              LoadStore, LoadFails, LoadInDag, StartHandlers
<1>4. ASSUME BootStep, ~StartHandlers, status # "running" PROVE status' # "running"
  BY <1>4 DEF BootStep, SyncCertificate, LoadProposalCache, LoadNext, LoadStore, LoadFails,
              LoadInDag, processVars
<1> QED BY <1>2, <1>3, <1>4

\* The invariant holds before the first run.
LEMMA SpineInit == Init => SpineInv
BY DEF Init, SpineInv, NothingLoaded, Working, First, NoAnchorSkipped, NothingLeftBehind

\* Every step keeps it.
LEMMA SpineNext == FreshInv /\ SpineInv /\ [Next]_vars => SpineInv'
<1> SUFFICES ASSUME FreshInv, SpineInv, [Next]_vars PROVE SpineInv'
  OBVIOUS
<1>1. CASE UNCHANGED vars
  <2>1. UNCHANGED <<pc, tx_primary_certificate, handler, batch, status, ledger, run, certificates,
                    gc_round, current_round, graph, propose_lock>>
    BY <1>1 DEF vars, storageVars, dagVars, bftVars, channelVars, primaryVars, taskVars, processVars
  <2>2. LedgerCertificates' = LedgerCertificates /\ LatestAnchor' = LatestAnchor /\ Known' = Known
    BY <2>1, SameLedger DEF Known
  <2>3. NoAnchorSkipped' = NoAnchorSkipped /\ NothingLeftBehind' = NothingLeftBehind
    BY <2>1, <2>2 DEF NoAnchorSkipped, NothingLeftBehind
  <2>4. /\ ProposerInv' = ProposerInv /\ OwnInv' = OwnInv /\ TurnInv' = TurnInv
        /\ Working' = Working /\ NothingLoaded' = NothingLoaded
    BY <2>1, <2>2 DEF ProposerInv, OwnInv, TurnInv, Stored, Working, First, NothingLoaded
  <2> QED BY <2>1, <2>3, <2>4 DEF SpineInv
<1>2. CASE Boot
  <2>1. /\ status = "down" /\ run' = run + 1 /\ status' = "syncing" /\ run \in Nat
        /\ gc_round' = SaturatingSub(MaxOf(1, LatestAnchor), MaxGcRounds)
        /\ UNCHANGED <<certificates, graph, propose_lock, ledger>>
    BY <1>2, RunType DEF Boot, dagVars, primaryVars, FreshInv, RoundInv
  <2>2. certificates = {} /\ graph = {} /\ propose_lock = 0
    BY <2>1 DEF FreshInv, OffInv
  <2>3. CASE run # 0
    <3>1. ~(run' <= 1)
      BY <2>1, <2>3
    <3> QED BY <3>1 DEF SpineInv, NothingLoaded, Working, First
  <2>4. CASE run = 0
    <3>1. ledger = << >>
      BY <2>4 DEF FreshInv, NewInv
    <3>2. gc_round' = 0
      BY <2>1, <3>1, EmptyLedger, StorageAssumption DEF SaturatingSub, MaxOf
    <3>3. NoAnchorSkipped' /\ NothingLeftBehind'
      BY <2>1, <2>2, <3>1 DEF NoAnchorSkipped, NothingLeftBehind
    <3> QED BY <2>1, <2>2, <3>2, <3>3 DEF SpineInv, NothingLoaded, Working
  <2> QED BY <2>3, <2>4
<1>3. CASE ShutDown \/ Crash
  <2>1. status' = "down" /\ certificates' = {} /\ UNCHANGED <<ledger, run>>
    BY <1>3 DEF ShutDown, Crash, PowerOff
  <2> QED BY <2>1 DEF SpineInv, NothingLoaded, Working, First, NoAnchorSkipped, NothingLeftBehind
<1>4. CASE UpStep
  <2>1. status # "down" /\ status' # "down" /\ run' = run /\ run \in Nat
    BY <1>4, UpStays, RunType DEF FreshInv, RoundInv
  <2>2. CASE ~(run <= 1)
    BY <2>1, <2>2 DEF SpineInv, NothingLoaded, Working, First
  <2>3. CASE run <= 1
    <3>1. First
      BY <2>1, <2>3 DEF First
    <3>2. ASSUME Spine', status' = "running" PROVE SpineInv'
      BY <3>2 DEF Spine, SpineInv, NothingLoaded
    <3>3. CASE status = "running"
      <4>1. Working /\ status' = "running" /\ ~BootStep
        BY <1>4, <3>1, <3>3, UpStatus DEF Working
      <4>2. Spine'
        BY <1>4, <4>1, SpineTask, SpineLoops, SpineHandler DEF UpStep
      <4> QED BY <3>2, <4>1, <4>2
    <3>4. CASE status # "running" /\ StartHandlers
      <4>1. status' = "running"
        BY <3>4 DEF StartHandlers
      <4> QED BY <3>1, <3>2, <3>4, <4>1, SpineStarts
    <3>5. CASE status # "running" /\ ~StartHandlers
      <4>1. /\ UNCHANGED <<certificates, propose_lock, gc_round, ledger>> /\ graph' \subseteq graph
            /\ status' # "running"
        BY <1>4, <3>1, <3>5, SpineBoots, UpStatus
      <4>2. LedgerCertificates' = LedgerCertificates /\ LatestAnchor' = LatestAnchor
        BY <4>1, SameLedger
      <4>3. NoAnchorSkipped' /\ NothingLeftBehind'
        BY <2>3, <4>1, <4>2 DEF SpineInv, NoAnchorSkipped, NothingLeftBehind
      <4>4. NothingLoaded'
        BY <3>1, <3>5, <4>1 DEF SpineInv, NothingLoaded
      <4> QED BY <4>1, <4>3, <4>4 DEF SpineInv, Working
    <3> QED BY <3>3, <3>4, <3>5
  <2> QED BY <2>2, <2>3
<1> QED BY <1>1, <1>2, <1>3, <1>4 DEF Next, UpStep

\* SpineInv is an invariant.
LEMMA Spines == Spec => []SpineInv
BY SpineInit, SpineNext, Fresh, PTL DEF Spec

\* In a run from an empty ledger block h is anchored at round 2h, whatever failed before:
\* the certificates of validator 0 are linked without a gap above the last block, so the
\* walk of commit_leader_certificate meets every leader whose block was refused.
THEOREM FirstRunSkipsNone == Spec => [](run <= 1 => NoAnchorSkipped)
<1>1. SpineInv => (run <= 1 => NoAnchorSkipped)
  BY DEF SpineInv
<1> QED BY <1>1, Spines, PTL

\* In such a run every stored certificate below the last anchor is in a block: each batch
\* of propose_batch refers to all that the storage has of the round before, and
\* order_dag_with_dfs follows the references below the last committed round too.
THEOREM FirstRunLeavesNothing == Spec => [](run <= 1 => NothingLeftBehind)
<1>1. SpineInv => (run <= 1 => NothingLeftBehind)
  BY DEF SpineInv
<1> QED BY <1>1, Spines, PTL
=============================================================================
