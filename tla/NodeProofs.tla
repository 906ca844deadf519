----------------------------- MODULE NodeProofs -----------------------------
(***************************************************************************)
(* The type invariant of Node and the closedness of its storage, for every *)
(* committee, GC depth and bound, with the lemmas about its operators that *)
(* the other proofs use.                                                   *)
(***************************************************************************)
EXTENDS Node, TLAPS

USE DEF Task

-----------------------------------------------------------------------------
(* Types of the operators the actions are made of.                          *)

\* The fields of a certificate and its ID.
LEMMA CertificateFields ==
    ASSUME NEW c \in Certificate
    PROVE  /\ c.author \in Validator /\ c.round \in Nat /\ c.run \in Nat
           /\ c.previous \subseteq CertificateID
           /\ ID(c) \in CertificateID
BY DEF Certificate, CertificateID, ID

\* The IDs of a set of certificates.
LEMMA IDsType ==
    ASSUME NEW C, C \subseteq Certificate
    PROVE  IDs(C) \subseteq CertificateID
BY CertificateFields DEF IDs

\* Validator 0 is in the committee.
LEMMA SelfType == Self \in Validator
BY CommitteeAssumption DEF Self, Validator

\* A new batch is a certificate.
LEMMA NewCertificateType ==
    ASSUME TypeOK, NEW v \in Validator, NEW r \in Nat
    PROVE  NewCertificate(v, r) \in Certificate
<1>1. CertificatesFor(r - 1) \subseteq Certificate
  BY DEF TypeOK, CertificatesFor
<1>2. IDs(CertificatesFor(r - 1)) \subseteq CertificateID
  BY <1>1, IDsType
<1>3. run \in Nat
  BY PrimaryAssumption DEF TypeOK
<1> QED BY <1>2, <1>3 DEF NewCertificate, Certificate

\* The round of the latest block.
LEMMA LatestAnchorType ==
    ASSUME TypeOK
    PROVE  LatestAnchor \in Nat
<1> DEFINE Block == [anchor : Nat, certificates : SUBSET Certificate]
<1>1. ledger \in Seq(Block)
  BY DEF TypeOK
<1>2. ASSUME ledger # << >> PROVE ledger[Len(ledger)] \in Block
  <2> HIDE DEF Block
  <2> QED BY <1>1, <1>2
<1> QED BY <1>2 DEF LatestAnchor

\* The ledger holds certificates.
LEMMA LedgerType ==
    ASSUME TypeOK
    PROVE  LedgerCertificates \subseteq Certificate
<1> DEFINE Block == [anchor : Nat, certificates : SUBSET Certificate]
<1>1. ledger \in Seq(Block)
  BY DEF TypeOK
<1>2. ASSUME NEW h \in 1..Len(ledger) PROVE ledger[h] \in Block
  <2> HIDE DEF Block
  <2> QED BY <1>1
<1>3. ASSUME NEW h \in 1..Len(ledger) PROVE ledger[h].certificates \subseteq Certificate
  BY <1>2
<1> QED BY <1>3 DEF LedgerCertificates

\* A leader commits certificates of the DAG and of the storage.
LEMMA SubdagType ==
    ASSUME TypeOK, NEW l \in Certificate
    PROVE  Subdag(l) \subseteq Certificate
BY DEF TypeOK, Subdag, CommitSubdag

\* The rounds that the storage moves to.
LEMMA RoundTypes ==
    ASSUME TypeOK, NEW r \in Nat
    PROVE  /\ FastForwarded(r) \in Nat
           /\ FastForwarded(r) >= current_round
           /\ Incremented(r, LatestAnchor) \in Nat
BY LatestAnchorType, StorageAssumption
   DEF TypeOK, FastForwarded, Incremented, MaxOf

\* SaturatingSub stays in Nat.
LEMMA SaturatingSubType ==
    ASSUME NEW a \in Nat, NEW b \in Nat
    PROVE  SaturatingSub(a, b) \in Nat
BY DEF SaturatingSub

\* insert_certificate keeps the storage a set of certificates.
LEMMA InsertType ==
    ASSUME TypeOK, NEW c \in Certificate, InsertCertificate(c)
    PROVE  certificates' \subseteq Certificate
BY DEF TypeOK, InsertCertificate

\* DAG::commit keeps the types of the DAG.
LEMMA DagCommitType ==
    ASSUME TypeOK, NEW C, C \subseteq Certificate, NEW top \in Nat, DagCommit(C, top)
    PROVE  /\ last_committed_round' \in Nat
           /\ recent_committed_ids' \subseteq CertificateID
           /\ graph' \subseteq Certificate
BY IDsType DEF TypeOK, DagCommit, MaxOf

\* The leader certificates to commit come from the DAG.
LEMMA LeaderChainType ==
    ASSUME TypeOK, NEW l \in Certificate
    PROVE  LeaderChain(l) \subseteq Certificate
BY DEF TypeOK, LeaderChain, PreviousLeaders

-----------------------------------------------------------------------------
(* TypeOK is inductive: one lemma per group of actions.                     *)

\* The initial state is well typed.
LEMMA TypeInit == Init => TypeOK
<1> SUFFICES ASSUME Init PROVE TypeOK
  OBVIOUS
<1>1. ledger \in Seq([anchor : Nat, certificates : SUBSET Certificate])
  BY DEF Init
<1>2. handler \in [pc : {"idle", "check", "commit"}, from : SUBSET Task, round : Nat,
                   chain : SUBSET Certificate]
  BY DEF Init, Idle
<1>3. faults \in 0..MaxFaults /\ run \in 0..MaxRuns
  BY FaultAssumption, PrimaryAssumption DEF Init
<1> QED BY <1>1, <1>2, <1>3 DEF Init, TypeOK, DagInit, Label

\* The handler of the rounds.
LEMMA TypeRound ==
    ASSUME TypeOK, NEW t \in Task, RoundHandler(t)
    PROVE  TypeOK'
<1>1. PICK expired \in BOOLEAN :
        LET round == tx_primary_round[t]
            ready == IsReady(round, expired)
        IN  /\ callback' = [callback EXCEPT ![t] = IF ready THEN "ready" ELSE "not_ready"]
            /\ current_round' = IF ready THEN Incremented(round, LatestAnchor)
                                ELSE current_round
            /\ leader_certificate' = LeaderCertificateAt(round)
  BY DEF RoundHandler, UpdateToNextRound
<1>2. tx_primary_round[t] \in Nat
  BY DEF TypeOK
<1>3. current_round' \in Nat
  BY <1>1, <1>2, RoundTypes DEF TypeOK
<1>4. leader_certificate' \subseteq Certificate
  BY <1>1 DEF TypeOK, LeaderCertificateAt, CertificatesFor
<1>5. /\ callback' \in [Task -> {"none", "ready", "not_ready", "ok", "err"}]
      /\ tx_primary_round' \in [Task -> Nat]
  BY <1>1 DEF TypeOK, RoundHandler, UpdateToNextRound
<1> QED
  BY <1>3, <1>4, <1>5
     DEF TypeOK, RoundHandler, UpdateToNextRound, dagVars, primaryVars, taskVars, processVars

\* The handler of the certificates, up to the commit.
LEMMA TypeCertificate ==
    ASSUME TypeOK, NEW t \in Task, CertificateHandler(t)
    PROVE  TypeOK'
<1>1. PICK c \in tx_primary_certificate[t] :
        /\ graph' = DagInserted(c)
        /\ handler' = [Idle EXCEPT !.pc = "check", !.from = {t}, !.round = c.round]
  BY DEF CertificateHandler, UpdateDag
<1>2. c \in Certificate /\ c.round \in Nat
  BY CertificateFields DEF TypeOK
<1>3. graph' \subseteq Certificate
  BY <1>1, <1>2 DEF TypeOK, DagInserted
<1>4. handler' \in [pc : {"idle", "check", "commit"}, from : SUBSET Task, round : Nat,
                    chain : SUBSET Certificate]
  BY <1>1, <1>2 DEF Idle
<1>5. tx_primary_certificate' \in [Task -> SUBSET Certificate]
  BY DEF TypeOK, CertificateHandler, UpdateDag
<1> QED
  BY <1>3, <1>4, <1>5
     DEF TypeOK, CertificateHandler, UpdateDag, storageVars, primaryVars, taskVars, processVars

\* An answer of the handler.
LEMMA AnswerType ==
    ASSUME TypeOK, NEW result \in {"ok", "err"}, Answer(result)
    PROVE  /\ handler' \in [pc : {"idle", "check", "commit"}, from : SUBSET Task, round : Nat,
                            chain : SUBSET Certificate]
           /\ callback' \in [Task -> {"none", "ready", "not_ready", "ok", "err"}]
<1>1. handler' \in [pc : {"idle", "check", "commit"}, from : SUBSET Task, round : Nat,
                    chain : SUBSET Certificate]
  BY DEF Answer, Idle
<1>2. callback' \in [Task -> {"none", "ready", "not_ready", "ok", "err"}]
  BY DEF TypeOK, Answer
<1> QED BY <1>1, <1>2

\* The second half of update_dag, the commit of a leader and garbage collection.
LEMMA TypeCommit ==
    ASSUME TypeOK, CommitHandler
    PROVE  TypeOK'
<1> DEFINE Handler == [pc : {"idle", "check", "commit"}, from : SUBSET Task, round : Nat,
                       chain : SUBSET Certificate]
           Callback == [Task -> {"none", "ready", "not_ready", "ok", "err"}]
           Block == [anchor : Nat, certificates : SUBSET Certificate]
<1> USE DEF CommitHandler, storageVars, dagVars, primaryVars, taskVars, processVars
<1>1. CASE CheckLeader
  <2>1. CASE ReadyLeader = {} /\ Answer("ok")
    BY <1>1, <2>1, AnswerType DEF TypeOK, CheckLeader
  <2>2. ASSUME NEW l \in ReadyLeader,
               IF WalkBroken(l)
               THEN Answer("err")
               ELSE /\ handler' = [handler EXCEPT !.pc = "commit", !.round = l.round,
                                                  !.chain = LeaderChain(l)]
                    /\ UNCHANGED callback
        PROVE  handler' \in Handler /\ callback' \in Callback
    <3>1. l \in Certificate /\ l.round \in Nat
      BY CertificateFields DEF TypeOK, ReadyLeader, LeaderIn
    <3>2. CASE WalkBroken(l)
      BY <2>2, <3>2, AnswerType
    <3>3. CASE ~WalkBroken(l)
      <4>1. LeaderChain(l) \in SUBSET Certificate
        BY <3>1, LeaderChainType
      <4>2. handler \in Handler
        BY DEF TypeOK
      <4>3. handler' = [handler EXCEPT !.pc = "commit", !.round = l.round,
                                       !.chain = LeaderChain(l)]
        BY <2>2, <3>3
      <4>4. handler' \in Handler
        BY ONLY <3>1, <4>1, <4>2, <4>3
      <4> QED BY <2>2, <3>3, <4>4 DEF TypeOK
    <3> QED BY <3>2, <3>3
  <2> QED BY <1>1, <2>1, <2>2 DEF TypeOK, CheckLeader
<1>2. CASE CommitLeader
  <2>1. PICK leader \in OldestLeader :
           IF MissingPrevious(leader, IDs(LedgerCertificates))
           THEN /\ Answer("err")
                /\ UNCHANGED <<ledger, dagVars>>
           ELSE /\ consensus_sender => ~shutdown
                /\ ledger' = IF consensus_sender
                             THEN Append(ledger, [anchor |-> leader.round,
                                                  certificates |-> Subdag(leader)])
                             ELSE ledger
                /\ DagCommit(Subdag(leader), leader.round)
                /\ handler' = [handler EXCEPT !.chain = @ \ {leader}]
                /\ UNCHANGED callback
    BY <1>2 DEF CommitLeader
  <2>2. leader \in Certificate /\ leader.round \in Nat
    BY CertificateFields DEF TypeOK, OldestLeader
  <2>3. Subdag(leader) \subseteq Certificate
    BY <2>2, SubdagType
  <2>4. CASE MissingPrevious(leader, IDs(LedgerCertificates))
    BY <1>2, <2>1, <2>4, AnswerType DEF TypeOK, CommitLeader
  <2>5. CASE ~MissingPrevious(leader, IDs(LedgerCertificates))
    <3>1. ledger' \in Seq(Block)
      <4>1. [anchor |-> leader.round, certificates |-> Subdag(leader)] \in Block
        BY <2>2, <2>3
      <4>2. ledger \in Seq(Block)
        BY DEF TypeOK
      <4> HIDE DEF Block
      <4> QED BY <2>1, <2>5, <4>1, <4>2
    <3>2. handler' \in Handler
      <4>1. handler \in Handler
        BY DEF TypeOK
      <4>2. handler' = [handler EXCEPT !.chain = @ \ {leader}]
        BY <2>1, <2>5
      <4> QED BY ONLY <4>1, <4>2
    <3>3. /\ last_committed_round' \in Nat
          /\ recent_committed_ids' \subseteq CertificateID
          /\ graph' \subseteq Certificate
      BY <2>1, <2>2, <2>3, <2>5, DagCommitType
    <3> QED BY <1>2, <2>1, <2>5, <3>1, <3>2, <3>3 DEF TypeOK, CommitLeader
  <2> QED BY <2>4, <2>5
<1>3. CASE CollectGarbage
  <2>1. gc_round' \in Nat /\ certificates' \subseteq Certificate
    <3>1. SaturatingSub(handler.round, MaxGcRounds) \in Nat
      BY SaturatingSubType, StorageAssumption DEF TypeOK
    <3> QED BY <1>3, <3>1 DEF TypeOK, CollectGarbage, GarbageCollect
  <2> QED BY <1>3, <2>1, AnswerType DEF TypeOK, CollectGarbage
<1>4. CASE AdvanceFails
  <2>1. faults' \in 0..MaxFaults
    BY <1>4, FaultAssumption DEF TypeOK, AdvanceFails, Fault
  <2> QED BY <1>4, <2>1, AnswerType DEF TypeOK, AdvanceFails
<1>5. CASE CommitFails
  <2>1. faults' \in 0..MaxFaults
    BY <1>5, FaultAssumption DEF TypeOK, CommitFails, Fault
  <2> QED BY <1>5, <2>1, AnswerType DEF TypeOK, CommitFails
<1> QED BY <1>1, <1>2, <1>3, <1>4, <1>5

\* The handler of the bootup message.
LEMMA TypeSync ==
    ASSUME TypeOK, SyncHandler
    PROVE  TypeOK'
<1>1. PICK C \in tx_sync_bft_dag : DagCommit(C, LatestAnchor)
  BY DEF SyncHandler, SyncBftDagAtBootup
<1>2. C \subseteq Certificate
  BY DEF TypeOK
<1>3. /\ last_committed_round' \in Nat
      /\ recent_committed_ids' \subseteq CertificateID
      /\ graph' \subseteq Certificate
  BY <1>1, <1>2, DagCommitType, LatestAnchorType
<1> QED
  BY <1>3 DEF TypeOK, SyncHandler, SyncBftDagAtBootup, storageVars, bftVars,
              primaryVars, taskVars, processVars

-----------------------------------------------------------------------------
(* The steps of the tasks.                                                  *)

\* A task moves to a label.
LEMMA GotoType ==
    ASSUME TypeOK, NEW t \in Task
    PROVE  /\ \A l \in Label : Goto(t, l) => pc' \in [Task -> Label]
           /\ \A ok \in BOOLEAN : Return(t, ok) => pc' \in [Task -> Label]
<1>1. ASSUME NEW l \in Label, Goto(t, l) PROVE pc' \in [Task -> Label]
  BY <1>1 DEF TypeOK, Goto
<1>2. ASSUME NEW ok \in BOOLEAN PROVE ReturnLabel(t, ok) \in Label
  BY DEF ReturnLabel, Label
<1> QED BY <1>1, <1>2 DEF Return

\* A task sends a certificate to the BFT, or reads its callback.
LEMMA ChannelType ==
    ASSUME TypeOK, NEW t \in Task
    PROVE  /\ \A c \in Certificate :
                 Send(t, c) => tx_primary_certificate' \in [Task -> SUBSET Certificate]
           /\ Received(t) => callback' \in [Task -> {"none", "ready", "not_ready", "ok", "err"}]
BY DEF TypeOK, Send, Received

\* try_increment_to_the_next_round.
LEMMA TryIncrementType ==
    ASSUME TypeOK, NEW t \in Task, NEW r \in Nat, TryIncrement(t, r)
    PROVE  /\ current_round' \in Nat
           /\ tx_primary_round' \in [Task -> Nat]
           /\ pc' \in [Task -> Label]
<1>1. current_round' \in Nat
  BY RoundTypes DEF TryIncrement
<1>2. tx_primary_round' \in [Task -> Nat]
  BY <1>1 DEF TryIncrement, TypeOK
<1>3. pc' \in [Task -> Label]
  <2>1. "ask_increment" \in Label
    BY DEF Label
  <2> QED BY <2>1, GotoType DEF TryIncrement
<1> QED BY <1>1, <1>2, <1>3

\* The two loops.
LEMMA TypeLoops ==
    ASSUME TypeOK, ProposerWakes \/ IncrementWakes
    PROVE  TypeOK'
<1> USE DEF storageVars, dagVars, bftVars, channelVars, processVars
<1>1. CASE ProposerWakes
  <2>1. pc' \in [Task -> Label]
    BY <1>1, GotoType DEF ProposerWakes, Label
  <2> QED BY <1>1, <2>1 DEF TypeOK, ProposerWakes
<1>2. CASE IncrementWakes
  <2>1. current_round + 1 \in Nat
    BY DEF TypeOK
  <2>2. /\ current_round' \in Nat
        /\ tx_primary_round' \in [Task -> Nat]
        /\ pc' \in [Task -> Label]
    BY <1>2, <2>1, TryIncrementType DEF IncrementWakes
  <2> QED BY <1>2, <2>2 DEF TypeOK, IncrementWakes
<1> QED BY <1>1, <1>2

\* propose_batch_lite and what it calls.
LEMMA TypeLite ==
    ASSUME TypeOK, NEW t \in Task,
           \/ IncrementAnswered(t)
           \/ LiteSkips(t) \/ LiteTooSoon(t) \/ LiteAsks(t) \/ LiteAsked(t)
           \/ LiteProposes(t) \/ LiteStores(t) \/ LiteFails(t)
           \/ LiteInDag(t) \/ LiteDone(t)
    PROVE  TypeOK'
<1> USE DEF storageVars, dagVars, bftVars, channelVars, processVars
<1>0. {"enter", "ask_skip", "store", "dag", "ask_lite", "fake"} \subseteq Label
  BY DEF Label
<1>1. CASE IncrementAnswered(t)
  <2>1. pc' \in [Task -> Label]
    BY <1>0, <1>1, GotoType DEF IncrementAnswered
  <2> QED BY <1>1, <2>1, ChannelType DEF TypeOK, IncrementAnswered
<1>2. CASE LiteSkips(t) \/ LiteTooSoon(t)
  BY <1>2, GotoType DEF TypeOK, LiteSkips, LiteTooSoon
<1>3. CASE LiteAsks(t)
  <2>1. pc' \in [Task -> Label]
    BY <1>0, <1>3, GotoType DEF LiteAsks
  <2>2. tx_primary_round' \in [Task -> Nat]
    BY <1>3 DEF TypeOK, LiteAsks
  <2> QED BY <1>3, <2>1, <2>2 DEF TypeOK, LiteAsks
<1>4. CASE LiteAsked(t)
  BY <1>4, GotoType, ChannelType DEF TypeOK, LiteAsked
<1>5. CASE LiteProposes(t)
  <2>1. pc' \in [Task -> Label]
    BY <1>0, <1>5, GotoType DEF LiteProposes
  <2>2. NewCertificate(Self, current_round) \in Certificate
    BY NewCertificateType, SelfType DEF TypeOK
  <2>3. batch' \in [Task -> SUBSET Certificate]
    BY <1>5, <2>2 DEF TypeOK, LiteProposes
  <2> QED BY <1>5, <2>1, <2>3 DEF TypeOK, LiteProposes
<1>6. CASE LiteStores(t)
  <2>1. PICK c \in batch[t] :
          /\ InsertCertificate(c)
          /\ IF CanInsert(c)
             THEN Send(t, c) /\ Goto(t, "dag") /\ UNCHANGED lock_holder
             ELSE UNCHANGED tx_primary_certificate /\ Return(t, FALSE) /\ lock_holder' = {}
    BY <1>6 DEF LiteStores
  <2>2. c \in Certificate
    BY DEF TypeOK
  <2>3. certificates' \subseteq Certificate
    BY <2>1, <2>2, InsertType
  <2>4. pc' \in [Task -> Label]
    BY <1>0, <2>1, GotoType
  <2>5. tx_primary_certificate' \in [Task -> SUBSET Certificate] /\ lock_holder' \subseteq Task
    BY <2>1, <2>2, ChannelType DEF TypeOK
  <2> QED BY <1>6, <2>3, <2>4, <2>5 DEF TypeOK, LiteStores
<1>7. CASE LiteFails(t)
  <2>1. faults' \in 0..MaxFaults
    BY <1>7, FaultAssumption DEF TypeOK, LiteFails, Fault
  <2> QED BY <1>7, <2>1, GotoType DEF TypeOK, LiteFails
<1>8. CASE LiteInDag(t)
  <2>1. PICK c \in batch[t] :
         IF callback[t] = "ok"
         THEN /\ current_round' = FastForwarded(c.round + 1)
              /\ IF current_round' < c.round + 1
                 THEN /\ tx_primary_round' = [tx_primary_round EXCEPT ![t] = current_round']
                      /\ Goto(t, "ask_lite")
                      /\ UNCHANGED <<lock_holder, vid>>
                 ELSE /\ UNCHANGED tx_primary_round
                      /\ Goto(t, "fake")
                      /\ lock_holder' = {}
                      /\ vid' = [vid EXCEPT ![t] = 1]
         ELSE /\ Return(t, FALSE)
              /\ lock_holder' = {}
              /\ UNCHANGED <<current_round, tx_primary_round, vid>>
    BY <1>8 DEF LiteInDag
  <2>2. c.round + 1 \in Nat
    BY CertificateFields DEF TypeOK
  <2>a. /\ current_round \in Nat /\ tx_primary_round \in [Task -> Nat]
        /\ vid \in [Task -> Nat] /\ lock_holder \subseteq Task
    BY DEF TypeOK
  <2>b. FastForwarded(c.round + 1) \in Nat
    BY <2>2, RoundTypes
  <2>3. current_round' \in Nat
    BY <2>1, <2>a, <2>b
  <2>4. pc' \in [Task -> Label]
    BY <1>0, <2>1, GotoType
  <2>5. tx_primary_round' \in [Task -> Nat] /\ vid' \in [Task -> Nat] /\ lock_holder' \subseteq Task
    <3>1. CASE callback[t] # "ok"
      BY <2>1, <2>a, <3>1
    <3>2. CASE callback[t] = "ok" /\ current_round' < c.round + 1
      BY <2>1, <2>3, <2>a, <3>2
    <3>3. CASE callback[t] = "ok" /\ ~(current_round' < c.round + 1)
      BY <2>1, <2>a, <3>3
    <3> QED BY <3>1, <3>2, <3>3
  <2> QED BY <1>8, <2>3, <2>4, <2>5, ChannelType DEF TypeOK, LiteInDag
<1>9. CASE LiteDone(t)
  <2>1. pc' \in [Task -> Label]
    BY <1>0, <1>9, GotoType DEF LiteDone
  <2>2. vid' \in [Task -> Nat]
    BY <1>9 DEF TypeOK, LiteDone
  <2> QED BY <1>9, <2>1, <2>2, ChannelType DEF TypeOK, LiteDone
<1> QED BY <1>1, <1>2, <1>3, <1>4, <1>5, <1>6, <1>7, <1>8, <1>9

\* fake_proposal.
LEMMA TypeFake ==
    ASSUME TypeOK, NEW t \in Task,
           FakeProposal(t) \/ FakeStores(t) \/ FakeFails(t) \/ FakeInDag(t)
    PROVE  TypeOK'
<1> USE DEF storageVars, dagVars, bftVars, channelVars, processVars
<1>0. {"fake", "fake_store", "fake_dag"} \subseteq Label
  BY DEF Label
<1>1. CASE FakeProposal(t)
  <2>1. PICK c \in batch[t] :
         IF vid[t] \in Validator
         THEN /\ batch' = [batch EXCEPT ![t] = {NewCertificate(vid[t], c.round)}]
              /\ Goto(t, "fake_store")
         ELSE UNCHANGED batch /\ Return(t, TRUE)
    BY <1>1 DEF FakeProposal
  <2>2. c.round \in Nat
    BY CertificateFields DEF TypeOK
  <2>3. batch' \in [Task -> SUBSET Certificate]
    <3>1. batch \in [Task -> SUBSET Certificate]
      BY DEF TypeOK
    <3>2. CASE vid[t] \in Validator
      <4>1. NewCertificate(vid[t], c.round) \in Certificate
        BY <2>2, <3>2, NewCertificateType
      <4> QED BY <2>1, <3>1, <3>2, <4>1
    <3> QED BY <2>1, <3>1, <3>2
  <2>4. pc' \in [Task -> Label]
    BY <1>0, <2>1, GotoType
  <2> QED BY <1>1, <2>3, <2>4 DEF TypeOK, FakeProposal
<1>2. CASE FakeStores(t)
  <2>1. PICK c \in batch[t] :
         /\ InsertCertificate(c)
         /\ IF ~CanInsert(c)
            THEN /\ Return(t, FALSE)
                 /\ UNCHANGED <<vid, signed_proposals, tx_primary_certificate>>
            ELSE IF signed_proposals[c.author] = c.round
            THEN /\ Goto(t, "fake")
                 /\ vid' = [vid EXCEPT ![t] = @ + 1]
                 /\ UNCHANGED <<signed_proposals, tx_primary_certificate>>
            ELSE /\ signed_proposals' = [signed_proposals EXCEPT ![c.author] = c.round]
                 /\ Send(t, c)
                 /\ Goto(t, "fake_dag")
                 /\ UNCHANGED vid
    BY <1>2 DEF FakeStores
  <2>2. c \in Certificate /\ c.round \in Nat
    BY CertificateFields DEF TypeOK
  <2>3. certificates' \subseteq Certificate
    BY <2>1, <2>2, InsertType
  <2>4. pc' \in [Task -> Label]
    BY <1>0, <2>1, GotoType
  <2>5. vid' \in [Task -> Nat] /\ signed_proposals' \in [Validator -> Nat]
    <3>1. /\ vid \in [Task -> Nat] /\ vid[t] + 1 \in Nat
          /\ signed_proposals \in [Validator -> Nat]
      BY DEF TypeOK
    <3>2. CASE ~CanInsert(c)
      BY <2>1, <3>1, <3>2
    <3>3. CASE CanInsert(c) /\ signed_proposals[c.author] = c.round
      BY <2>1, <3>1, <3>3
    <3>4. CASE CanInsert(c) /\ signed_proposals[c.author] # c.round
      BY <2>1, <2>2, <3>1, <3>4
    <3> QED BY <3>2, <3>3, <3>4
  <2>6. tx_primary_certificate' \in [Task -> SUBSET Certificate]
    BY <2>1, <2>2, ChannelType DEF TypeOK
  <2> QED BY <1>2, <2>3, <2>4, <2>5, <2>6 DEF TypeOK, FakeStores
<1>3. CASE FakeFails(t)
  <2>1. faults' \in 0..MaxFaults
    BY <1>3, FaultAssumption DEF TypeOK, FakeFails, Fault
  <2> QED BY <1>3, <2>1, GotoType DEF TypeOK, FakeFails
<1>4. CASE FakeInDag(t)
  <2>1. pc' \in [Task -> Label]
    BY <1>0, <1>4, GotoType DEF FakeInDag
  <2>2. vid' \in [Task -> Nat]
    <3>1. vid \in [Task -> Nat] /\ vid[t] + 1 \in Nat
      BY DEF TypeOK
    <3> QED BY <1>4, <3>1 DEF FakeInDag
  <2> QED BY <1>4, <2>1, <2>2, ChannelType DEF TypeOK, FakeInDag
<1> QED BY <1>1, <1>2, <1>3, <1>4

-----------------------------------------------------------------------------
(* Bootup and shutdown.                                                     *)

\* The recent blocks hold certificates.
LEMMA RecentType ==
    ASSUME TypeOK
    PROVE  RecentCertificates \subseteq LedgerCertificates
<1> DEFINE low == MaxOf(1, SaturatingSub(Len(ledger), MaxGcRounds \div 2))
<1> DEFINE Block == [anchor : Nat, certificates : SUBSET Certificate]
<1>1. Len(ledger) \in Nat
  <2>1. ledger \in Seq(Block)
    BY DEF TypeOK
  <2> HIDE DEF Block
  <2> QED BY <2>1
<1>2. MaxGcRounds \div 2 \in Nat
  BY StorageAssumption
<1>3. low \in Nat /\ low >= 1
  <2>1. SaturatingSub(Len(ledger), MaxGcRounds \div 2) \in Nat
    BY <1>1, <1>2, SaturatingSubType
  <2> QED BY <2>1 DEF MaxOf
<1>4. low..Len(ledger) \subseteq 1..Len(ledger)
  BY <1>1, <1>3
<1> QED BY <1>4 DEF RecentCertificates, RecentBlocks, LedgerCertificates

\* Bootup.
LEMMA TypeBoot ==
    ASSUME TypeOK, Boot \/ BootStep
    PROVE  TypeOK'
<1> USE DEF storageVars, dagVars, bftVars, channelVars, primaryVars, taskVars, processVars
<1>0. {"load", "load_store", "load_dag", "done", "idle"} \subseteq Label
  BY DEF Label
<1>1. CASE Boot
  <2>1. MaxOf(1, LatestAnchor) \in Nat
    BY LatestAnchorType DEF MaxOf
  <2>2. gc_round' \in Nat /\ current_round' \in Nat
    BY <1>1, <2>1, SaturatingSubType, StorageAssumption DEF Boot
  <2>3. todo' \subseteq Certificate
    BY <1>1, RecentType, LedgerType DEF Boot
  <2>4. run' \in 0..MaxRuns
    BY <1>1, PrimaryAssumption DEF TypeOK, Boot
  <2> QED BY <1>1, <2>2, <2>3, <2>4 DEF TypeOK, Boot
<1>2. CASE SyncCertificate
  <2>1. PICK c \in Earliest(todo) : InsertCertificate(c) /\ todo' = todo \ {c}
    BY <1>2 DEF SyncCertificate
  <2>2. c \in Certificate
    BY DEF TypeOK, Earliest
  <2>3. certificates' \subseteq Certificate
    BY <2>1, <2>2, InsertType
  <2> QED BY <1>2, <2>1, <2>3 DEF TypeOK, SyncCertificate
<1>3. CASE LoadProposalCache
  <2>1. pc' \in [Task -> Label]
    BY <1>0, <1>3, GotoType DEF LoadProposalCache
  <2>2. tx_sync_bft_dag' \subseteq SUBSET Certificate
    BY <1>3, RecentType, LedgerType DEF LoadProposalCache
  <2>3. /\ propose_lock' \in Nat /\ signed_proposals' \in [Validator -> Nat]
        /\ todo' \subseteq Certificate
    <3>1. CASE cache = {}
      BY <1>3, <3>1 DEF TypeOK, LoadProposalCache
    <3>2. ASSUME NEW saved \in cache
          PROVE  /\ saved.round \in Nat /\ saved.signed \in [Validator -> Nat]
                 /\ saved.pending \subseteq Certificate
      BY DEF TypeOK, SavedCache
    <3> QED BY <1>3, <3>1, <3>2 DEF LoadProposalCache
  <2> QED BY <1>3, <2>1, <2>2, <2>3 DEF TypeOK, LoadProposalCache
<1>4. CASE LoadNext
  <2>1. PICK c \in Earliest(todo) :
         /\ todo' = todo \ {c}
         /\ loading' = {c}
         /\ IF c.round <= gc_round \/ c \in certificates
            THEN UNCHANGED <<current_round, tx_primary_round, pc>>
            ELSE IF IsBehind(c)
                 THEN TryIncrement("boot", c.round)
                 ELSE Goto("boot", "load_store") /\ UNCHANGED <<current_round, tx_primary_round>>
    BY <1>4 DEF LoadNext
  <2>2. c \in Certificate /\ c.round \in Nat
    BY CertificateFields DEF TypeOK, Earliest
  <2>3. /\ current_round' \in Nat
        /\ tx_primary_round' \in [Task -> Nat]
        /\ pc' \in [Task -> Label]
    <3>1. /\ current_round \in Nat /\ tx_primary_round \in [Task -> Nat]
          /\ pc \in [Task -> Label]
      BY DEF TypeOK
    <3>2. CASE c.round <= gc_round \/ c \in certificates
      BY <2>1, <3>1, <3>2
    <3>3. CASE ~(c.round <= gc_round \/ c \in certificates)
      BY <1>0, <2>1, <2>2, <3>1, <3>3, TryIncrementType, GotoType
    <3> QED BY <3>2, <3>3
  <2> QED BY <1>4, <2>1, <2>2, <2>3 DEF TypeOK, LoadNext
<1>5. CASE LoadStore
  <2>1. PICK c \in loading :
         /\ InsertCertificate(c)
         /\ IF CanInsert(c)
            THEN Send("boot", c) /\ Goto("boot", "load_dag")
            ELSE UNCHANGED tx_primary_certificate /\ Goto("boot", "load")
    BY <1>5 DEF LoadStore
  <2>2. c \in Certificate
    BY DEF TypeOK
  <2>3. certificates' \subseteq Certificate
    BY <2>1, <2>2, InsertType
  <2>4. pc' \in [Task -> Label]
    BY <1>0, <2>1, GotoType
  <2>5. tx_primary_certificate' \in [Task -> SUBSET Certificate]
    BY <2>1, <2>2, ChannelType DEF TypeOK
  <2> QED BY <1>5, <2>3, <2>4, <2>5 DEF TypeOK, LoadStore
<1>6. CASE LoadFails
  <2>1. faults' \in 0..MaxFaults
    BY <1>6, FaultAssumption DEF TypeOK, LoadFails, Fault
  <2>2. pc' \in [Task -> Label]
    BY <1>0, <1>6, GotoType DEF LoadFails
  <2> QED BY <1>6, <2>1, <2>2 DEF TypeOK, LoadFails
<1>7. CASE LoadInDag
  <2>1. pc' \in [Task -> Label]
    BY <1>0, <1>7, GotoType DEF LoadInDag
  <2> QED BY <1>7, <2>1, ChannelType DEF TypeOK, LoadInDag
<1>8. CASE StartHandlers
  <2>1. pc' \in [Task -> Label]
    BY <1>0, <1>8 DEF StartHandlers
  <2>2. batch' \in [Task -> SUBSET Certificate]
    BY <1>8 DEF TypeOK, StartHandlers
  <2> QED BY <1>8, <2>1, <2>2 DEF TypeOK, StartHandlers
<1> QED BY <1>1, <1>2, <1>3, <1>4, <1>5, <1>6, <1>7, <1>8 DEF BootStep

\* Shutdown and crash.
LEMMA TypeStop ==
    ASSUME TypeOK, SetShutdown \/ ShutDown \/ Crash
    PROVE  TypeOK'
<1> USE DEF storageVars, dagVars, bftVars, channelVars, primaryVars, taskVars, processVars
<1>1. CASE SetShutdown
  BY <1>1 DEF TypeOK, SetShutdown
<1>2. ASSUME PowerOff, cache' \subseteq SavedCache, UNCHANGED <<ledger, faults, run>>
      PROVE  TypeOK'
  <2>1. handler' \in [pc : {"idle", "check", "commit"}, from : SUBSET Task, round : Nat,
                      chain : SUBSET Certificate]
    BY <1>2 DEF PowerOff, Idle
  <2> QED BY <1>2, <2>1 DEF TypeOK, PowerOff, Label
<1>3. CASE ShutDown
  <2>1. PICK finished \in SUBSET InFlight :
         LET stored == certificates \cup
                         {c \in UNION {batch[t] : t \in finished} : CanInsert(c)}
         IN  cache' = {[round   |-> propose_lock,
                        signed  |-> signed_proposals,
                        pending |-> {c \in stored : c \notin LedgerCertificates}]}
    BY <1>3 DEF ShutDown
  <2>2. finished \subseteq Task
    BY DEF InFlight
  <2>3. cache' \subseteq SavedCache
    BY <2>1, <2>2 DEF TypeOK, SavedCache
  <2> QED BY <1>2, <1>3, <2>3 DEF ShutDown
<1>4. CASE Crash
  BY <1>2, <1>4 DEF Crash, TypeOK
<1> QED BY <1>1, <1>3, <1>4

\* Every step keeps the types.
LEMMA TypeNext == TypeOK /\ [Next]_vars => TypeOK'
<1> SUFFICES ASSUME TypeOK, [Next]_vars PROVE TypeOK'
  OBVIOUS
<1>1. CASE UNCHANGED vars
  BY <1>1 DEF TypeOK, vars, storageVars, dagVars, bftVars, channelVars, primaryVars,
              taskVars, processVars
<1>2. ASSUME NEW t \in Task, RoundHandler(t) \/ CertificateHandler(t) \/ TaskStep(t)
      PROVE  TypeOK'
  BY <1>2, TypeRound, TypeCertificate, TypeLite, TypeFake DEF TaskStep
<1> QED
  BY <1>1, <1>2, TypeBoot, TypeStop, TypeLoops, TypeCommit, TypeSync DEF Next

\* The types of every reachable state, whatever the interleaving, the failures and
\* the restarts: in particular no round ever becomes negative, and only certificates
\* of the committee enter the storage, the DAG, the ledger and the cache.
THEOREM TypeCorrect == Spec => []TypeOK
<1>1. Init => TypeOK
  BY TypeInit
<1>2. TypeOK /\ [Next]_vars => TypeOK'
  BY TypeNext
<1> QED BY <1>1, <1>2, PTL DEF Spec

-----------------------------------------------------------------------------
(* The storage has no gap above the GC round.  StorageClosed is not inductive *)
(* as it stands: that garbage collection removes nothing a kept certificate  *)
(* refers to needs the references of a certificate to be in the round before *)
(* its own, and that a process boots with an empty storage (the GC round     *)
(* moves then) needs its tasks to be off.                                    *)

\* Nothing is stored, and no task runs, while the process is down.
DownInv ==
    status = "down" => certificates = {} /\ \A t \in Task : pc[t] = "off"

\* What check_batch_header established of a certificate still holds.
GapInv ==
    \A c \in certificates :
        c.round - 1 > gc_round =>
            /\ \A id \in c.previous : id.round = c.round - 1 /\ id \in IDs(certificates)
            /\ IsQuorum(Authors(c.previous))

\* The two things a step may do to the storage of a process that is up, if it does
\* anything: insert a certificate, or collect garbage.
Inserts == gc_round' = gc_round /\ \E c \in Certificate : InsertCertificate(c)

Collects == \E r \in Nat : GarbageCollect(r)

\* The handlers of the BFT touch the storage only to collect garbage.
LEMMA HandlerStorageStep ==
    ASSUME TypeOK,
           \/ CommitHandler \/ SyncHandler
           \/ \E t \in Task : RoundHandler(t) \/ CertificateHandler(t)
    PROVE  /\ UNCHANGED <<status, pc>>
           /\ UNCHANGED <<gc_round, certificates>> \/ Collects
<1> USE DEF storageVars, dagVars, bftVars, channelVars, primaryVars, taskVars, processVars
<1>1. CASE CommitHandler
  <2>1. UNCHANGED <<status, pc>>
    BY <1>1 DEF CommitHandler
  <2>2. CASE CollectGarbage
    <3>1. handler.round \in Nat
      BY DEF TypeOK
    <3> QED BY <2>1, <2>2, <3>1 DEF CollectGarbage, Collects
  <2>3. CASE CheckLeader \/ CommitLeader \/ AdvanceFails \/ CommitFails
    BY <2>1, <2>3 DEF CheckLeader, CommitLeader, AdvanceFails, CommitFails
  <2> QED BY <1>1, <2>2, <2>3 DEF CommitHandler
<1>2. CASE SyncHandler
  BY <1>2 DEF SyncHandler, SyncBftDagAtBootup
<1>3. ASSUME NEW t \in Task, RoundHandler(t) \/ CertificateHandler(t)
      PROVE  UNCHANGED <<status, pc, gc_round, certificates>>
  BY <1>3 DEF RoundHandler, CertificateHandler, UpdateToNextRound, UpdateDag
<1> QED BY <1>1, <1>2, <1>3

\* The tasks of the primary touch the storage only to insert a certificate.
LEMMA TaskStorageStep ==
    ASSUME TypeOK, DownInv,
           ProposerWakes \/ IncrementWakes \/ \E t \in Task : TaskStep(t)
    PROVE  /\ status # "down" /\ status' # "down"
           /\ UNCHANGED <<gc_round, certificates>> \/ Inserts
<1> USE DEF storageVars, dagVars, bftVars, channelVars, primaryVars, taskVars, processVars
<1>1. CASE ProposerWakes \/ IncrementWakes
  BY <1>1 DEF ProposerWakes, IncrementWakes
<1>2. ASSUME NEW t \in Task, TaskStep(t)
      PROVE  /\ status # "down" /\ status' # "down"
             /\ UNCHANGED <<gc_round, certificates>> \/ Inserts
  <2>0. batch[t] \subseteq Certificate
    BY DEF TypeOK
  <2>1. status # "down" /\ status' = status
    BY <1>2 DEF DownInv, TaskStep, IncrementAnswered, LiteSkips, LiteTooSoon, LiteAsks,
                LiteAsked, LiteProposes, LiteStores, LiteFails, LiteInDag, LiteDone,
                FakeProposal, FakeStores, FakeFails, FakeInDag
  <2>2. CASE LiteStores(t)
    BY <2>0, <2>1, <2>2 DEF LiteStores, Inserts
  <2>3. CASE FakeStores(t)
    BY <2>0, <2>1, <2>3 DEF FakeStores, Inserts
  <2>4. CASE LiteSkips(t) \/ LiteTooSoon(t) \/ LiteAsks(t) \/ LiteAsked(t)
    BY <2>1, <2>4 DEF LiteSkips, LiteTooSoon, LiteAsks, LiteAsked
  <2>5. CASE IncrementAnswered(t) \/ LiteProposes(t) \/ LiteFails(t) \/ LiteDone(t)
    BY <2>1, <2>5 DEF IncrementAnswered, LiteProposes, LiteFails, LiteDone
  <2>6. CASE LiteInDag(t)
    BY <2>1, <2>6 DEF LiteInDag
  <2>7. CASE FakeProposal(t) \/ FakeFails(t) \/ FakeInDag(t)
    BY <2>1, <2>7 DEF FakeProposal, FakeFails, FakeInDag
  <2> QED BY <1>2, <2>2, <2>3, <2>4, <2>5, <2>6, <2>7 DEF TaskStep
<1> QED BY <1>1, <1>2

\* So does bootup.
LEMMA BootStorageStep ==
    ASSUME TypeOK, DownInv, BootStep \/ SetShutdown
    PROVE  /\ status # "down" /\ status' # "down"
           /\ UNCHANGED <<gc_round, certificates>> \/ Inserts
<1> USE DEF storageVars, dagVars, bftVars, channelVars, primaryVars, taskVars, processVars
<1>1. CASE SyncCertificate
  <2>1. PICK c \in Earliest(todo) : InsertCertificate(c)
    BY <1>1 DEF SyncCertificate
  <2>2. c \in Certificate
    BY DEF TypeOK, Earliest
  <2> QED BY <1>1, <2>1, <2>2 DEF SyncCertificate, Inserts
<1>2. CASE LoadStore
  <2>1. loading \subseteq Certificate
    BY DEF TypeOK
  <2> QED BY <1>2, <2>1 DEF LoadStore, DownInv, Inserts
<1>3. CASE LoadProposalCache \/ LoadNext
  BY <1>3 DEF LoadProposalCache, LoadNext, DownInv
<1>4. CASE LoadFails \/ LoadInDag \/ StartHandlers \/ SetShutdown
  BY <1>4 DEF LoadFails, LoadInDag, StartHandlers, SetShutdown, DownInv
<1> QED BY <1>1, <1>2, <1>3, <1>4 DEF BootStep

-----------------------------------------------------------------------------
(* The two operations of the storage keep GapInv.                           *)

\* A certificate with an ID of a set is in it.
LEMMA IDsMember ==
    ASSUME NEW C, NEW id \in IDs(C)
    PROVE  \E c \in C : id = ID(c)
BY DEF IDs

\* Insertion: the new certificate passed check_batch_header, the others lose nothing.
LEMMA InsertKeepsGap ==
    ASSUME TypeOK, GapInv, Inserts
    PROVE  GapInv'
<1>1. PICK c \in Certificate : InsertCertificate(c)
  BY DEF Inserts
<1>2. gc_round' = gc_round
  BY DEF Inserts
<1>3. CASE ~CanInsert(c)
  BY <1>1, <1>2, <1>3 DEF InsertCertificate, GapInv
<1>4. CASE CanInsert(c)
  <2>1. certificates' = certificates \cup {c} /\ PreviousOk(c)
    BY <1>1, <1>4 DEF InsertCertificate, CanInsert
  <2>2. IDs(certificates) \subseteq IDs(certificates')
    BY <2>1 DEF IDs
  <2> QED BY <1>2, <2>1, <2>2 DEF GapInv, PreviousOk
<1> QED BY <1>3, <1>4

\* Garbage collection: what a kept certificate refers to, above the new GC round, is
\* above it as well.
LEMMA CollectKeepsGap ==
    ASSUME TypeOK, GapInv, Collects
    PROVE  GapInv'
<1>1. PICK r \in Nat : GarbageCollect(r)
  BY DEF Collects
<1> DEFINE next_gc == SaturatingSub(r, MaxGcRounds)
<1>2. next_gc \in Nat /\ gc_round \in Nat
  BY SaturatingSubType, StorageAssumption DEF TypeOK
<1>3. CASE ~(next_gc > gc_round)
  BY <1>1, <1>3 DEF GarbageCollect, GapInv
<1>4. CASE next_gc > gc_round
  <2>1. /\ gc_round' = next_gc
        /\ certificates' = {c \in certificates : c.round \notin gc_round..next_gc}
    BY <1>1, <1>4 DEF GarbageCollect
  <2> SUFFICES ASSUME NEW c \in certificates', c.round - 1 > gc_round'
               PROVE  /\ \A id \in c.previous :
                            id.round = c.round - 1 /\ id \in IDs(certificates')
                      /\ IsQuorum(Authors(c.previous))
    BY DEF GapInv
  <2>2. c \in certificates /\ c.round \in Nat
    BY <2>1, CertificateFields DEF TypeOK
  <2>3. c.round - 1 > gc_round
    BY <1>2, <1>4, <2>1, <2>2
  <2>4. ASSUME NEW id \in c.previous
        PROVE  id.round = c.round - 1 /\ id \in IDs(certificates')
    <3>1. id.round = c.round - 1 /\ id \in IDs(certificates)
      BY <2>2, <2>3 DEF GapInv
    <3>2. PICK d \in certificates : id = ID(d)
      BY <3>1, IDsMember
    <3>3. d.round = c.round - 1
      BY <3>1, <3>2 DEF ID
    <3>4. d \in certificates'
      BY <1>2, <2>1, <2>2, <3>3
    <3> QED BY <3>1, <3>2, <3>4 DEF IDs
  <2> QED BY <2>2, <2>3, <2>4 DEF GapInv
<1> QED BY <1>3, <1>4

-----------------------------------------------------------------------------
(* The theorem.                                                             *)

ClosedInv == TypeOK /\ DownInv /\ GapInv

\* The initial storage is empty.
LEMMA ClosedInit == Init => ClosedInv
BY TypeInit DEF Init, ClosedInv, DownInv, GapInv

\* Every step keeps the strengthened invariant.
LEMMA ClosedNext == ClosedInv /\ [Next]_vars => ClosedInv'
<1> SUFFICES ASSUME TypeOK, DownInv, GapInv, [Next]_vars
             PROVE  DownInv' /\ GapInv'
  BY TypeNext DEF ClosedInv
<1> USE DEF storageVars, dagVars, bftVars, channelVars, primaryVars, taskVars, processVars
<1>1. CASE UNCHANGED vars
  BY <1>1 DEF vars, DownInv, GapInv
<1>2. CASE Boot
  BY <1>2 DEF Boot, DownInv, GapInv
<1>3. CASE ShutDown \/ Crash
  BY <1>3 DEF ShutDown, Crash, PowerOff, DownInv, GapInv
<1>4. CASE \/ CommitHandler \/ SyncHandler
           \/ \E t \in Task : RoundHandler(t) \/ CertificateHandler(t)
  <2>1. /\ UNCHANGED <<status, pc>>
        /\ UNCHANGED <<gc_round, certificates>> \/ Collects
    BY <1>4, HandlerStorageStep
  <2>2. certificates' \subseteq certificates
    BY <2>1 DEF Collects, GarbageCollect
  <2>3. GapInv'
    BY <2>1, CollectKeepsGap DEF GapInv
  <2> QED BY <2>1, <2>2, <2>3 DEF DownInv
<1>5. CASE \/ BootStep \/ SetShutdown \/ ProposerWakes \/ IncrementWakes
           \/ \E t \in Task : TaskStep(t)
  <2>1. /\ status' # "down"
        /\ UNCHANGED <<gc_round, certificates>> \/ Inserts
    BY <1>5, TaskStorageStep, BootStorageStep
  <2>2. GapInv'
    BY <2>1, InsertKeepsGap DEF GapInv
  <2> QED BY <2>1, <2>2 DEF DownInv
<1> QED BY <1>1, <1>2, <1>3, <1>4, <1>5 DEF Next

\* Whatever the interleaving of the tasks, the failures and the restarts, a stored
\* certificate whose previous round is above the GC round has a quorum of references,
\* and the storage holds every one of them: Storage::insert_certificate and
\* Storage::garbage_collect_certificates never leave a gap.
THEOREM StorageHasNoGap == Spec => []StorageClosed
<1>1. Init => ClosedInv
  BY ClosedInit
<1>2. ClosedInv /\ [Next]_vars => ClosedInv'
  BY ClosedNext
<1>3. ClosedInv => StorageClosed
  BY DEF ClosedInv, GapInv, StorageClosed
<1> QED BY <1>1, <1>2, <1>3, PTL DEF Spec
=============================================================================
