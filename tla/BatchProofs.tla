---------------------------- MODULE BatchProofs ----------------------------
(***************************************************************************)
(* In one run of the process validator 0 makes at most one batch for a     *)
(* round.  The inductive invariant adds what the argument needs to know:   *)
(*   - every certificate in the process, on disk or on its way to the BFT  *)
(*     was made by this run or an earlier one (RunInv), and what bootup    *)
(*     loads was made by an earlier one (OldInv);                          *)
(*   - until the proposal cache is loaded, which may lower the propose     *)
(*     lock, no task runs and this run has made no batch (EarlyInv);       *)
(*   - the batches made without the propose lock are never validator 0's   *)
(*     (ForgeInv).                                                         *)
(***************************************************************************)
EXTENDS NodeProofs

USE DEF Task

\* All certificates of C were made by a run before run n.
Older(C, n) == \A c \in C : c.run < n

RunInv ==
    /\ Older(certificates, run + 1) /\ Older(graph, run + 1)
    /\ Older(handler.chain, run + 1) /\ Older(LedgerCertificates, run + 1)
    /\ \A t \in Task : Older(tx_primary_certificate[t], run + 1) /\ Older(batch[t], run + 1)
    /\ \A saved \in cache : Older(saved.pending, run + 1)

OldInv ==
    /\ status = "down" => loading = {}
    /\ status # "down" =>
          /\ Older(todo, run) /\ Older(loading, run)
          /\ \A saved \in cache : Older(saved.pending, run)

EarlyInv ==
    status \in {"down", "syncing"} =>
        OwnBatches = {} /\ \A t \in Task : pc[t] = "off"

ForgeInv ==
    \A t \in Task : pc[t] \in {"fake", "fake_store", "fake_dag"} => vid[t] >= 1

BatchInv == TypeOK /\ RunInv /\ OldInv /\ EarlyInv /\ ForgeInv /\ OneOwnBatchPerRound

-----------------------------------------------------------------------------
(* Facts about the operators.                                               *)

\* The members of OwnBatches, before and after a step.
LEMMA OwnMember ==
    /\ \A c : c \in OwnBatches <=>
            /\ c.author = Self /\ c.run = run
            /\ c \in certificates \/ \E t \in Task : c \in batch[t]
    /\ \A c : c \in OwnBatches' <=>
            /\ c.author = Self /\ c.run = run'
            /\ c \in certificates' \/ \E t \in Task : c \in batch'[t]
BY DEF OwnBatches

\* The run is a number.
LEMMA RunType ==
    ASSUME TypeOK
    PROVE  run \in Nat
BY PrimaryAssumption DEF TypeOK

\* A larger bound on the runs of a set of certificates.
LEMMA OlderWeaken ==
    ASSUME NEW C, C \subseteq Certificate, NEW m \in Nat, NEW n \in Nat, m <= n,
           Older(C, m)
    PROVE  Older(C, n)
BY CertificateFields DEF Older

\* A block adds its certificates to those of the ledger.
LEMMA LedgerAppend ==
    ASSUME TypeOK, NEW a \in Nat, NEW C \in SUBSET Certificate,
           ledger' = Append(ledger, [anchor |-> a, certificates |-> C])
    PROVE  LedgerCertificates' \subseteq LedgerCertificates \cup C
<1> DEFINE Block == [anchor : Nat, certificates : SUBSET Certificate]
<1> DEFINE b == [anchor |-> a, certificates |-> C]
<1>1. ledger \in Seq(Block) /\ b \in Block /\ b.certificates = C /\ ledger' = Append(ledger, b)
  BY DEF TypeOK
<1>2. /\ Len(ledger) \in Nat
      /\ Len(ledger') = Len(ledger) + 1
      /\ ledger'[Len(ledger) + 1] = b
      /\ \A h \in 1..Len(ledger) : ledger'[h] = ledger[h]
  <2> HIDE DEF Block, b
  <2> QED BY <1>1
<1>3. ASSUME NEW h \in 1..Len(ledger')
      PROVE  ledger'[h].certificates \subseteq LedgerCertificates \cup C
  <2>1. CASE h = Len(ledger) + 1
    BY <1>1, <1>2, <2>1
  <2>2. CASE h \in 1..Len(ledger)
    BY <1>2, <2>2 DEF LedgerCertificates
  <2> QED BY <1>2, <2>1, <2>2
<1> QED BY <1>3 DEF LedgerCertificates

\* The DAG gains at most the inserted certificate.
LEMMA DagInsertedSubset ==
    ASSUME NEW c
    PROVE  DagInserted(c) \subseteq graph \cup {c}
BY DEF DagInserted

\* The leaders to commit are in the DAG.
LEMMA LeaderChainSubset ==
    ASSUME NEW l \in ReadyLeader
    PROVE  LeaderChain(l) \subseteq graph
BY DEF ReadyLeader, LeaderIn, LeaderChain, PreviousLeaders

\* If this run has made no new batch and the lock is the same, the property stays.
LEMMA OwnShrinks ==
    ASSUME OneOwnBatchPerRound, OwnBatches' \subseteq OwnBatches,
           propose_lock' = propose_lock
    PROVE  OneOwnBatchPerRound'
BY DEF OneOwnBatchPerRound

-----------------------------------------------------------------------------
(* The handlers of the BFT.                                                 *)

\* They move certificates between the channels, the DAG and the ledger, and make none.
LEMMA HandlerRunInv ==
    ASSUME TypeOK, RunInv,
           \/ CommitHandler \/ SyncHandler
           \/ \E t \in Task : RoundHandler(t) \/ CertificateHandler(t)
    PROVE  RunInv'
<1> USE DEF storageVars, dagVars, bftVars, channelVars, primaryVars, taskVars, processVars
<1>1. UNCHANGED <<primaryVars, processVars>> /\ certificates' \subseteq certificates
  <2>1. UNCHANGED <<gc_round, certificates>> \/ Collects
    BY HandlerStorageStep
  <2>2. UNCHANGED <<primaryVars, processVars>>
    BY DEF CommitHandler, SyncHandler, RoundHandler, CertificateHandler
  <2> QED BY <2>1, <2>2 DEF Collects, GarbageCollect
<1>2. SUFFICES /\ \A c \in graph' : c.run < run + 1
               /\ \A c \in handler'.chain : c.run < run + 1
               /\ \A c \in LedgerCertificates' : c.run < run + 1
               /\ \A t \in Task : \A c \in tx_primary_certificate'[t] : c.run < run + 1
  BY <1>1 DEF RunInv, Older
<1>3. /\ \A c \in certificates : c.run < run + 1
      /\ \A c \in graph : c.run < run + 1
      /\ \A c \in handler.chain : c.run < run + 1
      /\ \A c \in LedgerCertificates : c.run < run + 1
      /\ \A t \in Task : \A c \in tx_primary_certificate[t] : c.run < run + 1
  BY DEF RunInv, Older
<1>4. ASSUME Answer("ok") \/ Answer("err") PROVE handler'.chain = {}
  BY <1>4 DEF Answer, Idle
<1>5. ASSUME NEW C, NEW top, DagCommit(C, top) PROVE graph' \subseteq graph
  BY <1>5 DEF DagCommit
<1>6. ASSUME ledger' = ledger PROVE LedgerCertificates' = LedgerCertificates
  BY <1>6 DEF LedgerCertificates
<1>7. CASE CheckLeader
  <2>1. /\ UNCHANGED <<dagVars, ledger, tx_primary_certificate>>
        /\ \/ Answer("ok") \/ Answer("err")
           \/ \E l \in ReadyLeader :
                 handler' = [handler EXCEPT !.pc = "commit", !.round = l.round,
                                            !.chain = LeaderChain(l)]
    BY <1>7 DEF CheckLeader
  <2>2. \A c \in handler'.chain : c.run < run + 1
    <3>1. ASSUME NEW l \in ReadyLeader,
                 handler' = [handler EXCEPT !.pc = "commit", !.round = l.round,
                                            !.chain = LeaderChain(l)]
          PROVE  handler'.chain \subseteq graph
      <4> HIDE DEF ReadyLeader, LeaderChain
      <4>1. handler \in [pc : {"idle", "check", "commit"}, from : SUBSET Task, round : Nat,
                         chain : SUBSET Certificate]
        BY DEF TypeOK
      <4>2. handler'.chain = LeaderChain(l)
        BY ONLY <3>1, <4>1
      <4> QED BY <4>2, LeaderChainSubset
    <3> QED BY <1>3, <1>4, <2>1, <3>1
  <2> QED BY <1>3, <1>6, <2>1, <2>2
<1>8. CASE CommitLeader
  <2>1. PICK leader \in OldestLeader :
           \/ Answer("err") /\ UNCHANGED <<ledger, dagVars>>
           \/ /\ ledger' = IF consensus_sender
                           THEN Append(ledger, [anchor |-> leader.round,
                                                certificates |-> Subdag(leader)])
                           ELSE ledger
              /\ DagCommit(Subdag(leader), leader.round)
              /\ handler' = [handler EXCEPT !.chain = @ \ {leader}]
    BY <1>8 DEF CommitLeader
  <2>2. leader \in handler.chain /\ leader \in Certificate /\ leader.round \in Nat
    BY CertificateFields DEF OldestLeader, TypeOK
  <2>3. \A c \in Subdag(leader) : c.run < run + 1
    BY <1>3, <2>2 DEF Subdag, CommitSubdag
  <2>4. Subdag(leader) \in SUBSET Certificate
    BY <2>2, SubdagType
  <2>5. \A c \in LedgerCertificates' : c.run < run + 1
    <3>1. CASE ledger' = ledger
      BY <1>3, <1>6, <3>1
    <3>2. CASE ledger' = Append(ledger, [anchor |-> leader.round,
                                         certificates |-> Subdag(leader)])
      BY <1>3, <2>2, <2>3, <2>4, <3>2, LedgerAppend
    <3> QED BY <2>1, <3>1, <3>2
  <2>6. graph' \subseteq graph
    BY <1>5, <2>1
  <2>7. handler'.chain \subseteq handler.chain
    <3>1. handler \in [pc : {"idle", "check", "commit"}, from : SUBSET Task, round : Nat,
                       chain : SUBSET Certificate]
      BY DEF TypeOK
    <3>2. ASSUME handler' = [handler EXCEPT !.chain = @ \ {leader}]
          PROVE  handler'.chain = handler.chain \ {leader}
      BY ONLY <3>1, <3>2
    <3> QED BY <1>4, <2>1, <3>2
  <2>8. UNCHANGED tx_primary_certificate
    BY <1>8 DEF CommitLeader
  <2> QED BY <1>3, <2>5, <2>6, <2>7, <2>8
<1>9. CASE AdvanceFails \/ CommitFails \/ CollectGarbage
  <2>1. /\ UNCHANGED <<dagVars, ledger, tx_primary_certificate>>
        /\ Answer("ok") \/ Answer("err")
    BY <1>9 DEF AdvanceFails, CommitFails, CollectGarbage
  <2> QED BY <1>3, <1>4, <1>6, <2>1
<1>10. CASE SyncHandler
  <2>1. /\ UNCHANGED <<handler, ledger, tx_primary_certificate>>
        /\ \E C \in tx_sync_bft_dag : DagCommit(C, LatestAnchor)
    BY <1>10 DEF SyncHandler, SyncBftDagAtBootup
  <2> QED BY <1>3, <1>5, <1>6, <2>1
<1>11. ASSUME NEW t \in Task, RoundHandler(t)
       PROVE  UNCHANGED <<dagVars, handler, ledger, tx_primary_certificate>>
  BY <1>11 DEF RoundHandler, UpdateToNextRound
<1>12. ASSUME NEW t \in Task, CertificateHandler(t)
       PROVE  /\ UNCHANGED ledger
              /\ \E c \in tx_primary_certificate[t] : graph' \subseteq graph \cup {c}
              /\ handler'.chain = {}
              /\ \A u \in Task : tx_primary_certificate'[u] \subseteq tx_primary_certificate[u]
  <2>1. PICK c \in tx_primary_certificate[t] :
            /\ graph' = DagInserted(c)
            /\ handler' = [Idle EXCEPT !.pc = "check", !.from = {t}, !.round = c.round]
    BY <1>12 DEF CertificateHandler, UpdateDag
  <2>2. handler'.chain = {}
    BY <2>1 DEF Idle
  <2>3. /\ tx_primary_certificate' = [tx_primary_certificate EXCEPT ![t] = {}]
        /\ UNCHANGED ledger
    BY <1>12 DEF CertificateHandler, UpdateDag
  <2>4. tx_primary_certificate \in [Task -> SUBSET Certificate]
    BY DEF TypeOK
  <2>5. \A u \in Task : tx_primary_certificate'[u] \subseteq tx_primary_certificate[u]
    BY <2>3, <2>4
  <2> QED BY <2>1, <2>2, <2>3, <2>5, DagInsertedSubset
<1>13. ASSUME NEW t \in Task, RoundHandler(t) \/ CertificateHandler(t)
       PROVE  /\ \A c \in graph' : c.run < run + 1
              /\ \A c \in handler'.chain : c.run < run + 1
              /\ \A c \in LedgerCertificates' : c.run < run + 1
              /\ \A u \in Task : \A c \in tx_primary_certificate'[u] : c.run < run + 1
  BY <1>3, <1>6, <1>11, <1>12, <1>13
<1> QED BY <1>7, <1>8, <1>9, <1>10, <1>13 DEF CommitHandler

\* They make no batch and leave the tasks and the process alone.
LEMMA HandlerBatchInv ==
    ASSUME BatchInv,
           \/ CommitHandler \/ SyncHandler
           \/ \E t \in Task : RoundHandler(t) \/ CertificateHandler(t)
    PROVE  RunInv' /\ OldInv' /\ EarlyInv' /\ ForgeInv' /\ OneOwnBatchPerRound'
<1> USE DEF storageVars, dagVars, bftVars, channelVars, primaryVars, taskVars, processVars,
            BatchInv
<1>1. UNCHANGED <<primaryVars, processVars>>
  BY DEF CommitHandler, SyncHandler, RoundHandler, CertificateHandler
<1>2. certificates' \subseteq certificates
  BY HandlerStorageStep DEF Collects, GarbageCollect
<1>3. OwnBatches' \subseteq OwnBatches
  BY <1>1, <1>2, OwnMember
<1>4. OneOwnBatchPerRound'
  BY <1>1, <1>3, OwnShrinks
<1>5. OldInv' /\ ForgeInv'
  BY <1>1 DEF OldInv, ForgeInv, Older
<1>6. EarlyInv'
  BY <1>1, <1>3 DEF EarlyInv
<1> QED BY <1>4, <1>5, <1>6, HandlerRunInv

-----------------------------------------------------------------------------
(* The tasks of the primary.                                                *)

\* A task that takes a step is past the loading of the proposal cache.
LEMMA TaskUp ==
    ASSUME EarlyInv, NEW t \in Task, TaskStep(t)
    PROVE  /\ status \notin {"down", "syncing"}
           /\ UNCHANGED <<processVars, graph, handler, ledger>>
<1> USE DEF storageVars, dagVars, bftVars, channelVars, primaryVars, taskVars, processVars
<1>1. pc[t] # "off"
  BY DEF TaskStep, IncrementAnswered, LiteSkips, LiteTooSoon, LiteAsks, LiteAsked,
         LiteProposes, LiteStores, LiteFails, LiteInDag, LiteDone, FakeProposal,
         FakeStores, FakeFails, FakeInDag
<1>2. UNCHANGED <<processVars, graph, handler, ledger>>
  BY DEF TaskStep, IncrementAnswered, LiteSkips, LiteTooSoon, LiteAsks, LiteAsked,
         LiteProposes, LiteStores, LiteFails, LiteInDag, LiteDone, FakeProposal,
         FakeStores, FakeFails, FakeInDag
<1> QED BY <1>1, <1>2 DEF EarlyInv

\* The batch of a round is made by LiteProposes and FakeProposal only, the storage
\* and the channel get it from there, and only LiteProposes moves the lock.
LEMMA TaskBatch ==
    ASSUME TypeOK, NEW t \in Task, TaskStep(t)
    PROVE  /\ \/ UNCHANGED <<batch, propose_lock>>
              \/ LiteProposes(t)
              \/ FakeProposal(t) /\ UNCHANGED propose_lock
           /\ certificates' \subseteq certificates \cup batch[t]
           /\ \A u \in Task : tx_primary_certificate'[u]
                                 \subseteq tx_primary_certificate[u] \cup batch[t]
<1> USE DEF storageVars, dagVars, bftVars, channelVars, primaryVars, taskVars, processVars
<1>0. tx_primary_certificate \in [Task -> SUBSET Certificate]
  BY DEF TypeOK
<1>1. CASE LiteStores(t) \/ FakeStores(t)
  <2>1. PICK c \in batch[t] :
           /\ InsertCertificate(c)
           /\ UNCHANGED tx_primary_certificate \/ Send(t, c)
    BY <1>1 DEF LiteStores, FakeStores
  <2>2. certificates' \subseteq certificates \cup batch[t]
    BY <2>1 DEF InsertCertificate
  <2>3. \A u \in Task : tx_primary_certificate'[u]
                           \subseteq tx_primary_certificate[u] \cup batch[t]
    <3> HIDE DEF Task
    <3> QED BY <1>0, <2>1 DEF Send
  <2>4. UNCHANGED <<batch, propose_lock>>
    BY <1>1 DEF LiteStores, FakeStores
  <2> QED BY <2>2, <2>3, <2>4
<1>3. CASE LiteProposes(t)
  BY <1>3 DEF LiteProposes
<1>4. CASE FakeProposal(t)
  BY <1>4 DEF FakeProposal
<1>5. CASE LiteSkips(t) \/ LiteTooSoon(t) \/ LiteAsks(t) \/ LiteAsked(t)
  BY <1>5 DEF LiteSkips, LiteTooSoon, LiteAsks, LiteAsked
<1>6. CASE IncrementAnswered(t) \/ LiteFails(t) \/ LiteDone(t)
  BY <1>6 DEF IncrementAnswered, LiteFails, LiteDone
<1>7. CASE LiteInDag(t)
  BY <1>7 DEF LiteInDag
<1>8. CASE FakeFails(t) \/ FakeInDag(t)
  BY <1>8 DEF FakeFails, FakeInDag
<1> QED BY <1>1, <1>3, <1>4, <1>5, <1>6, <1>7, <1>8 DEF TaskStep

\* The labels outside fake_proposal.
Elsewhere == Label \ {"fake", "fake_store", "fake_dag"}

\* A task that goes elsewhere forges nothing.
LEMMA GotoForge ==
    ASSUME TypeOK, ForgeInv, NEW t \in Task, UNCHANGED vid,
           NEW label \in Elsewhere, Goto(t, label)
    PROVE  ForgeInv'
<1>1. \A u \in Task : pc'[u] = label \/ pc'[u] = pc[u]
  <2>1. pc \in [Task -> Label]
    BY DEF TypeOK
  <2> HIDE DEF Task
  <2> QED BY <2>1 DEF Goto
<1> QED BY <1>1 DEF ForgeInv, Elsewhere

\* A task forges from validator 1 on.
LEMMA TaskForge ==
    ASSUME TypeOK, ForgeInv, NEW t \in Task, TaskStep(t)
    PROVE  ForgeInv'
<1> USE DEF storageVars, dagVars, bftVars, channelVars, primaryVars, taskVars, processVars
<1>0. pc \in [Task -> Label] /\ vid \in [Task -> Nat]
  BY DEF TypeOK
<1>1. ASSUME NEW label, Goto(t, label)
      PROVE  pc'[t] = label /\ \A u \in Task \ {t} : pc'[u] = pc[u]
  <2> HIDE DEF Task
  <2> QED BY <1>0, <1>1 DEF Goto
<1>2. ASSUME NEW n \in Nat, vid' = [vid EXCEPT ![t] = n]
      PROVE  vid'[t] = n /\ \A u \in Task \ {t} : vid'[u] = vid[u]
  <2> HIDE DEF Task
  <2> QED BY <1>0, <1>2
<1>3. ReturnLabel(t, TRUE) \in Elsewhere /\ ReturnLabel(t, FALSE) \in Elsewhere
  BY DEF ReturnLabel, Elsewhere, Label
<1>4. ASSUME UNCHANGED vid, NEW label \in Elsewhere, Goto(t, label)
      PROVE  ForgeInv'
  BY <1>4, GotoForge
<1>5. ASSUME vid[t] >= 1, UNCHANGED vid, NEW label, Goto(t, label)
      PROVE  ForgeInv'
  <2>1. \A u \in Task \ {t} : pc'[u] = pc[u]
    BY <1>1, <1>5
  <2> QED BY <1>5, <2>1 DEF ForgeInv
<1>6. ASSUME NEW n \in Nat, n >= 1, vid' = [vid EXCEPT ![t] = n], NEW label, Goto(t, label)
      PROVE  ForgeInv'
  <2>1. \A u \in Task \ {t} : pc'[u] = pc[u]
    BY <1>1, <1>6
  <2>2. vid'[t] = n /\ \A u \in Task \ {t} : vid'[u] = vid[u]
    BY <1>2, <1>6
  <2> QED BY <1>6, <2>1, <2>2 DEF ForgeInv
<1>7. CASE \/ LiteSkips(t) \/ LiteTooSoon(t) \/ LiteAsked(t) \/ LiteFails(t) \/ FakeFails(t)
           \/ LiteAsks(t) \/ LiteProposes(t) \/ IncrementAnswered(t)
  <2>1. UNCHANGED vid /\ \E label \in Elsewhere : Goto(t, label)
    BY <1>3, <1>7 DEF LiteSkips, LiteTooSoon, LiteAsked, LiteFails, FakeFails, LiteAsks,
                      LiteProposes, IncrementAnswered, Return, Elsewhere, Label
  <2> QED BY <1>4, <2>1
<1>8. CASE LiteStores(t)
  <2>1. UNCHANGED vid /\ \E label \in Elsewhere : Goto(t, label)
    BY <1>3, <1>8 DEF LiteStores, Return, Elsewhere, Label
  <2> QED BY <1>4, <2>1
<1>9. CASE LiteInDag(t) \/ LiteDone(t)
  <2>1. \/ UNCHANGED vid /\ \E label \in Elsewhere : Goto(t, label)
        \/ vid' = [vid EXCEPT ![t] = 1] /\ Goto(t, "fake")
    BY <1>3, <1>9 DEF LiteInDag, LiteDone, Return, Elsewhere, Label
  <2>2. CASE vid' = [vid EXCEPT ![t] = 1] /\ Goto(t, "fake")
    <3>1. 1 \in Nat /\ 1 >= 1
      OBVIOUS
    <3> QED BY <1>6, <2>2, <3>1, Zenon
  <2> QED BY <1>4, <2>1, <2>2
<1>10. CASE FakeProposal(t)
  <2>1. /\ UNCHANGED vid /\ pc[t] = "fake"
        /\ \E label \in Elsewhere \cup {"fake_store"} : Goto(t, label)
    BY <1>3, <1>10 DEF FakeProposal, Return
  <2>2. vid[t] >= 1
    BY <2>1 DEF ForgeInv
  <2> QED BY <1>5, <2>1, <2>2
<1>11. CASE FakeStores(t) \/ FakeInDag(t)
  <2>1. pc[t] \in {"fake_store", "fake_dag"}
    BY <1>11 DEF FakeStores, FakeInDag
  <2>2. /\ UNCHANGED vid \/ vid' = [vid EXCEPT ![t] = vid[t] + 1]
        /\ \E label : Goto(t, label)
    BY <1>11 DEF FakeStores, FakeInDag, Return
  <2>3. vid[t] >= 1 /\ vid[t] + 1 \in Nat /\ vid[t] + 1 >= 1
    BY <1>0, <2>1 DEF ForgeInv
  <2> QED BY <1>5, <1>6, <2>2, <2>3
<1> QED BY <1>7, <1>8, <1>9, <1>10, <1>11 DEF TaskStep

\* A task of the primary keeps the invariant: a batch of validator 0 is made above
\* the propose lock, which then moves to its round.
LEMMA TaskBatchInv ==
    ASSUME BatchInv, NEW t \in Task, TaskStep(t)
    PROVE  RunInv' /\ OldInv' /\ EarlyInv' /\ ForgeInv' /\ OneOwnBatchPerRound'
<1> USE DEF BatchInv
<1>0. run \in Nat /\ run < run + 1 /\ batch \in [Task -> SUBSET Certificate]
  BY RunType DEF TypeOK
<1>1. /\ status \notin {"down", "syncing"}
      /\ UNCHANGED <<todo, loading, status, run, cache, graph, handler, ledger>>
  BY TaskUp DEF processVars
<1>2. OldInv' /\ EarlyInv'
  BY <1>1 DEF OldInv, EarlyInv, Older
<1>3. LedgerCertificates' = LedgerCertificates
  BY <1>1 DEF LedgerCertificates
<1>4. /\ certificates' \subseteq certificates \cup batch[t]
      /\ \A u \in Task : tx_primary_certificate'[u]
                            \subseteq tx_primary_certificate[u] \cup batch[t]
  BY TaskBatch
<1>5. ASSUME \A u \in Task : Older(batch'[u], run + 1)
      PROVE  RunInv'
  BY <1>1, <1>3, <1>4, <1>5 DEF RunInv, Older
<1>6. CASE UNCHANGED <<batch, propose_lock>>
  <2>1. OwnBatches' \subseteq OwnBatches
    BY <1>1, <1>4, <1>6, OwnMember
  <2>2. OneOwnBatchPerRound'
    BY <1>6, <2>1, OwnShrinks
  <2>3. RunInv'
    BY <1>5, <1>6 DEF RunInv
  <2> QED BY <1>2, <2>2, <2>3, TaskForge
<1>7. CASE LiteProposes(t)
  <2> DEFINE new == NewCertificate(Self, current_round)
  <2>1. /\ current_round > propose_lock /\ propose_lock' = current_round
        /\ batch' = [batch EXCEPT ![t] = {new}]
        /\ certificates' = certificates
    BY <1>7 DEF LiteProposes, storageVars
  <2>2. new.run = run /\ new.round = current_round
    BY DEF NewCertificate
  <2>3. batch'[t] = {new} /\ \A u \in Task \ {t} : batch'[u] = batch[u]
    <3> HIDE DEF Task, new
    <3> QED BY <1>0, <2>1
  <2>4. RunInv'
    <3>1. \A u \in Task : Older(batch'[u], run + 1)
      <4> HIDE DEF new
      <4> QED BY <1>0, <2>2, <2>3 DEF RunInv, Older
    <3> QED BY <1>5, <3>1
  <2>5. OwnBatches' \subseteq OwnBatches \cup {new}
    <3> HIDE DEF new
    <3> QED BY <1>1, <2>1, <2>3, OwnMember
  <2>6. OwnBatches \subseteq Certificate
    BY <1>0 DEF OwnBatches, TypeOK
  <2>7. \A c \in OwnBatches : c.round <= propose_lock /\ c.round \in Nat
    BY <2>6, CertificateFields DEF OneOwnBatchPerRound
  <2>8. propose_lock \in Nat /\ current_round \in Nat
    BY DEF TypeOK
  <2>9. \A c \in OwnBatches : c.round < current_round
    BY <2>1, <2>7, <2>8
  <2>10. OneOwnBatchPerRound'
    <3> HIDE DEF new
    <3>1. \A c \in OwnBatches' : c.round <= propose_lock'
      BY <2>1, <2>2, <2>5, <2>7, <2>8
    <3>2. \A c, d \in OwnBatches' : c.round = d.round => c = d
      BY <2>2, <2>5, <2>7, <2>8, <2>9 DEF OneOwnBatchPerRound
    <3> QED BY <3>1, <3>2 DEF OneOwnBatchPerRound
  <2> QED BY <1>2, <2>4, <2>10, TaskForge
<1>8. CASE FakeProposal(t) /\ UNCHANGED propose_lock
  <2>1. PICK c \in batch[t] :
           \/ batch' = [batch EXCEPT ![t] = {NewCertificate(vid[t], c.round)}]
           \/ UNCHANGED batch
    BY <1>8 DEF FakeProposal
  <2> DEFINE new == NewCertificate(vid[t], c.round)
  <2>2. new.run = run /\ new.author # Self
    <3>1. vid[t] >= 1
      BY <1>8 DEF FakeProposal, ForgeInv
    <3>2. vid[t] \in Nat
      BY DEF TypeOK
    <3> QED BY <3>1, <3>2 DEF NewCertificate, Self
  <2>3. \A u \in Task : batch'[u] = {new} \/ batch'[u] = batch[u]
    <3> HIDE DEF Task, new
    <3> QED BY <1>0, <2>1 DEF new
  <2> HIDE DEF new
  <2>4. certificates' = certificates
    BY <1>8 DEF FakeProposal, storageVars
  <2>5. OwnBatches' \subseteq OwnBatches
    BY <1>1, <2>2, <2>3, <2>4, OwnMember
  <2>6. OneOwnBatchPerRound'
    BY <1>8, <2>5, OwnShrinks
  <2>7. RunInv'
    <3>1. \A u \in Task : Older(batch'[u], run + 1)
      BY <1>0, <2>2, <2>3 DEF RunInv, Older
    <3> QED BY <1>5, <3>1
  <2> QED BY <1>2, <2>6, <2>7, TaskForge
<1> QED BY <1>6, <1>7, <1>8, TaskBatch

-----------------------------------------------------------------------------
(* The loops, bootup, shutdown and crash.                                   *)

\* A loop that wakes up makes no batch.
LEMMA LoopBatchInv ==
    ASSUME BatchInv, ProposerWakes \/ IncrementWakes
    PROVE  RunInv' /\ OldInv' /\ EarlyInv' /\ ForgeInv' /\ OneOwnBatchPerRound'
<1> USE DEF storageVars, dagVars, bftVars, channelVars, primaryVars, taskVars, processVars,
            BatchInv
<1>1. /\ UNCHANGED <<certificates, graph, handler, tx_primary_certificate, ledger, batch, vid,
                     propose_lock, todo, loading, status, run, cache>>
      /\ status = "running"
  BY DEF ProposerWakes, IncrementWakes
<1>2. LedgerCertificates' = LedgerCertificates
  BY <1>1 DEF LedgerCertificates
<1>3. RunInv' /\ OldInv'
  BY <1>1, <1>2 DEF RunInv, OldInv, Older
<1>4. OwnBatches' = OwnBatches
  BY <1>1 DEF OwnBatches
<1>5. EarlyInv' /\ OneOwnBatchPerRound'
  BY <1>1, <1>4, OwnShrinks DEF EarlyInv
<1>6. ForgeInv'
  <2>2. {"enter", "ask_increment", "idle"} \subseteq Elsewhere
    BY DEF Elsewhere, Label
  <2>3. \/ Goto("proposer", "enter")
        \/ Goto("increment", "ask_increment") \/ Goto("increment", "idle")
    BY DEF ProposerWakes, IncrementWakes, TryIncrement, Return, ReturnLabel
  <2> QED BY <1>1, <2>2, <2>3, GotoForge
<1> QED BY <1>3, <1>5, <1>6

\* The start of a run: everything there is was made by an earlier run.
LEMMA BootBatchInv ==
    ASSUME BatchInv, Boot
    PROVE  RunInv' /\ OldInv' /\ EarlyInv' /\ ForgeInv' /\ OneOwnBatchPerRound'
<1> USE DEF dagVars, bftVars, channelVars, primaryVars, taskVars, BatchInv
<1>1. /\ UNCHANGED <<certificates, graph, handler, tx_primary_certificate, ledger, batch, vid,
                     pc, propose_lock, loading, cache>>
      /\ run' = run + 1 /\ status = "down" /\ status' = "syncing"
      /\ todo' = RecentCertificates
  BY DEF Boot
<1>2. run \in Nat
  BY RunType
<1>3. LedgerCertificates' = LedgerCertificates
  BY <1>1 DEF LedgerCertificates
<1>4. \A c \in certificates \cup graph \cup handler.chain \cup LedgerCertificates :
         c.run \in Nat /\ c.run < run + 1
  <2>1. certificates \cup graph \cup handler.chain \cup LedgerCertificates \subseteq Certificate
    BY LedgerType DEF TypeOK
  <2> QED BY <2>1, CertificateFields DEF RunInv, Older
<1>5. \A t \in Task : \A c \in tx_primary_certificate[t] \cup batch[t] :
         c.run \in Nat /\ c.run < run + 1
  <2>1. \A t \in Task : tx_primary_certificate[t] \cup batch[t] \subseteq Certificate
    BY DEF TypeOK
  <2> QED BY <2>1, CertificateFields DEF RunInv, Older
<1>6. \A saved \in cache : \A c \in saved.pending : c.run \in Nat /\ c.run < run + 1
  <2>1. \A saved \in cache : saved.pending \subseteq Certificate
    BY DEF TypeOK, SavedCache
  <2> QED BY <2>1, CertificateFields DEF RunInv, Older
<1>7. loading = {}
  BY <1>1 DEF OldInv
<1>8. RunInv'
  BY <1>1, <1>2, <1>3, <1>4, <1>5, <1>6 DEF RunInv, Older
<1>9. OldInv'
  BY <1>1, <1>4, <1>6, <1>7, RecentType DEF OldInv, Older
<1>10. OwnBatches' = {}
  BY <1>1, <1>2, <1>4, <1>5, OwnMember
<1>11. EarlyInv' /\ ForgeInv' /\ OneOwnBatchPerRound'
  BY <1>1, <1>10 DEF EarlyInv, ForgeInv, OneOwnBatchPerRound
<1> QED BY <1>8, <1>9, <1>11

\* Bootup stores what an earlier run has made, and makes no batch itself.
LEMMA BootStepBatchInv ==
    ASSUME BatchInv, BootStep \/ SetShutdown
    PROVE  RunInv' /\ OldInv' /\ EarlyInv' /\ ForgeInv' /\ OneOwnBatchPerRound'
<1> USE DEF storageVars, dagVars, bftVars, channelVars, primaryVars, taskVars, processVars,
            BatchInv
<1>0. {"load", "load_store", "load_dag", "ask_increment"} \subseteq Elsewhere
  BY DEF Elsewhere, Label
<1>1. UNCHANGED <<graph, handler, ledger, vid, run, cache>>
  BY DEF BootStep, SyncCertificate, LoadProposalCache, LoadNext, LoadStore, LoadFails,
         LoadInDag, StartHandlers, SetShutdown
<1>2. LedgerCertificates' = LedgerCertificates
  BY <1>1 DEF LedgerCertificates
<1>3. run \in Nat
  BY RunType
<1>4. ASSUME NEW C, C \subseteq Certificate, Older(C, run)
      PROVE  \A c \in C : c.run < run + 1 /\ c.run # run
  BY <1>3, <1>4, CertificateFields DEF Older
<1>5. CASE SyncCertificate
  <2>1. PICK c \in Earliest(todo) : InsertCertificate(c) /\ todo' = todo \ {c}
    BY <1>5 DEF SyncCertificate
  <2>2. /\ status = "syncing"
        /\ UNCHANGED <<tx_primary_certificate, batch, pc, propose_lock, loading, status>>
    BY <1>5 DEF SyncCertificate
  <2>3. c \in todo /\ todo \subseteq Certificate /\ Older(todo, run)
    BY <2>2 DEF Earliest, TypeOK, OldInv
  <2>4. c.run < run + 1 /\ c.run # run
    BY <1>4, <2>3
  <2>5. certificates' \subseteq certificates \cup {c}
    BY <2>1 DEF InsertCertificate
  <2>6. RunInv'
    BY <1>1, <1>2, <2>2, <2>4, <2>5 DEF RunInv, Older
  <2>7. OldInv'
    BY <1>1, <2>1, <2>2, <2>3 DEF OldInv, Older
  <2>8. OwnBatches' \subseteq OwnBatches
    BY <1>1, <2>2, <2>4, <2>5, OwnMember
  <2> QED BY <1>1, <2>2, <2>6, <2>7, <2>8, OwnShrinks DEF EarlyInv, ForgeInv
<1>6. CASE LoadProposalCache
  <2>1. /\ status = "syncing" /\ status' = "loading"
        /\ UNCHANGED <<certificates, tx_primary_certificate, batch, loading>>
        /\ Goto("boot", "load")
    BY <1>6 DEF LoadProposalCache
  <2>2. todo' = todo \/ \E saved \in cache : todo' = saved.pending
    BY <1>6 DEF LoadProposalCache
  <2>3. RunInv'
    BY <1>1, <1>2, <2>1 DEF RunInv, Older
  <2>4. OldInv'
    BY <1>1, <2>1, <2>2 DEF OldInv, Older
  <2>5. OwnBatches' = {}
    BY <1>1, <2>1 DEF OwnBatches, EarlyInv
  <2>6. EarlyInv' /\ OneOwnBatchPerRound'
    BY <2>1, <2>5 DEF EarlyInv, OneOwnBatchPerRound
  <2> QED BY <1>0, <1>1, <2>1, <2>3, <2>4, <2>6, GotoForge
<1>7. CASE LoadNext
  <2>1. /\ status \notin {"down", "syncing"}
        /\ UNCHANGED <<certificates, tx_primary_certificate, batch, propose_lock, status>>
    BY <1>7 DEF LoadNext, EarlyInv
  <2>2. PICK c \in todo : todo' = todo \ {c} /\ loading' = {c}
    BY <1>7 DEF LoadNext, Earliest
  <2>3. RunInv'
    BY <1>1, <1>2, <2>1 DEF RunInv, Older
  <2>4. OldInv'
    BY <1>1, <2>1, <2>2 DEF OldInv, Older
  <2>5. OwnBatches' = OwnBatches
    BY <1>1, <2>1 DEF OwnBatches
  <2>6. ForgeInv'
    <3>1. UNCHANGED pc \/ \E label \in Elsewhere : Goto("boot", label)
      BY <1>0, <1>7 DEF LoadNext, TryIncrement, Return, ReturnLabel
    <3> QED BY <1>1, <3>1, GotoForge DEF ForgeInv
  <2> QED BY <2>1, <2>3, <2>4, <2>5, <2>6, OwnShrinks DEF EarlyInv
<1>8. CASE LoadStore
  <2>1. PICK c \in loading :
          /\ InsertCertificate(c)
          /\ \/ Send("boot", c) /\ Goto("boot", "load_dag")
             \/ UNCHANGED tx_primary_certificate /\ Goto("boot", "load")
    BY <1>8 DEF LoadStore
  <2>2. /\ status \notin {"down", "syncing"}
        /\ UNCHANGED <<batch, propose_lock, todo, loading, status>>
    BY <1>8 DEF LoadStore, EarlyInv
  <2>3. loading \subseteq Certificate /\ Older(loading, run)
    BY <2>2 DEF TypeOK, OldInv
  <2>4. c.run < run + 1 /\ c.run # run
    BY <1>4, <2>3
  <2>5. certificates' \subseteq certificates \cup {c}
    BY <2>1 DEF InsertCertificate
  <2>6. \A u \in Task : tx_primary_certificate'[u] \subseteq tx_primary_certificate[u] \cup {c}
    <3>1. tx_primary_certificate \in [Task -> SUBSET Certificate]
      BY DEF TypeOK
    <3> QED BY <2>1, <3>1 DEF Send
  <2>7. RunInv'
    BY <1>1, <1>2, <2>2, <2>4, <2>5, <2>6 DEF RunInv, Older
  <2>8. OldInv'
    BY <1>1, <2>2 DEF OldInv, Older
  <2>9. OwnBatches' \subseteq OwnBatches
    BY <1>1, <2>2, <2>4, <2>5, OwnMember
  <2>10. ForgeInv'
    BY <1>0, <1>1, <2>1, GotoForge
  <2> QED BY <2>2, <2>7, <2>8, <2>9, <2>10, OwnShrinks DEF EarlyInv
<1>9. CASE LoadFails \/ LoadInDag
  <2>1. /\ status \notin {"down", "syncing"}
        /\ UNCHANGED <<certificates, tx_primary_certificate, batch, propose_lock, todo,
                       loading, status>>
        /\ Goto("boot", "load")
    BY <1>9 DEF LoadFails, LoadInDag, EarlyInv
  <2>2. RunInv' /\ OldInv'
    BY <1>1, <1>2, <2>1 DEF RunInv, OldInv, Older
  <2>3. OwnBatches' = OwnBatches
    BY <1>1, <2>1 DEF OwnBatches
  <2>4. ForgeInv'
    BY <1>0, <1>1, <2>1, GotoForge
  <2> QED BY <2>1, <2>2, <2>3, <2>4, OwnShrinks DEF EarlyInv
<1>10. CASE StartHandlers
  <2>1. /\ status \notin {"down", "syncing"} /\ status' = "running"
        /\ UNCHANGED <<certificates, tx_primary_certificate, propose_lock, todo>>
        /\ loading' = {}
        /\ pc' = [t \in Task |-> IF t = "boot" THEN "done" ELSE "idle"]
        /\ batch' = [batch EXCEPT !["boot"] = {}]
    BY <1>10 DEF StartHandlers, EarlyInv
  <2>2. \A u \in Task : batch'[u] \subseteq batch[u]
    <3>1. batch \in [Task -> SUBSET Certificate]
      BY DEF TypeOK
    <3> QED BY <2>1, <3>1
  <2>3. RunInv' /\ OldInv'
    BY <1>1, <1>2, <2>1, <2>2 DEF RunInv, OldInv, Older
  <2>4. OwnBatches' \subseteq OwnBatches
    BY <1>1, <2>1, <2>2, OwnMember
  <2>5. ForgeInv'
    BY <2>1 DEF ForgeInv
  <2> QED BY <2>1, <2>3, <2>4, <2>5, OwnShrinks DEF EarlyInv
<1>11. CASE SetShutdown
  <2>1. UNCHANGED <<certificates, tx_primary_certificate, primaryVars, processVars>>
    BY <1>11 DEF SetShutdown
  <2>2. OwnBatches' = OwnBatches
    BY <2>1 DEF OwnBatches
  <2> QED BY <1>1, <1>2, <2>1, <2>2, OwnShrinks DEF RunInv, OldInv, Older, EarlyInv, ForgeInv
<1> QED BY <1>5, <1>6, <1>7, <1>8, <1>9, <1>10, <1>11 DEF BootStep

\* The end of a run: the cache gets certificates of the storage and of the tasks.
LEMMA StopBatchInv ==
    ASSUME BatchInv, ShutDown \/ Crash
    PROVE  RunInv' /\ OldInv' /\ EarlyInv' /\ ForgeInv' /\ OneOwnBatchPerRound'
<1> USE DEF BatchInv
<1>1. PowerOff /\ UNCHANGED <<ledger, run>>
  BY DEF ShutDown, Crash
<1>2. LedgerCertificates' = LedgerCertificates
  BY <1>1 DEF LedgerCertificates
<1>3. \A saved \in cache' : Older(saved.pending, run + 1)
  <2>1. CASE ShutDown
    <3>1. PICK finished \in SUBSET InFlight :
         LET stored == certificates \cup
                         {c \in UNION {batch[t] : t \in finished} : CanInsert(c)}
         IN  cache' = {[round   |-> propose_lock,
                        signed  |-> signed_proposals,
                        pending |-> {c \in stored : c \notin LedgerCertificates}]}
      BY <2>1 DEF ShutDown
    <3>2. \A saved \in cache' : \A c \in saved.pending :
             c \in certificates \/ \E t \in Task : c \in batch[t]
      BY <3>1 DEF InFlight
    <3> QED BY <3>2 DEF RunInv, Older
  <2>2. CASE Crash
    BY <2>2 DEF Crash, RunInv
  <2> QED BY <2>1, <2>2
<1>4. /\ certificates' = {} /\ graph' = {} /\ handler'.chain = {} /\ loading' = {}
      /\ status' = "down"
      /\ \A t \in Task : /\ tx_primary_certificate'[t] = {} /\ batch'[t] = {}
                         /\ pc'[t] = "off"
  BY <1>1 DEF PowerOff, Idle
<1>5. OwnBatches' = {}
  BY <1>4, OwnMember
<1>6. RunInv'
  BY <1>1, <1>2, <1>3, <1>4 DEF RunInv, Older
<1>7. OldInv' /\ EarlyInv' /\ ForgeInv' /\ OneOwnBatchPerRound'
  BY <1>4, <1>5 DEF OldInv, EarlyInv, ForgeInv, OneOwnBatchPerRound
<1> QED BY <1>6, <1>7

-----------------------------------------------------------------------------
(* The theorem.                                                             *)

\* Before the first run there is no certificate.
LEMMA BatchInit == Init => BatchInv
<1> SUFFICES ASSUME Init PROVE BatchInv
  OBVIOUS
<1>1. LedgerCertificates = {}
  BY DEF Init, LedgerCertificates
<1>2. OwnBatches = {}
  BY DEF Init, OwnBatches
<1>3. RunInv
  BY <1>1 DEF Init, DagInit, Idle, RunInv, Older
<1> QED
  BY <1>2, <1>3, TypeInit DEF Init, BatchInv, OldInv, EarlyInv, ForgeInv, OneOwnBatchPerRound

\* Every step keeps the invariant.
LEMMA BatchNext == BatchInv /\ [Next]_vars => BatchInv'
<1> SUFFICES ASSUME BatchInv, [Next]_vars
             PROVE  RunInv' /\ OldInv' /\ EarlyInv' /\ ForgeInv' /\ OneOwnBatchPerRound'
  BY TypeNext DEF BatchInv
<1>1. CASE UNCHANGED vars
  <2>1. UNCHANGED <<certificates, graph, handler, tx_primary_certificate, ledger, batch, vid,
                    pc, propose_lock, todo, loading, status, run, cache>>
    BY <1>1 DEF vars, storageVars, dagVars, bftVars, channelVars, primaryVars, taskVars,
                processVars
  <2>2. LedgerCertificates' = LedgerCertificates /\ OwnBatches' = OwnBatches
    BY <2>1 DEF LedgerCertificates, OwnBatches
  <2> QED BY <2>1, <2>2, OwnShrinks DEF BatchInv, RunInv, OldInv, Older, EarlyInv, ForgeInv
<1>2. CASE Boot
  BY <1>2, BootBatchInv
<1>3. CASE BootStep \/ SetShutdown
  BY <1>3, BootStepBatchInv
<1>4. CASE ShutDown \/ Crash
  BY <1>4, StopBatchInv
<1>5. CASE ProposerWakes \/ IncrementWakes
  BY <1>5, LoopBatchInv
<1>6. CASE \/ CommitHandler \/ SyncHandler
           \/ \E t \in Task : RoundHandler(t) \/ CertificateHandler(t)
  BY <1>6, HandlerBatchInv
<1>7. CASE \E t \in Task : TaskStep(t)
  BY <1>7, TaskBatchInv
<1> QED BY <1>1, <1>2, <1>3, <1>4, <1>5, <1>6, <1>7 DEF Next

\* The propose lock does its work: however the batch proposer, the increment loop and
\* bootup interleave, and whatever fails, one run of the process never signs two
\* batches of validator 0 for the same round.
THEOREM OneBatchPerRound == Spec => []OneOwnBatchPerRound
<1>1. Init => BatchInv
  BY BatchInit
<1>2. BatchInv /\ [Next]_vars => BatchInv'
  BY BatchNext
<1>3. BatchInv => OneOwnBatchPerRound
  BY DEF BatchInv
<1> QED BY <1>1, <1>2, <1>3, PTL DEF Spec
=============================================================================
