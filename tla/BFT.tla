--------------------------------- MODULE BFT ---------------------------------
(***************************************************************************)
(* The BFT, node/bft/src/bft.rs: the handler that decides whether the      *)
(* primary may move to the next round, the handler that puts certificates  *)
(* in the DAG and commits leaders, and the handler that replays the        *)
(* certificates of the ledger at bootup.  Each is a task of its own; the   *)
(* tasks of the primary send it a request and await its callback.          *)
(*                                                                         *)
(* The consensus handler that turns a committed subdag into a block        *)
(* (node/consensus/src/lib.rs) runs while the BFT awaits it, so its effect *)
(* is part of the committing step.  The ledger is a dependency and keeps   *)
(* one record per block: its anchor round and its certificates.            *)
(***************************************************************************)
EXTENDS Dag, Sequences

CONSTANT MaxFaults          \* bound on the number of transient errors

ASSUME FaultAssumption == MaxFaults \in Nat

VARIABLES
    leader_certificate,     \* the leader certificate of the even round: {} or a singleton
    consensus_sender,       \* whether the consensus sender has been set
    handler,                \* the certificate handler: what it is working on
    tx_primary_round,       \* the round each task has sent, 0 if none
    tx_primary_certificate, \* the certificate each task has sent: {} or a singleton
    callback,               \* the answer each task has not read yet
    tx_sync_bft_dag,        \* the bootup message: a set holding 0 or 1 sets of certificates
    ledger,                 \* the blocks, oldest first, on disk
    shutdown,               \* the flag that stops the ledger from advancing
    faults                  \* the number of transient errors so far

bftVars == <<leader_certificate, consensus_sender, handler>>
channelVars == <<tx_primary_round, tx_primary_certificate, callback, tx_sync_bft_dag>>

\* The tasks that call the BFT: Primary::run loading the proposal cache, the batch
\* proposer loop and the loop that increments the round.
Task == {"boot", "proposer", "increment"}

LatestAnchor == IF ledger = << >> THEN 0 ELSE ledger[Len(ledger)].anchor

LedgerCertificates == UNION {ledger[h].certificates : h \in 1..Len(ledger)}

Idle == [pc |-> "idle", from |-> {}, round |-> 0, chain |-> {}]

Fault == faults < MaxFaults /\ faults' = faults + 1

-----------------------------------------------------------------------------
(* update_to_next_round and the two functions behind it.  The timer of the  *)
(* leader certificate may or may not have expired.                          *)

\* update_leader_certificate_to_even_round finds the leader in the storage.
LeaderCertificateAt(round) ==
    IF round = current_round /\ round % 2 = 0
    THEN {c \in CertificatesFor(round) : c.author = Self}
    ELSE leader_certificate

IsEvenRoundReady(round, expired) ==
    /\ IsQuorum(Authors(CertificatesFor(round)))
    /\ expired \/ \E l \in LeaderCertificateAt(round) : l.round = round

\* The certificates of a round that do, or do not, include the leader.
WithLeader(round) ==
    {c \in CertificatesFor(round) : \E l \in leader_certificate : ID(l) \in c.previous}

IsLeaderQuorumOrNonleadersAvailable(round, expired) ==
    /\ IsQuorum(Authors(CertificatesFor(round)))
    /\ \/ leader_certificate = {}
       \/ IsAvailable(Authors(WithLeader(round)))
       \/ IsQuorum(Authors(CertificatesFor(round) \ WithLeader(round)))
       \/ expired

IsReady(round, expired) ==
    /\ round = current_round
    /\ IF round % 2 = 0
       THEN IsEvenRoundReady(round, expired)
       ELSE IsLeaderQuorumOrNonleadersAvailable(round, expired)

UpdateToNextRound(t) ==
    /\ tx_primary_round[t] # 0
    /\ \E expired \in BOOLEAN :
         LET round == tx_primary_round[t]
             ready == IsReady(round, expired)
         IN  /\ callback' = [callback EXCEPT ![t] = IF ready THEN "ready" ELSE "not_ready"]
             /\ current_round' = IF ready THEN Incremented(round, LatestAnchor)
                                 ELSE current_round
             /\ leader_certificate' = LeaderCertificateAt(round)
    /\ tx_primary_round' = [tx_primary_round EXCEPT ![t] = 0]
    /\ UNCHANGED <<gc_round, certificates, dagVars, consensus_sender, handler,
                   tx_primary_certificate, tx_sync_bft_dag, ledger, shutdown, faults>>

-----------------------------------------------------------------------------
(* update_dag and commit_leader_certificate, under the BFT lock.            *)

\* The first half of update_dag: the certificate enters the DAG.
UpdateDag(t) ==
    /\ handler.pc = "idle"
    /\ \E c \in tx_primary_certificate[t] :
         /\ graph' = DagInserted(c)
         /\ handler' = [Idle EXCEPT !.pc = "check", !.from = {t}, !.round = c.round]
    /\ tx_primary_certificate' = [tx_primary_certificate EXCEPT ![t] = {}]
    /\ UNCHANGED <<storageVars, recent_committed_ids, last_committed_round,
                   leader_certificate, consensus_sender, tx_primary_round, callback,
                   tx_sync_bft_dag, ledger, shutdown, faults>>

\* The handler answers its caller and turns to the next certificate.
Answer(result) ==
    /\ handler' = Idle
    /\ callback' = [t \in Task |-> IF t \in handler.from THEN result ELSE callback[t]]

\* The authors of the certificate round that include the leader.
Supporters(round, leader) ==
    Authors({c \in graph : c.round = round /\ ID(leader) \in c.previous})

CommitRound == handler.round - 1

\* Mutant: the commit round is not compared with the last committed round.
ReadyLeaderAgain ==
    IF CommitRound % 2 # 0 \/ CommitRound < 2
    THEN {}
    ELSE {l \in CertificatesFor(CommitRound) :
            l.author = Self /\ IsAvailable(Supporters(handler.round, l))}

\* The leader certificates that the second half of update_dag finds ready.
ReadyLeader ==
    IF CommitRound % 2 # 0 \/ CommitRound < 2 \/ CommitRound <= last_committed_round
    THEN {}
    ELSE {l \in LeaderIn(CommitRound) : IsAvailable(Supporters(handler.round, l))}

\* The second half of update_dag: nothing to commit, or the chain of leaders to
\* commit, or an error on the way to it.
CheckLeader ==
    /\ handler.pc = "check"
    /\ \/ /\ ReadyLeader = {}
          /\ Answer("ok")
       \/ \E l \in ReadyLeader :
            IF WalkBroken(l)
            THEN Answer("err")
            ELSE /\ handler' = [handler EXCEPT !.pc = "commit", !.round = l.round,
                                               !.chain = LeaderChain(l)]
                 /\ UNCHANGED callback
    /\ UNCHANGED <<storageVars, dagVars, leader_certificate, consensus_sender,
                   tx_primary_round, tx_primary_certificate, tx_sync_bft_dag,
                   ledger, shutdown, faults>>

Subdag(leader) == CommitSubdag(leader, IDs(LedgerCertificates))

\* The leader certificate whose turn it is: the loop goes from oldest to newest.
OldestLeader == {c \in handler.chain : \A d \in handler.chain : c.round <= d.round}

\* One turn of the loop over the leader certificates.  order_dag_with_dfs may fail,
\* and then update_dag returns the error.  Without a consensus sender (during bootup)
\* the DAG is committed and no block is made.
CommitLeader ==
    /\ handler.pc = "commit"
    /\ \E leader \in OldestLeader : \E subdag \in {Subdag(leader)} :
           IF MissingPrevious(leader, IDs(LedgerCertificates))
           THEN /\ Answer("err")
                /\ UNCHANGED <<ledger, dagVars>>
           ELSE /\ consensus_sender => ~shutdown
                /\ ledger' = IF consensus_sender
                             THEN Append(ledger, [anchor |-> leader.round, certificates |-> subdag])
                             ELSE ledger
                /\ DagCommit(subdag, leader.round)
                /\ handler' = [handler EXCEPT !.chain = @ \ {leader}]
                /\ UNCHANGED callback
    /\ UNCHANGED <<storageVars, leader_certificate, consensus_sender, tx_primary_round,
                   tx_primary_certificate, tx_sync_bft_dag, shutdown, faults>>

\* Mutant: the DAG is committed although the ledger did not advance.
AdvanceFailsCommits ==
    /\ handler.pc = "commit"
    /\ consensus_sender
    /\ \/ shutdown /\ UNCHANGED faults
       \/ ~shutdown /\ Fault
    /\ \E leader \in OldestLeader : DagCommit(Subdag(leader), leader.round)
    /\ Answer("ok")
    /\ UNCHANGED <<storageVars, leader_certificate, consensus_sender,
                   tx_primary_round, tx_primary_certificate, tx_sync_bft_dag,
                   ledger, shutdown>>

\* Consensus cannot advance the ledger: the shutdown flag is set, or the block
\* is refused.  update_dag returns Ok without committing or collecting anything.
AdvanceFails ==
    /\ handler.pc = "commit"
    /\ \E leader \in OldestLeader : ~MissingPrevious(leader, IDs(LedgerCertificates))
    /\ consensus_sender
    /\ \/ shutdown /\ UNCHANGED faults
       \/ ~shutdown /\ Fault
    /\ Answer("ok")
    /\ UNCHANGED <<storageVars, dagVars, leader_certificate, consensus_sender,
                   tx_primary_round, tx_primary_certificate, tx_sync_bft_dag,
                   ledger, shutdown>>

\* A transmission of the subdag is not in the storage: update_dag returns the error.
CommitFails ==
    /\ handler.pc = "commit"
    /\ \E leader \in OldestLeader : ~MissingPrevious(leader, IDs(LedgerCertificates))
    /\ Fault
    /\ Answer("err")
    /\ UNCHANGED <<storageVars, dagVars, leader_certificate, consensus_sender,
                   tx_primary_round, tx_primary_certificate, tx_sync_bft_dag,
                   ledger, shutdown>>

\* After the loop: collect garbage up to the latest leader, and answer.
CollectGarbage ==
    /\ handler.pc = "commit"
    /\ handler.chain = {}
    /\ GarbageCollect(handler.round)
    /\ Answer("ok")
    /\ UNCHANGED <<current_round, dagVars, leader_certificate, consensus_sender,
                   tx_primary_round, tx_primary_certificate, tx_sync_bft_dag,
                   ledger, shutdown, faults>>

\* sync_bft_dag_at_bootup: a task of its own, which does not take the BFT lock.
SyncBftDagAtBootup ==
    /\ \E C \in tx_sync_bft_dag : DagCommit(C, LatestAnchor)
    /\ tx_sync_bft_dag' = {}
    /\ UNCHANGED <<storageVars, bftVars, tx_primary_round, tx_primary_certificate,
                   callback, ledger, shutdown, faults>>
=============================================================================
