------------------------------- MODULE Primary -------------------------------
(***************************************************************************)
(* The primary, node/bft/src/primary.rs, with the BFT it drives, across    *)
(* restarts of the process.  Each of its three tasks may be inside         *)
(* propose_batch, which certifies a batch of validator 0 under the propose *)
(* lock and then forges the batches of the other validators.  One action   *)
(* is the code of a task between two awaits.                               *)
(*                                                                         *)
(* A run of the process ends by a shutdown, which saves the proposal       *)
(* cache, or by a crash, which does not.  Only the ledger and the proposal *)
(* cache survive (the --keep-state mode).                                  *)
(***************************************************************************)
EXTENDS BFT

CONSTANTS MaxRound,         \* bound: no batch is proposed above this round
          MaxRuns,          \* bound on the number of runs of the process
          CrashAllowed      \* whether a run may end by a crash

ASSUME PrimaryAssumption ==
    /\ MaxRound \in Nat /\ MaxRuns \in Nat
    /\ CrashAllowed \in BOOLEAN

VARIABLES
    pc,                 \* where each task is
    batch,              \* the certificate each task is making or loading: {} or a singleton
    vid,                \* the validator each task is forging a batch for
    propose_lock,       \* the value behind the propose lock: the latest proposed round
    lock_holder,        \* the task that holds the propose lock: {} or a singleton
    signed_proposals,   \* the latest round signed for each other validator
    todo,               \* the certificates bootup has still to load
    loading,            \* the pending certificate bootup is loading: {} or a singleton
    status,             \* the phase of the process: down, syncing, loading, running
    run,                \* the number of the current run
    cache               \* the proposal cache file: {} or a singleton

taskVars == <<pc, batch, vid>>
primaryVars == <<taskVars, propose_lock, lock_holder, signed_proposals>>
processVars == <<todo, loading, status, run, cache>>
vars == <<storageVars, dagVars, bftVars, channelVars, ledger, shutdown, faults,
          primaryVars, processVars>>

Goto(t, label) == pc' = [pc EXCEPT ![t] = label]

Send(t, c) == tx_primary_certificate' = [tx_primary_certificate EXCEPT ![t] = {c}]

Received(t) == callback' = [callback EXCEPT ![t] = "none"]

\* propose_batch returns to the loop of its task; bootup goes on to store the
\* certificate it was loading, or drops it if propose_batch failed.
ReturnLabel(t, ok) ==
    IF t = "boot" THEN (IF ok THEN "load_store" ELSE "load") ELSE "idle"

Return(t, ok) == Goto(t, ReturnLabel(t, ok))

HasLock(t) == lock_holder = {t}

NewCertificate(author, round) ==
    [author |-> author, round |-> round, run |-> run,
     previous |-> IDs(CertificatesFor(round - 1))]

-----------------------------------------------------------------------------
(* The loops of start_handlers.                                            *)

\* The batch proposer wakes up and finds the propose lock free.
ProposerWakes ==
    /\ status = "running"
    /\ pc["proposer"] = "idle"
    /\ lock_holder = {}
    /\ Goto("proposer", "enter")
    /\ UNCHANGED <<storageVars, dagVars, bftVars, channelVars, ledger, shutdown, faults,
                   batch, vid, propose_lock, lock_holder, signed_proposals, processVars>>

\* try_increment_to_the_next_round up to its request to the BFT.
TryIncrement(t, next_round) ==
    /\ current_round' = FastForwarded(next_round)
    /\ IF current_round' < next_round
       THEN /\ tx_primary_round' = [tx_primary_round EXCEPT ![t] = current_round']
            /\ Goto(t, "ask_increment")
       ELSE /\ UNCHANGED tx_primary_round
            /\ Return(t, TRUE)

\* Mutant: the increment loop aims at the round the primary is in.
IncrementWakesSameRound ==
    /\ status = "running"
    /\ pc["increment"] = "idle"
    /\ IsQuorum(Authors(CertificatesFor(current_round)))
    /\ TryIncrement("increment", current_round)
    /\ UNCHANGED <<gc_round, certificates, dagVars, bftVars, tx_primary_certificate,
                   callback, tx_sync_bft_dag, ledger, shutdown, faults,
                   batch, vid, propose_lock, lock_holder, signed_proposals, processVars>>

\* The increment loop wakes up and finds a quorum of certificates in the next round.
IncrementWakes ==
    /\ status = "running"
    /\ pc["increment"] = "idle"
    /\ IsQuorum(Authors(CertificatesFor(current_round + 1)))
    /\ TryIncrement("increment", current_round + 1)
    /\ UNCHANGED <<gc_round, certificates, dagVars, bftVars, tx_primary_certificate,
                   callback, tx_sync_bft_dag, ledger, shutdown, faults,
                   batch, vid, propose_lock, lock_holder, signed_proposals, processVars>>

\* The BFT answered try_increment_to_the_next_round: propose if it is ready.
IncrementAnswered(t) ==
    /\ pc[t] = "ask_increment"
    /\ callback[t] # "none"
    /\ IF callback[t] = "ready" THEN Goto(t, "enter") ELSE Return(t, TRUE)
    /\ Received(t)
    /\ UNCHANGED <<storageVars, dagVars, bftVars, tx_primary_round, tx_primary_certificate,
                   tx_sync_bft_dag, ledger, shutdown, faults,
                   batch, vid, propose_lock, lock_holder, signed_proposals, processVars>>

-----------------------------------------------------------------------------
(* propose_batch_lite.  Its early returns, in the order of the code.        *)

PreviousReady ==
    current_round = 1 \/ IsQuorum(Authors(CertificatesFor(current_round - 1)))

\* The task takes the lock and returns at once: the storage is behind the cached
\* proposal, the round was proposed already, or the previous round has no quorum.
LiteSkips(t) ==
    /\ pc[t] = "enter"
    /\ lock_holder = {}
    /\ \/ current_round < propose_lock
       \/ /\ ~ContainsInRoundFrom(current_round, Self)
          /\ current_round = propose_lock \/ ~PreviousReady
    /\ Return(t, TRUE)
    /\ UNCHANGED <<storageVars, dagVars, bftVars, channelVars, ledger, shutdown, faults,
                   batch, vid, propose_lock, lock_holder, signed_proposals, processVars>>

\* check_proposal_timestamp finds the previous batch too recent.
LiteTooSoon(t) ==
    /\ pc[t] = "enter"
    /\ lock_holder = {}
    /\ current_round >= propose_lock
    /\ Return(t, TRUE)
    /\ UNCHANGED <<storageVars, dagVars, bftVars, channelVars, ledger, shutdown, faults,
                   batch, vid, propose_lock, lock_holder, signed_proposals, processVars>>

\* The batch of this round is certified: ask the BFT for the next round, lock in hand.
LiteAsks(t) ==
    /\ pc[t] = "enter"
    /\ lock_holder = {}
    /\ current_round >= propose_lock
    /\ ContainsInRoundFrom(current_round, Self)
    /\ lock_holder' = {t}
    /\ tx_primary_round' = [tx_primary_round EXCEPT ![t] = current_round]
    /\ Goto(t, "ask_skip")
    /\ UNCHANGED <<storageVars, dagVars, bftVars, tx_primary_certificate, callback,
                   tx_sync_bft_dag, ledger, shutdown, faults,
                   batch, vid, propose_lock, signed_proposals, processVars>>

\* Whatever the BFT answered, this call proposes nothing.
LiteAsked(t) ==
    /\ pc[t] = "ask_skip"
    /\ callback[t] # "none"
    /\ Received(t)
    /\ lock_holder' = {}
    /\ Return(t, TRUE)
    /\ UNCHANGED <<storageVars, dagVars, bftVars, tx_primary_round, tx_primary_certificate,
                   tx_sync_bft_dag, ledger, shutdown, faults,
                   batch, vid, propose_lock, signed_proposals, processVars>>

\* Mutant: the propose lock is not compared with the current round.
LiteProposesAgain(t) ==
    /\ pc[t] = "enter"
    /\ lock_holder = {}
    /\ current_round <= MaxRound
    /\ ~ContainsInRoundFrom(current_round, Self)
    /\ PreviousReady
    /\ lock_holder' = {t}
    /\ propose_lock' = current_round
    /\ batch' = [batch EXCEPT ![t] = {NewCertificate(Self, current_round)}]
    /\ Goto(t, "store")
    /\ UNCHANGED <<storageVars, dagVars, bftVars, channelVars, ledger, shutdown, faults,
                   vid, signed_proposals, processVars>>

\* Mutant: the proposed round is not recorded behind the lock.
LiteProposesUnrecorded(t) ==
    /\ pc[t] = "enter"
    /\ lock_holder = {}
    /\ current_round <= MaxRound
    /\ current_round > propose_lock
    /\ ~ContainsInRoundFrom(current_round, Self)
    /\ PreviousReady
    /\ lock_holder' = {t}
    /\ batch' = [batch EXCEPT ![t] = {NewCertificate(Self, current_round)}]
    /\ Goto(t, "store")
    /\ UNCHANGED <<storageVars, dagVars, bftVars, channelVars, ledger, shutdown, faults,
                   vid, propose_lock, signed_proposals, processVars>>

\* A batch is built on the certificates of the previous round, the round is
\* recorded behind the lock, and the batch is signed by everyone.
LiteProposes(t) ==
    /\ pc[t] = "enter"
    /\ lock_holder = {}
    /\ current_round <= MaxRound
    /\ current_round > propose_lock
    /\ ~ContainsInRoundFrom(current_round, Self)
    /\ PreviousReady
    /\ lock_holder' = {t}
    /\ propose_lock' = current_round
    /\ batch' = [batch EXCEPT ![t] = {NewCertificate(Self, current_round)}]
    /\ Goto(t, "store")
    /\ UNCHANGED <<storageVars, dagVars, bftVars, channelVars, ledger, shutdown, faults,
                   vid, signed_proposals, processVars>>

\* complete_batch_lite and store_and_broadcast_certificate_lite: the blocking
\* insertion, then the certificate goes to the BFT.
LiteStores(t) ==
    /\ pc[t] = "store"
    /\ \E c \in batch[t] :
         /\ InsertCertificate(c)
         /\ IF CanInsert(c)
            THEN Send(t, c) /\ Goto(t, "dag") /\ UNCHANGED lock_holder
            ELSE UNCHANGED tx_primary_certificate /\ Return(t, FALSE) /\ lock_holder' = {}
    /\ UNCHANGED <<current_round, gc_round, dagVars, bftVars, tx_primary_round, callback,
                   tx_sync_bft_dag, ledger, shutdown, faults,
                   batch, vid, propose_lock, signed_proposals, processVars>>

\* Signing or storing the batch fails.
LiteFails(t) ==
    /\ pc[t] = "store"
    /\ Fault
    /\ lock_holder' = {}
    /\ Return(t, FALSE)
    /\ UNCHANGED <<storageVars, dagVars, bftVars, channelVars, ledger, shutdown,
                   batch, vid, propose_lock, signed_proposals, processVars>>

\* The DAG was updated: try_increment_to_the_next_round_lite up to its request.
LiteInDag(t) ==
    /\ pc[t] = "dag"
    /\ callback[t] # "none"
    /\ Received(t)
    /\ \E c \in batch[t] :
         IF callback[t] = "ok"
         THEN /\ current_round' = FastForwarded(c.round + 1)
              /\ IF current_round' < c.round + 1
                 THEN /\ tx_primary_round' = [tx_primary_round EXCEPT ![t] = current_round']
                      /\ Goto(t, "ask_lite")
                      /\ UNCHANGED <<lock_holder, vid>>
                 ELSE /\ UNCHANGED tx_primary_round
                      /\ Goto(t, "fake")
                      /\ lock_holder' = {}
                      /\ vid' = [vid EXCEPT ![t] = 1]
         ELSE /\ Return(t, FALSE)
              /\ lock_holder' = {}
              /\ UNCHANGED <<current_round, tx_primary_round, vid>>
    /\ UNCHANGED <<gc_round, certificates, dagVars, bftVars, tx_primary_certificate,
                   tx_sync_bft_dag, ledger, shutdown, faults,
                   batch, propose_lock, signed_proposals, processVars>>

\* The BFT answered; the lock is released and the other batches are forged.
LiteDone(t) ==
    /\ pc[t] = "ask_lite"
    /\ callback[t] # "none"
    /\ Received(t)
    /\ lock_holder' = {}
    /\ vid' = [vid EXCEPT ![t] = 1]
    /\ Goto(t, "fake")
    /\ UNCHANGED <<storageVars, dagVars, bftVars, tx_primary_round, tx_primary_certificate,
                   tx_sync_bft_dag, ledger, shutdown, faults,
                   batch, propose_lock, signed_proposals, processVars>>

-----------------------------------------------------------------------------
(* fake_proposal, once for each of the other validators, without the lock.  *)

\* Mutant: batches are forged for two validators fewer.
FakeProposalTooFew(t) ==
    /\ pc[t] = "fake"
    /\ \E c \in batch[t] :
         IF vid[t] + 2 \in Validator
         THEN /\ batch' = [batch EXCEPT ![t] = {NewCertificate(vid[t], c.round)}]
              /\ Goto(t, "fake_store")
         ELSE UNCHANGED batch /\ Return(t, TRUE)
    /\ UNCHANGED <<storageVars, dagVars, bftVars, channelVars, ledger, shutdown, faults,
                   vid, propose_lock, lock_holder, signed_proposals, processVars>>

FakeProposal(t) ==
    /\ pc[t] = "fake"
    /\ \E c \in batch[t] :
         IF vid[t] \in Validator
         THEN /\ batch' = [batch EXCEPT ![t] = {NewCertificate(vid[t], c.round)}]
              /\ Goto(t, "fake_store")
         ELSE UNCHANGED batch /\ Return(t, TRUE)
    /\ UNCHANGED <<storageVars, dagVars, bftVars, channelVars, ledger, shutdown, faults,
                   vid, propose_lock, lock_holder, signed_proposals, processVars>>

\* The forged certificate is stored; a validator that already signed this round
\* ends the call before the certificate reaches the BFT.
FakeStores(t) ==
    /\ pc[t] = "fake_store"
    /\ \E c \in batch[t] :
         /\ InsertCertificate(c)
         /\ IF ~CanInsert(c)
            THEN /\ Return(t, FALSE)
                 /\ UNCHANGED <<vid, signed_proposals, tx_primary_certificate>>
            ELSE IF signed_proposals[c.author] = c.round
            THEN /\ Goto(t, "fake")
                 /\ vid' = [vid EXCEPT ![t] = @ + 1]
                 /\ UNCHANGED <<signed_proposals, tx_primary_certificate>>
            ELSE /\ signed_proposals' = [signed_proposals EXCEPT ![c.author] = c.round]
                 /\ Send(t, c)
                 /\ Goto(t, "fake_dag")
                 /\ UNCHANGED vid
    /\ UNCHANGED <<current_round, gc_round, dagVars, bftVars, tx_primary_round, callback,
                   tx_sync_bft_dag, ledger, shutdown, faults,
                   batch, propose_lock, lock_holder, processVars>>

\* Signing or storing a forged batch fails, and with it the rest of propose_batch.
FakeFails(t) ==
    /\ pc[t] = "fake_store"
    /\ Fault
    /\ Return(t, FALSE)
    /\ UNCHANGED <<storageVars, dagVars, bftVars, channelVars, ledger, shutdown,
                   batch, vid, propose_lock, lock_holder, signed_proposals, processVars>>

FakeInDag(t) ==
    /\ pc[t] = "fake_dag"
    /\ callback[t] # "none"
    /\ Received(t)
    /\ IF callback[t] = "ok"
       THEN Goto(t, "fake") /\ vid' = [vid EXCEPT ![t] = @ + 1]
       ELSE Return(t, FALSE) /\ UNCHANGED vid
    /\ UNCHANGED <<storageVars, dagVars, bftVars, tx_primary_round, tx_primary_certificate,
                   tx_sync_bft_dag, ledger, shutdown, faults,
                   batch, propose_lock, lock_holder, signed_proposals, processVars>>
=============================================================================
