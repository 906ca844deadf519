-------------------------------- MODULE Node --------------------------------
(***************************************************************************)
(* The process around the primary: how it boots from the ledger and the    *)
(* proposal cache (Primary::run, node/bft/src/sync/mod.rs, BFT::run), how  *)
(* it shuts down (Validator::shut_down, BFT::shut_down,                    *)
(* Primary::shut_down), how it crashes, and the specification of the whole.*)
(* Only the ledger and the proposal cache survive a run of the process     *)
(* (the --keep-state mode).                                                *)
(***************************************************************************)
EXTENDS Primary

\* The certificates a set of certificates yields first: by round, then by author.
Earliest(C) ==
    {c \in C : \A d \in C : \/ c.round < d.round
                            \/ c.round = d.round /\ c.author <= d.author}

-----------------------------------------------------------------------------
(* Bootup.                                                                 *)

\* The blocks that may hold rounds above the GC round.
RecentBlocks ==
    LET gc_height == SaturatingSub(Len(ledger), MaxGcRounds \div 2)
    IN  {ledger[h] : h \in MaxOf(1, gc_height)..Len(ledger)}

RecentCertificates == UNION {b.certificates : b \in RecentBlocks}

\* Mutant: the primary boots in round 1.
BootFromRoundOne ==
    /\ status = "down"
    /\ run < MaxRuns
    /\ run' = run + 1
    /\ status' = "syncing"
    /\ current_round' = 1
    /\ gc_round' = SaturatingSub(MaxOf(1, LatestAnchor), MaxGcRounds)
    /\ todo' = RecentCertificates
    /\ UNCHANGED <<certificates, dagVars, bftVars, channelVars, ledger, shutdown, faults,
                   primaryVars, loading, cache>>

\* Storage::new and the start of sync_storage_with_ledger_at_bootup.
Boot ==
    /\ status = "down"
    /\ run < MaxRuns
    /\ run' = run + 1
    /\ status' = "syncing"
    /\ current_round' = MaxOf(1, LatestAnchor)
    /\ gc_round' = SaturatingSub(MaxOf(1, LatestAnchor), MaxGcRounds)
    /\ todo' = RecentCertificates
    /\ UNCHANGED <<certificates, dagVars, bftVars, channelVars, ledger, shutdown, faults,
                   primaryVars, loading, cache>>

\* sync_certificate_with_block, for the next certificate of the ledger.
SyncCertificate ==
    /\ status = "syncing"
    /\ \E c \in Earliest(todo) :
         /\ InsertCertificate(c)
         /\ todo' = todo \ {c}
    /\ UNCHANGED <<current_round, gc_round, dagVars, bftVars, channelVars, ledger, shutdown,
                   faults, primaryVars, loading, status, run, cache>>

\* The certificates of the ledger are sent to the BFT, which is not awaited, and
\* load_proposal_cache restores the primary.
LoadProposalCache ==
    /\ status = "syncing"
    /\ todo = {}
    /\ status' = "loading"
    /\ tx_sync_bft_dag' = {RecentCertificates}
    /\ IF cache = {}
       THEN UNCHANGED <<propose_lock, signed_proposals, todo>>
       ELSE \E saved \in cache :
              /\ propose_lock' = saved.round
              /\ signed_proposals' = saved.signed
              /\ todo' = saved.pending
    /\ Goto("boot", "load")
    /\ UNCHANGED <<storageVars, dagVars, bftVars, tx_primary_round, tx_primary_certificate,
                   callback, ledger, shutdown, faults, batch, vid, lock_holder,
                   loading, run, cache>>

\* The primary is behind a pending certificate.
IsBehind(c) ==
    \/ IsQuorum(Authors(CertificatesFor(c.round))) /\ c.round > current_round
    \/ c.round > current_round + MaxGcRounds

\* sync_with_certificate_from_peer on the next pending certificate, up to the
\* insertion; the primary moves, and may propose, if the certificate is ahead of it.
LoadNext ==
    /\ pc["boot"] = "load"
    /\ \E c \in Earliest(todo) :
         /\ todo' = todo \ {c}
         /\ loading' = {c}
         /\ IF c.round <= gc_round \/ c \in certificates
            THEN UNCHANGED <<current_round, tx_primary_round, pc>>
            ELSE IF IsBehind(c)
                 THEN TryIncrement("boot", c.round)
                 ELSE Goto("boot", "load_store") /\ UNCHANGED <<current_round, tx_primary_round>>
    /\ UNCHANGED <<gc_round, certificates, dagVars, bftVars, tx_primary_certificate, callback,
                   tx_sync_bft_dag, ledger, shutdown, faults, batch, vid, propose_lock,
                   lock_holder, signed_proposals, status, run, cache>>

\* The pending certificate is stored and sent to the BFT; one that is refused is
\* skipped.
LoadStore ==
    /\ pc["boot"] = "load_store"
    /\ \E c \in loading :
         /\ InsertCertificate(c)
         /\ IF CanInsert(c)
            THEN Send("boot", c) /\ Goto("boot", "load_dag")
            ELSE UNCHANGED tx_primary_certificate /\ Goto("boot", "load")
    /\ UNCHANGED <<current_round, gc_round, dagVars, bftVars, tx_primary_round, callback,
                   tx_sync_bft_dag, ledger, shutdown, faults, batch, vid, propose_lock,
                   lock_holder, signed_proposals, processVars>>

\* The transmissions of the pending certificate are not found: it is skipped.
LoadFails ==
    /\ pc["boot"] = "load_store"
    /\ Fault
    /\ Goto("boot", "load")
    /\ UNCHANGED <<storageVars, dagVars, bftVars, channelVars, ledger, shutdown,
                   batch, vid, propose_lock, lock_holder, signed_proposals, processVars>>

\* Whether the BFT succeeded or not, the loop goes on.
LoadInDag ==
    /\ pc["boot"] = "load_dag"
    /\ callback["boot"] # "none"
    /\ Received("boot")
    /\ Goto("boot", "load")
    /\ UNCHANGED <<storageVars, dagVars, bftVars, tx_primary_round, tx_primary_certificate,
                   tx_sync_bft_dag, ledger, shutdown, faults,
                   batch, vid, propose_lock, lock_holder, signed_proposals, processVars>>

\* Sync::run, start_handlers and the end of BFT::run.  The loops sleep before their
\* first turn, and the consensus sender is set without an await in between.
StartHandlers ==
    /\ pc["boot"] = "load"
    /\ todo = {}
    /\ status' = "running"
    /\ loading' = {}
    /\ pc' = [t \in Task |-> IF t = "boot" THEN "done" ELSE "idle"]
    /\ batch' = [batch EXCEPT !["boot"] = {}]
    /\ consensus_sender' = TRUE
    /\ UNCHANGED <<storageVars, dagVars, leader_certificate, handler, channelVars, ledger,
                   shutdown, faults, vid, propose_lock, lock_holder, signed_proposals,
                   todo, run, cache>>

-----------------------------------------------------------------------------
(* Shutdown and crash.                                                      *)

\* Validator::shut_down sets the flag, then awaits the REST server.
SetShutdown ==
    /\ status = "running"
    /\ ~shutdown
    /\ shutdown' = TRUE
    /\ UNCHANGED <<storageVars, dagVars, bftVars, channelVars, ledger, faults,
                   primaryVars, processVars>>

\* The state of a process that does not run.
PowerOff ==
    /\ status' = "down"
    /\ current_round' = 0 /\ gc_round' = 0 /\ certificates' = {}
    /\ graph' = {} /\ recent_committed_ids' = {} /\ last_committed_round' = 0
    /\ leader_certificate' = {} /\ consensus_sender' = FALSE /\ handler' = Idle
    /\ tx_primary_round' = [t \in Task |-> 0]
    /\ tx_primary_certificate' = [t \in Task |-> {}]
    /\ callback' = [t \in Task |-> "none"]
    /\ tx_sync_bft_dag' = {}
    /\ shutdown' = FALSE
    /\ pc' = [t \in Task |-> "off"]
    /\ batch' = [t \in Task |-> {}]
    /\ vid' = [t \in Task |-> 0]
    /\ propose_lock' = 0 /\ lock_holder' = {}
    /\ signed_proposals' = [v \in Validator |-> 0]
    /\ todo' = {} /\ loading' = {}

\* The tasks whose insertion runs on a blocking thread, which abort does not stop.
InFlight == {t \in Task : pc[t] \in {"store", "fake_store"}}

\* BFT::shut_down waits for the BFT lock; Primary::shut_down aborts the tasks and
\* saves the proposal cache with the certificates that are not in the ledger.
\* Insertions in flight may or may not be seen.
ShutDown ==
    /\ status = "running"
    /\ shutdown
    /\ handler.pc = "idle"
    /\ \E finished \in SUBSET InFlight :
         LET stored == certificates \cup
                         {c \in UNION {batch[t] : t \in finished} : CanInsert(c)}
         IN  cache' = {[round   |-> propose_lock,
                        signed  |-> signed_proposals,
                        pending |-> {c \in stored : c \notin LedgerCertificates}]}
    /\ PowerOff
    /\ UNCHANGED <<ledger, faults, run>>

\* The process is killed: nothing is saved.
Crash ==
    /\ CrashAllowed
    /\ status # "down"
    /\ PowerOff
    /\ UNCHANGED <<ledger, faults, run, cache>>

-----------------------------------------------------------------------------
(* The specification.                                                       *)

Init ==
    /\ status = "down" /\ run = 0
    /\ ledger = << >> /\ cache = {} /\ faults = 0
    /\ current_round = 0 /\ gc_round = 0 /\ certificates = {}
    /\ DagInit
    /\ leader_certificate = {} /\ consensus_sender = FALSE /\ handler = Idle
    /\ tx_primary_round = [t \in Task |-> 0]
    /\ tx_primary_certificate = [t \in Task |-> {}]
    /\ callback = [t \in Task |-> "none"]
    /\ tx_sync_bft_dag = {}
    /\ shutdown = FALSE
    /\ pc = [t \in Task |-> "off"]
    /\ batch = [t \in Task |-> {}]
    /\ vid = [t \in Task |-> 0]
    /\ propose_lock = 0 /\ lock_holder = {}
    /\ signed_proposals = [v \in Validator |-> 0]
    /\ todo = {} /\ loading = {}

\* The three handlers of the BFT leave the primary and the process alone.
RoundHandler(t) == UpdateToNextRound(t) /\ UNCHANGED <<primaryVars, processVars>>

CertificateHandler(t) == UpdateDag(t) /\ UNCHANGED <<primaryVars, processVars>>

CommitHandler ==
    /\ \/ CheckLeader \/ CommitLeader \/ CollectGarbage
       \/ AdvanceFails \/ CommitFails
    /\ UNCHANGED <<primaryVars, processVars>>

SyncHandler == SyncBftDagAtBootup /\ UNCHANGED <<primaryVars, processVars>>

\* A step of a task inside propose_batch or try_increment_to_the_next_round.
TaskStep(t) ==
    \/ IncrementAnswered(t)
    \/ LiteSkips(t) \/ LiteTooSoon(t) \/ LiteAsks(t) \/ LiteAsked(t)
    \/ LiteProposes(t) \/ LiteStores(t) \/ LiteFails(t) \/ LiteInDag(t) \/ LiteDone(t)
    \/ FakeProposal(t) \/ FakeStores(t) \/ FakeFails(t) \/ FakeInDag(t)

BootStep ==
    \/ SyncCertificate \/ LoadProposalCache \/ LoadNext \/ LoadStore \/ LoadFails
    \/ LoadInDag \/ StartHandlers

Next ==
    \/ Boot \/ BootStep \/ SetShutdown \/ ShutDown \/ Crash
    \/ ProposerWakes \/ IncrementWakes
    \/ CommitHandler \/ SyncHandler
    \/ \E t \in Task : RoundHandler(t) \/ CertificateHandler(t) \/ TaskStep(t)

Spec == Init /\ [][Next]_vars

\* Every spawned task and handler is scheduled.  The loops sleep 2 s and a batch must
\* be 1 s younger than the next, so a loop that finds the previous batch too recent
\* does not find it so for ever.  Nothing makes the process start, stop or fail.
Fairness ==
    /\ WF_vars(BootStep)
    /\ WF_vars(ProposerWakes) /\ WF_vars(IncrementWakes)
    /\ WF_vars(CommitHandler) /\ WF_vars(SyncHandler)
    /\ WF_vars(\E t \in Task : CertificateHandler(t))
    /\ \A t \in Task : WF_vars(RoundHandler(t)) /\ WF_vars(TaskStep(t))
    /\ SF_vars(\E t \in Task : LiteProposes(t) \/ LiteAsks(t))

FairSpec == Spec /\ Fairness

-----------------------------------------------------------------------------
(* The type invariant.                                                      *)

Label == {"off", "done", "idle", "enter", "ask_increment", "ask_skip", "store", "dag",
          "ask_lite", "fake", "fake_store", "fake_dag", "load", "load_store", "load_dag"}

SavedCache == [round : Nat, signed : [Validator -> Nat], pending : SUBSET Certificate]

\* The types of the storage, of the primary's tasks and of the process.
TypeOK ==
    /\ current_round \in Nat /\ gc_round \in Nat
    /\ certificates \subseteq Certificate
    /\ graph \subseteq Certificate
    /\ recent_committed_ids \subseteq CertificateID
    /\ last_committed_round \in Nat
    /\ leader_certificate \subseteq Certificate
    /\ consensus_sender \in BOOLEAN
    /\ handler \in [pc : {"idle", "check", "commit"}, from : SUBSET Task, round : Nat,
                    chain : SUBSET Certificate]
    /\ tx_primary_round \in [Task -> Nat]
    /\ tx_primary_certificate \in [Task -> SUBSET Certificate]
    /\ callback \in [Task -> {"none", "ready", "not_ready", "ok", "err"}]
    /\ tx_sync_bft_dag \subseteq SUBSET Certificate
    /\ ledger \in Seq([anchor : Nat, certificates : SUBSET Certificate])
    /\ shutdown \in BOOLEAN
    /\ faults \in 0..MaxFaults
    /\ pc \in [Task -> Label]
    /\ batch \in [Task -> SUBSET Certificate]
    /\ vid \in [Task -> Nat]
    /\ propose_lock \in Nat
    /\ lock_holder \subseteq Task
    /\ signed_proposals \in [Validator -> Nat]
    /\ todo \subseteq Certificate /\ loading \subseteq Certificate
    /\ status \in {"down", "syncing", "loading", "running"}
    /\ run \in 0..MaxRuns
    /\ cache \subseteq SavedCache

-----------------------------------------------------------------------------
(* Safety.                                                                  *)

\* Below any stored certificate, down to the GC round, the storage has a quorum of
\* the previous round and every certificate it refers to: neither insertion
\* (check_batch_header) nor garbage collection nor a restart leaves a gap.
StorageClosed ==
    \A c \in certificates :
        c.round - 1 > gc_round =>
            /\ c.previous \subseteq IDs(certificates)
            /\ IsQuorum(Authors(c.previous))

\* The batches of validator 0 made in this run, stored or on their way there.
OwnBatches == {c \in certificates \cup UNION {batch[t] : t \in Task} :
                  c.author = Self /\ c.run = run}

\* In one run of the process validator 0 makes at most one batch for a round, stored
\* or on its way to the storage, and never above the propose lock: the lock is what
\* keeps the two loops and bootup from signing two batches of a round.
OneOwnBatchPerRound ==
    /\ \A c \in OwnBatches : c.round <= propose_lock
    /\ \A c, d \in OwnBatches : c.round = d.round => c = d

Equivocation(c, d) == c.author = d.author /\ c.round = d.round /\ c # d

OneCertificatePerRound ==
    LET known == certificates \cup graph \cup LedgerCertificates
                   \cup UNION {saved.pending : saved \in cache}
    IN  \A c, d \in known : ~Equivocation(c, d)

CommittedOnce ==
    \A g, h \in 1..Len(ledger) :
        g # h => ledger[g].certificates \cap ledger[h].certificates = {}

AnchorsRise == \A h \in 2..Len(ledger) : ledger[h - 1].anchor < ledger[h].anchor

\* A block and the blocks before it hold everything the block's certificates refer
\* to, down to the GC round: no batch of a committed history is lost.
LedgerClosed ==
    \A h \in 1..Len(ledger) : \A c \in ledger[h].certificates : \A id \in c.previous :
        id.round + MaxGcRounds > ledger[h].anchor =>
            \E g \in 1..h : id \in IDs(ledger[g].certificates)

(* The three properties that follow speak of any number of runs.  They have *)
(* one exception: a commit without a block (DagCommittedInLedger) leaves a  *)
(* gap in the ledger, the next bootup then lacks the predecessors of the    *)
(* blocks above it and cannot load them, and if a crash has also left the   *)
(* proposal cache of an older run, the node repeats rounds that the ledger  *)
(* has.  Without a gap the blocks are loaded, and no stale lock does harm.  *)

\* No validator has two certificates for one round, in the storage, in the DAG, in
\* the ledger or in the proposal cache, unless the ledger has a gap: across restarts
\* the propose lock, the pending certificates of the cache and the blocks that bootup
\* loads prevent a second batch for a round, also when the cache is that of an older run.
NoEquivocation == OneCertificatePerRound \/ ~LedgerClosed

\* No certificate is in two blocks, unless the ledger has a gap: order_dag_with_dfs never
\* commits again what the ledger or the DAG has committed, not even after a restart.
NoDoubleCommit == CommittedOnce \/ ~LedgerClosed

\* Every block is anchored above the one before it, unless the ledger has a gap.
AnchorsIncrease == AnchorsRise \/ ~LedgerClosed

\* The primary never works on a round below the latest block.
RoundNotBehind == status # "down" => current_round >= LatestAnchor

\* Every even round gets its block, in order, even when a block was refused at first:
\* the next leader commits the leaders before it.
NoAnchorSkipped == \A h \in 1..Len(ledger) : ledger[h].anchor = 2 * h

\* Once a block is anchored above a round, every certificate of that round that is
\* in the storage is in the ledger.
NothingLeftBehind ==
    \A c \in certificates : c.round < LatestAnchor => c \in LedgerCertificates

\* What the DAG takes for committed is in the ledger: the DAG is updated when "the
\* subdag was successfully included into a block".
DagCommittedInLedger == recent_committed_ids \subseteq IDs(LedgerCertificates)

-----------------------------------------------------------------------------
(* Liveness, under FairSpec.  The bound MaxRound leaves room for block n + 1. *)

Stopped == shutdown \/ status = "down"

\* Until something fails, the two loops keep the chain growing.
ChainGrows ==
    \A n \in 0..((MaxRound - 3) \div 2) :
        status = "running" /\ Len(ledger) = n
            ~> Len(ledger) > n \/ Stopped \/ faults > 0

\* A run in which the round of the propose lock has a quorum of certificates.
RoundComplete ==
    /\ status = "running"
    /\ propose_lock < MaxRound
    /\ IsQuorum(Authors(CertificatesFor(propose_lock)))

\* Such a run makes a block, also when it resumes a run that was shut down.
CompleteRoundContinues ==
    RoundComplete /\ ledger = << >> ~> ledger # << >> \/ Stopped

\* "The chain continues from block 100, the last block generated when running in
\* --keep-state mode.": whatever the earlier run was doing when it was shut down.
RestartContinues ==
    status = "running" /\ run > 1 /\ ledger = << >> ~> ledger # << >> \/ Stopped
=============================================================================
