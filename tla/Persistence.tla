----------------------------- MODULE Persistence -----------------------------
(***************************************************************************)
(* What the node keeps on disk in the --keep-state mode and how it finds   *)
(* it again: the ledger, the transmissions of the storage service and the  *)
(* proposal cache file, across shutdowns, crashes and `clean`.             *)
(*                                                                         *)
(* Rounds, quorums and the DAG are the matter of the module Node.  Here a  *)
(* round is one certificate, that of validator 0: it alone carries         *)
(* transmissions, and those of the others are made after it, on the same   *)
(* predecessors.  Its previous certificate is known by the run of the      *)
(* process that made it.  Limits of batches and queues are the matter of   *)
(* the module Mempool.                                                     *)
(*                                                                         *)
(* The writes to the database of an insertion and of a garbage collection  *)
(* are done one by one, in an order the batch happens to have: here in any *)
(* order.  A shutdown aborts the tasks of the node but not these writes;   *)
(* a crash, or the end of the process, stops them where they are.          *)
(***************************************************************************)
EXTENDS StorageService, BlockLocators

CONSTANTS MaxGcRounds,  \* the number of rounds kept in storage
          MaxRound,     \* bound: no batch is proposed above this round
          MaxRuns,      \* bound on the number of runs of the process
          MaxCleans     \* bound on the uses of the clean command

ASSUME PersistenceAssumption ==
    /\ MaxGcRounds \in Nat \ {0}
    /\ {MaxRound, MaxRuns, MaxCleans} \subseteq Nat

VARIABLES
    certificates,   \* the certificates in storage, in memory
    gc_round,       \* rounds up to this one were collected
    checking,       \* transmissions with a request past the worker's first check
    ready,          \* the transmissions in the ready queue
    spawned,        \* the certificate a blocking insertion will store: {} or a singleton
    inserting,      \* the writes left of the insertion that runs
    removing,       \* the writes left of the garbage collection that runs
    committed,      \* the last round the DAG has committed
    advanced,       \* an anchor was committed, and the collection after it is still to come
    todo,           \* the certificates bootup has still to insert
    status,         \* down, syncing, loading, running, saving, stopped
    run,            \* the number of the current or last run
    ledger,         \* the blocks after the genesis block
    file,           \* the proposal cache file: none, torn, or its pending certificates
    saving,         \* the pending certificates being written to it
    cleaning,       \* whether the clean command is between its two removals
    cleans,         \* how often the clean command was used
    forgot,         \* (ghost) whether a certificate was collected that the DAG took for
                    \* committed and no block has
    unbacked,       \* (ghost) whether the DAG committed an anchor without a block
    born,           \* (ghost) the last run before the ledger was made
    interrupted     \* (ghost) whether an insertion was lost on the way to the disk

dagVars == <<committed, advanced>>
memoryVars == <<certificates, gc_round, checking, ready, spawned, inserting, removing,
                dagVars, todo>>
diskVars == <<databaseVars, ledger, file>>
cleanVars == <<cleaning, cleans, born>>
ghostVars == <<forgot, unbacked, interrupted>>
vars == <<serviceVars, memoryVars, status, run, ledger, file, saving, cleanVars, ghostVars>>

CertificateID == [round : Nat, run : Nat]
Certificate == [round : Nat, run : Nat, previous : Nat, ids : SUBSET TransmissionID]

ID(c) == [round |-> c.round, run |-> c.run]

NoFile == [state |-> "none", pending |-> {}]
TornFile == [state |-> "torn", pending |-> {}]

-----------------------------------------------------------------------------
(* The ledger.                                                             *)

LatestAnchor == IF ledger = <<>> THEN 0 ELSE ledger[Len(ledger)].anchor

Block == {ledger[i] : i \in DOMAIN ledger}

\* contains_transmission of the ledger service: confirmed, rejected and aborted ones.
Ledger == UNION {b.included \cup b.aborted : b \in Block}

\* get_solution and get_unconfirmed_transaction: not the aborted ones.
LedgerBodies == UNION {b.included : b \in Block}

LedgerCertificates == UNION {b.certificates : b \in Block}

\* get_pending_certificates
Pending == certificates \ LedgerCertificates

MinusRounds(a, b) == IF a > b THEN a - b ELSE 0

-----------------------------------------------------------------------------
(* The certificate storage.                                                *)

\* What check_certificate asks besides the transmissions.
CanInsert(c) ==
    /\ c.round > gc_round
    /\ \A d \in certificates : d.round # c.round
    /\ c.round - 1 > gc_round =>
          \E d \in certificates : d.round = c.round - 1 /\ d.run = c.previous

InsertOk(c, provided, aborted) ==
    CanInsert(c) /\ NoneUnprovided(c.ids, provided, aborted)

Write(op, c, t) == [op |-> op, certificate |-> ID(c), id |-> t]

\* The writes of insert_transmissions: an ID of the certificate with its body, an ID
\* whose body should be there, an aborted ID.
InsertWrites(c, provided, aborted) ==
    LET missing == FindMissing(c.ids, provided)
    IN  {Write("put", c, t) : t \in missing}
            \cup {Write("hold", c, t) : t \in c.ids \ missing}
            \cup {Write("abort", c, t) : t \in aborted}

\* insert_certificate: the maps in memory at once, the database write by write.  A
\* refused certificate leaves the storage as it was.
InsertCertificate(c, provided, aborted) ==
    IF InsertOk(c, provided, aborted)
    THEN /\ certificates' = certificates \cup {c}
         /\ inserting' = InsertWrites(c, provided, aborted)
    ELSE UNCHANGED <<certificates, inserting>>

\* The next write of the insertion.  A body that was there when the insertion began and
\* was collected since is passed over.
WriteInserted ==
    /\ \E w \in inserting :
         /\ \/ w.op = "put" /\ InsertTransmission(w.id, w.certificate, {w.id})
            \/ w.op = "hold" /\ InsertTransmission(w.id, w.certificate, {})
            \/ w.op = "abort" /\ InsertAborted(w.id, w.certificate)
         /\ inserting' = inserting \ {w}
         /\ interrupted' = (interrupted \/ (w.op = "hold" /\ w.id \notin Stored))
    /\ UNCHANGED <<certificates, gc_round, checking, ready, spawned, removing, dagVars, todo,
                   status, run, ledger, file, saving, cleanVars, forgot, unbacked>>

-----------------------------------------------------------------------------
(* The worker and the proposer.                                            *)

\* Worker::contains_transmission
WorkerContains(t) == t \in ready \/ ContainsTransmission(t) \/ t \in Ledger

\* Worker::get_transmission
WorkerGet(t) == t \in ready \/ GetTransmission(t)

\* process_unconfirmed_*, up to the check by the ledger.
Receive(t) ==
    /\ status = "running"
    /\ ~WorkerContains(t)
    /\ checking' = checking \cup {t}
    /\ UNCHANGED <<serviceVars, certificates, gc_round, ready, spawned, inserting, removing,
                   dagVars, todo, status, run, ledger, file, saving, cleanVars, ghostVars>>

\* The check of a request is done: its transmission is queued, unless a block has it by
\* now.  (A request that fails the check is as one that was never made.)  Another
\* request for the same transmission may be at the same point.
Checked(t) ==
    /\ t \in checking
    /\ \E last \in BOOLEAN : checking' = IF last THEN checking \ {t} ELSE checking
    /\ ready' = IF t \in Ledger THEN ready ELSE ready \cup {t}
    /\ UNCHANGED <<serviceVars, certificates, gc_round, spawned, inserting, removing,
                   dagVars, todo, status, run, ledger, file, saving, cleanVars, ghostVars>>

NextRound ==
    IF certificates = {} THEN Max({1, LatestAnchor})
    ELSE Max({c.round : c \in certificates}) + 1

\* The run that made the certificate of a round; 0 if storage has none.
MadeBy(round) == LET C == {c \in certificates : c.round = round}
                 IN  IF C = {} THEN 0 ELSE (CHOOSE c \in C : TRUE).run

\* The batches the ready queue can give: a transmission in the ledger is dropped, and
\* one in storage too unless it comes first.
Batch ==
    LET queued == ready \ Ledger
        fresh == queued \ Stored
    IN  {fresh \cup {t} : t \in queued}
            \cup (IF fresh # {} \/ queued = {} THEN {fresh} ELSE {})

\* propose_batch_lite and complete_batch_lite, up to the blocking insertion.  A commit that
\* runs keeps the next round from its quorum.
Propose ==
    /\ status = "running"
    /\ spawned = {} /\ inserting = {}
    /\ NextRound <= MaxRound
    /\ advanced \/ removing # {} => NextRound % 2 = 0
    /\ \E ids \in Batch :
         spawned' = {[round |-> NextRound, run |-> run,
                      previous |-> MadeBy(NextRound - 1), ids |-> ids]}
    /\ ready' = {}
    /\ UNCHANGED <<serviceVars, certificates, gc_round, checking, inserting, removing,
                   dagVars, todo, status, run, ledger, file, saving, cleanVars, ghostVars>>

\* store_and_broadcast_certificate_lite: the blocking insertion starts.  It does so even
\* after the task that spawned it was aborted.
Store ==
    /\ inserting = {}
    /\ spawned # {}
    /\ \A c \in spawned : InsertCertificate(c, c.ids, {})
    /\ spawned' = {}
    /\ UNCHANGED <<serviceVars, gc_round, checking, ready, removing, dagVars, todo,
                   status, run, ledger, file, saving, cleanVars, ghostVars>>

-----------------------------------------------------------------------------
(* Blocks.                                                                 *)

\* The certificate was handed to the BFT: its insertion is over.
InDag(c) == c \in certificates /\ \A w \in inserting : w.certificate # ID(c)

\* The oldest anchor that update_dag commits on behalf of a certificate of an odd round:
\* its round has the anchors below it, and at most the proposer is a round further.
IsReady(anchor) ==
    LET odd == {c.round : c \in {d \in certificates : InDag(d) /\ d.round % 2 = 1}}
    IN  /\ anchor > committed /\ anchor % 2 = 0
        /\ \E c \in certificates : c.round = anchor
        /\ \A c \in certificates : c.round > committed /\ c.round % 2 = 0 => c.round >= anchor
        /\ \E top \in odd : anchor < top /\ \A c \in certificates \cup spawned : c.round <= top + 1

\* commit_leader_certificate, for one anchor of the chain.  While the proposal cache is
\* loaded there is no consensus to ask, and the DAG commits without a block.  A
\* transmission that is neither in the ledger nor retrievable ends the commit.
Commit(anchor) ==
    /\ status \in {"loading", "running"}
    /\ removing = {}
    /\ IsReady(anchor)
    /\ LET subdag == {c \in Pending : c.round > committed /\ c.round <= anchor}
           ids == (UNION {c.ids : c \in subdag}) \ Ledger
       IN  /\ \A t \in ids : GetTransmission(t)
           /\ \/ status = "loading" /\ UNCHANGED ledger
              \/ /\ status = "running"
                 /\ \E included \in SUBSET ids :
                      ledger' = Append(ledger, [anchor |-> anchor, certificates |-> subdag,
                                                included |-> included,
                                                aborted |-> ids \ included])
    /\ committed' = anchor
    /\ advanced' = TRUE
    /\ unbacked' = (unbacked \/ status = "loading")
    /\ UNCHANGED <<serviceVars, certificates, gc_round, checking, ready, spawned, inserting,
                   removing, todo, status, run, file, saving, cleanVars, forgot, interrupted>>

\* The block of a later anchor of the chain is refused: nothing is collected.
Refuse ==
    /\ advanced
    /\ status = "running"
    /\ \E anchor \in 2..MaxRound : IsReady(anchor)
    /\ advanced' = FALSE
    /\ UNCHANGED <<serviceVars, certificates, gc_round, checking, ready, spawned, inserting,
                   removing, committed, todo, status, run, ledger, file, saving, cleanVars,
                   ghostVars>>

\* Mutant: garbage collection goes by the current round.
NextGcOfCurrent == MinusRounds(NextRound, MaxGcRounds)

\* The round up to which certificates are collected.
NextGcRound == MinusRounds(committed, MaxGcRounds)

\* garbage_collect_certificates and remove_certificate, when the last anchor of the
\* chain is committed.
Collect ==
    LET collected == {c \in certificates : c.round <= NextGcRound}
    IN  /\ advanced
        /\ status \in {"loading", "running"}
        /\ \A anchor \in 2..MaxRound : ~IsReady(anchor)
        /\ advanced' = FALSE
        /\ IF NextGcRound > gc_round
           THEN /\ gc_round' = NextGcRound
                /\ certificates' = certificates \ collected
                /\ removing' = UNION {{Write("drop", c, t) : t \in c.ids} : c \in collected}
                /\ forgot' = (forgot \/ \E c \in collected \ LedgerCertificates :
                                            c.round <= committed)
           ELSE UNCHANGED <<gc_round, certificates, removing, forgot>>
        /\ UNCHANGED <<serviceVars, checking, ready, spawned, inserting, committed, todo,
                       status, run, ledger, file, saving, cleanVars, unbacked, interrupted>>

\* The next write of the garbage collection.
WriteRemoved ==
    /\ \E w \in removing :
         /\ RemoveTransmission(w.id, w.certificate)
         /\ removing' = removing \ {w}
    /\ UNCHANGED <<certificates, gc_round, checking, ready, spawned, inserting, dagVars, todo,
                   status, run, ledger, file, saving, cleanVars, ghostVars>>

-----------------------------------------------------------------------------
(* The end of a run.                                                       *)

\* What was begun and is not yet on disk.
Unfinished == spawned # {} \/ inserting # {}

\* Certificates whose transmissions are in the database and that are in no block.
Exposed == \E c \in Pending : c.ids # {}

\* Mutant: what has a block is saved, and what has none is not.
SavedCommitted == certificates \cap LedgerCertificates

\* The certificates that the proposal cache takes.
Saved == Pending

\* Primary::shut_down: the tasks are aborted, the pending certificates are listed, and
\* ProposalCache::store truncates the file.
ShutDown ==
    /\ status = "running"
    /\ status' = "saving"
    /\ saving' = Saved
    /\ file' = TornFile
    /\ interrupted' = (interrupted \/ spawned # {})
    /\ checking' = {} /\ ready' = {} /\ advanced' = FALSE
    /\ UNCHANGED <<serviceVars, certificates, gc_round, spawned, inserting, removing, todo,
                   committed, run, ledger, cleanVars, forgot, unbacked>>

\* ProposalCache::store has written the file.
Save ==
    /\ status = "saving"
    /\ status' = "stopped"
    /\ file' = [state |-> "saved", pending |-> saving]
    /\ saving' = {}
    /\ UNCHANGED <<serviceVars, memoryVars, run, ledger, cleanVars, ghostVars>>

\* The memory of the process is gone.
LoseMemory ==
    /\ certificates' = {} /\ gc_round' = 0
    /\ checking' = {} /\ ready' = {}
    /\ spawned' = {} /\ inserting' = {} /\ removing' = {}
    /\ committed' = 0 /\ advanced' = FALSE
    /\ todo' = {} /\ saving' = {}
    /\ cache_transmissions' = {}
    /\ status' = "down"

\* The process ends after the shutdown, whatever still runs.
Exit ==
    /\ status = "stopped"
    /\ LoseMemory
    /\ interrupted' = (interrupted \/ Unfinished)
    /\ UNCHANGED <<databaseVars, run, ledger, file, cleanVars, forgot, unbacked>>

\* The process is killed.
Crash ==
    /\ status # "down"
    /\ LoseMemory
    /\ interrupted' = (interrupted \/ Unfinished \/ Exposed \/ status = "saving")
    /\ UNCHANGED <<databaseVars, run, ledger, file, cleanVars, forgot, unbacked>>

-----------------------------------------------------------------------------
(* Bootup.                                                                 *)

\* The blocks sync_storage_with_ledger_at_bootup reads: a block takes two rounds or more.
RecentBlocks ==
    LET gc_height == MinusRounds(Len(ledger), MaxGcRounds \div 2)
    IN  {ledger[h] : h \in Max({1, gc_height})..Len(ledger)}

\* BFTPersistentStorage::open, Storage::new and the first part of
\* sync_storage_with_ledger_at_bootup.
Boot ==
    /\ status = "down" /\ ~cleaning
    /\ run < MaxRuns
    /\ run' = run + 1
    /\ status' = "syncing"
    /\ Open
    /\ gc_round' = MinusRounds(LatestAnchor, MaxGcRounds)
    /\ todo' = UNION {b.certificates : b \in RecentBlocks}
    /\ UNCHANGED <<databaseVars, certificates, checking, ready, spawned, inserting, removing,
                   dagVars, ledger, file, saving, cleanVars, ghostVars>>

\* Mutant: the last round comes first.
Latest(C) == {c \in C : \A d \in C : c.round >= d.round}

\* The certificates are inserted in the order of their rounds.
Earliest(C) == {c \in C : \A d \in C : c.round <= d.round}

\* sync_certificate_with_block: what storage lacks comes from the ledger, or is aborted.
SyncCertificate ==
    /\ status = "syncing"
    /\ inserting = {}
    /\ \E c \in Earliest(todo) :
         /\ LET lacking == c.ids \ Stored
            IN  InsertCertificate(c, lacking \cap LedgerBodies,
                                  (lacking \ LedgerBodies) \cap Ledger)
         /\ todo' = todo \ {c}
    /\ UNCHANGED <<serviceVars, gc_round, checking, ready, spawned, removing, dagVars,
                   status, run, ledger, file, saving, cleanVars, ghostVars>>

\* sync_bft_dag_at_bootup and load_proposal_cache: a file that cannot be read ends the bootup with an error.
LoadProposalCache ==
    /\ status = "syncing"
    /\ todo = {} /\ inserting = {}
    /\ file.state # "torn"
    /\ status' = "loading"
    /\ todo' = file.pending
    /\ committed' = LatestAnchor
    /\ UNCHANGED <<serviceVars, certificates, gc_round, checking, ready, spawned, inserting,
                   removing, advanced, run, ledger, file, saving, cleanVars, ghostVars>>

BootFails ==
    /\ status = "syncing"
    /\ todo = {} /\ inserting = {}
    /\ file.state = "torn"
    /\ LoseMemory
    /\ UNCHANGED <<databaseVars, run, ledger, file, cleanVars, ghostVars>>

\* fetch_missing_transmissions: the bodies the worker finds.
Fetched(c) == {t \in c.ids \ Stored : WorkerGet(t)}

\* sync_with_certificate_from_peer for a pending certificate of the file, in the order
\* of the rounds; a certificate that cannot be stored is skipped.
LoadCertificate ==
    /\ status = "loading"
    /\ inserting = {} /\ ~advanced /\ removing = {}
    /\ \E c \in Earliest(todo) :
         /\ InsertCertificate(c, Fetched(c), {})
         /\ todo' = todo \ {c}
    /\ UNCHANGED <<serviceVars, gc_round, checking, ready, spawned, removing, dagVars,
                   status, run, ledger, file, saving, cleanVars, ghostVars>>

\* The handlers start, and a shutdown will save the proposal cache.
Start ==
    /\ status = "loading"
    /\ todo = {} /\ inserting = {} /\ ~advanced /\ removing = {}
    /\ status' = "running"
    /\ UNCHANGED <<serviceVars, memoryVars, run, ledger, file, saving, cleanVars, ghostVars>>

-----------------------------------------------------------------------------
(* The clean command: the proposal cache first, then the ledger with the   *)
(* database beside it.  It looks for ledgers, never for proposal caches.   *)

\* Mutant: the proposal cache stays.
KeepProposalCache ==
    /\ status = "down" /\ ~cleaning
    /\ run > born
    /\ cleans < MaxCleans
    /\ cleans' = cleans + 1
    /\ cleaning' = TRUE
    /\ interrupted' = TRUE
    /\ UNCHANGED <<serviceVars, memoryVars, status, run, ledger, file, saving, born, forgot,
                   unbacked>>

\* remove_proposal_cache, for a ledger that some run has made.
RemoveProposalCache ==
    /\ status = "down" /\ ~cleaning
    /\ run > born
    /\ cleans < MaxCleans
    /\ cleans' = cleans + 1
    /\ cleaning' = TRUE
    /\ file' = NoFile
    /\ interrupted' = TRUE
    /\ UNCHANGED <<serviceVars, memoryVars, status, run, ledger, saving, born, forgot,
                   unbacked>>

\* remove_ledger
RemoveLedger ==
    /\ cleaning
    /\ cleaning' = FALSE
    /\ ledger' = <<>>
    /\ transmissions' = Empty /\ aborted_transmission_ids' = Empty
    /\ born' = run
    /\ forgot' = FALSE /\ unbacked' = FALSE
    /\ interrupted' = FALSE
    /\ UNCHANGED <<cache_transmissions, memoryVars, status, run, file, saving, cleans>>

\* The command fails or is stopped between its two removals.
CleanStops ==
    /\ cleaning
    /\ cleaning' = FALSE
    /\ UNCHANGED <<serviceVars, memoryVars, status, run, ledger, file, saving, cleans, born,
                   ghostVars>>

-----------------------------------------------------------------------------
Init ==
    /\ transmissions = Empty /\ aborted_transmission_ids = Empty
    /\ cache_transmissions = {}
    /\ certificates = {} /\ gc_round = 0
    /\ checking = {} /\ ready = {}
    /\ spawned = {} /\ inserting = {} /\ removing = {}
    /\ committed = 0 /\ advanced = FALSE /\ todo = {}
    /\ forgot = FALSE /\ unbacked = FALSE
    /\ status = "down" /\ run = 0
    /\ ledger = <<>> /\ file = NoFile /\ saving = {}
    /\ cleaning = FALSE /\ cleans = 0 /\ born = 0
    /\ interrupted = FALSE

Next ==
    \/ \E t \in TransmissionID : Receive(t) \/ Checked(t)
    \/ Propose \/ Store \/ WriteInserted
    \/ \E anchor \in 2..MaxRound : Commit(anchor)
    \/ Refuse \/ Collect \/ WriteRemoved
    \/ ShutDown \/ Save \/ Exit \/ Crash
    \/ Boot \/ SyncCertificate \/ LoadProposalCache \/ BootFails \/ LoadCertificate \/ Start
    \/ RemoveProposalCache \/ RemoveLedger \/ CleanStops

Spec == Init /\ [][Next]_vars

-----------------------------------------------------------------------------
(* Properties.                                                             *)

Writes == [op : {"put", "hold", "abort", "drop"}, certificate : CertificateID,
           id : TransmissionID]

\* Every variable has a value of its type, and no two certificates share a round.
TypeOK ==
    /\ \A map \in {transmissions, aborted_transmission_ids} :
          /\ DOMAIN map \subseteq TransmissionID
          /\ \A t \in DOMAIN map : map[t] \subseteq CertificateID /\ map[t] # {}
    /\ cache_transmissions \subseteq TransmissionID
    /\ Cardinality(cache_transmissions) <= CacheCapacity
    /\ certificates \subseteq Certificate /\ gc_round \in Nat
    /\ \A c, d \in certificates : c.round = d.round => c = d
    /\ {checking, ready} \subseteq SUBSET TransmissionID
    /\ spawned \subseteq Certificate /\ Cardinality(spawned) <= 1
    /\ inserting \subseteq Writes /\ removing \subseteq Writes
    /\ {advanced, cleaning, forgot, unbacked, interrupted} \subseteq BOOLEAN
    /\ todo \subseteq Certificate
    /\ status \in {"down", "syncing", "loading", "running", "saving", "stopped"}
    /\ {run, born, cleans, committed} \subseteq Nat
    /\ ledger \in Seq([anchor : Nat, certificates : SUBSET Certificate,
                       included : SUBSET TransmissionID, aborted : SUBSET TransmissionID])
    /\ file.state \in {"none", "torn", "saved"}
    /\ file.pending \subseteq Certificate /\ saving \subseteq Certificate

\* The commit of a certificate never fails for want of a transmission: what a certificate
\* in the DAG declares is in the ledger or retrievable, whatever was cut short, evicted
\* from the cache, garbage collected or reloaded before (bft.rs:706).  A certificate that
\* was collected without a block may take the transmissions it shares with a later one
\* along.
Retrievable ==
    ~forgot => \A c \in Pending : InDag(c) => \A t \in c.ids : t \in Ledger \/ GetTransmission(t)

\* The cache may answer with a transmission that storage no longer contains, but only
\* with one that the ledger contains, so that no batch can take it up again
\* (persistent.rs:121).  A commit without a block is the one way around that.
StaleIsConfirmed ==
    ~forgot => \A t \in cache_transmissions : ContainsTransmission(t) \/ t \in Ledger

\* Unless an insertion was cut short or its certificate lost by a crash, or the DAG has
\* committed without a block, a running node that refuses a transmission because storage
\* contains it has confirmed it, or has a certificate that holds it (worker.rs:258).
RefusedIsHeld ==
    ~interrupted /\ ~unbacked /\ status = "running" =>
        \A t \in Stored : t \in Ledger \/ \E c \in certificates : t \in c.ids

\* After shutdowns that nothing cut short, the file can be read, and a node that runs
\* again has each certificate of it in storage or in a block (primary.rs:181).  A commit
\* without a block leaves a gap in the ledger, over which bootup loads nothing.
PendingSurvives ==
    ~interrupted =>
        /\ status = "down" => file.state # "torn"
        /\ status = "running" /\ ~unbacked =>
              file.pending \subseteq certificates \cup LedgerCertificates

\* After a clean, wherever it or the runs around it were stopped, nothing of the former
\* chain is found again: no block, no transmission, no pending certificate
\* (clean.rs:80, api_helpers.rs:152).
NothingFromBefore ==
    /\ \A c \in certificates \cup file.pending \cup LedgerCertificates : c.run > born
    /\ \A map \in {transmissions, aborted_transmission_ids} :
          \A t \in DOMAIN map : \A id \in map[t] : id.run > born

\* Any chain, up to the names of its hashes: each block has a hash of its own.
Chain == [h \in 0..MaxHeight |-> h]

\* Up to the last height but one of a u32, the node can build its locators, `new` refuses
\* none of them, and they are consistent with the ones it built at any earlier height
\* (sync/mod.rs:187).  Evaluated once, in the initial state.
LocatorsAccepted ==
    run = 0 /\ cleans = 0 =>
        \A h \in 0..(MaxHeight - 1) :
            /\ GetBlockLocators(Chain, h) # {}
            /\ \A k \in 0..h :
                  \A old \in GetBlockLocators(Chain, k), new \in GetBlockLocators(Chain, h) :
                      IsConsistentWith(old, new)

\* All maps of up to n entries with heights up to MaxHeight and two hashes.
Maps(n) ==
    {map \in UNION {[1..k -> [height : 0..MaxHeight, hash : {"x", "y"}]] : k \in 0..n} :
        \A i, j \in DOMAIN map : map[i].height = map[j].height => i = j}

\* What a node has built and written is read unaltered.  Whatever else a faulty node
\* writes is read unaltered or refused, and refused exactly if it is not well-formed: "this
\* well-formedness is an invariant of `BlockLocators` instances" (block_locators.rs:70).
\* Evaluated once, in the initial state.
LocatorsRoundTrip ==
    run = 0 /\ cleans = 0 =>
        /\ \A h \in 0..MaxHeight : \A built \in GetBlockLocators(Chain, h) :
              ReadLe(WriteLe(built)) = {built}
        /\ \A recents \in Maps(NumRecentBlocks), checkpoints \in Maps(2) :
              LET written == Locators(recents, checkpoints)
              IN  ReadLe(WriteLe(written))
                    = IF WellFormed(recents, checkpoints, MaxHeight) THEN {written} ELSE {}

\* The checks accept exactly the locators that some validator of at most MaxHeight
\* blocks may have (WellFormedFor, which is the code's reading of the documentation: no
\* checkpoint for the block after the last), and the two lookups they unwrap cannot fail
\* (block_locators.rs:187).  Evaluated once, in the initial state.
AcceptedIsWellFormed ==
    run = 0 /\ cleans = 0 =>
        \A recents \in Maps(NumRecentBlocks + 1), checkpoints \in Maps(2) :
            /\ LooksUp(recents, checkpoints) =>
                  Common(recents) \in Heights(recents) \cap Heights(checkpoints)
            /\ CheckBlockLocators(recents, checkpoints)
                  <=> WellFormed(recents, checkpoints, MaxHeight)
=============================================================================
