# A TLA+ model of amareleo-chain

amareleo-chain is a single-process Aleo node for developers. It runs the consensus
protocol of snarkOS (Narwhal batches, a Bullshark-style BFT, a snarkVM ledger), but all the
validators live in one process: the primary of validator 0 makes the real batches, signs
them with everybody's keys, and forges empty batches of the other validators so that
every round reaches its quorum. This directory models that machinery, checks it with TLC
and proves parts of it with TLAPS.

## 1. Inventory

| part | state it keeps | operations | talks to |
|---|---|---|---|
| ready queue (`helpers/ready.rs`) | VecDeque of transmissions, map ID -> logical index, offset | insert, insert_front, remove_front, clear_solutions, get, contains | worker |
| worker (`worker.rs`) | a ready queue | process_unconfirmed_*, reinsert, remove_front | primary, ledger |
| certificate storage (`helpers/storage.rs`) | current round, GC round, certificates above it, transmissions | insert_certificate, garbage_collect, increment_to_next_round, sync_*_with_block | primary, BFT, sync |
| storage service (`storage-service/`) | two database maps from transmissions to the certificates that hold them, an LRU cache in front of one | insert, remove, find missing, get, contains | storage, worker |
| DAG (`helpers/dag.rs`) | uncommitted certificates, recently committed IDs, last committed round | insert, commit | BFT |
| BFT (`bft.rs`) | DAG, leader certificate and its timer, a lock | update_to_next_round, update_dag, commit_leader_certificate, sync_bft_dag_at_bootup | primary by channels, consensus by a callback |
| primary (`primary.rs`) | propose lock (latest proposed round), signed proposals, workers | two loops, propose_batch, fake_proposal, try_increment_to_the_next_round | storage, BFT, proposal cache |
| sync (`sync/mod.rs`) | nothing | storage and DAG from the ledger at bootup | ledger, storage, BFT |
| proposal cache (`helpers/proposal_cache.rs`) | a file | load, store | primary, `clean` |
| consensus (`consensus/src/lib.rs`) | queues of unconfirmed solutions and transactions, LRU of seen IDs | add_*, process_*, process_bft_subdag | BFT, primary, ledger |
| ledger service | a block cache, the latest leader, the shutdown flag | advance_to_next_block, queries | snarkVM ledger |
| validator and REST (`node/src/validator`, `node/rest`) | consensus, HTTP server | new, shut_down | API |
| node API (`api/src/api/api_node.rs`) | singleton: state engine, settings, validator | cfg_*, start, end | validator |
| block locators (`node/sync`) | maps of heights to hashes | build, check, compare, read and write | sync |
| command line (`cli`) | nothing | start, clean, account commands | node API, files |

What is hard here. Every request of the primary to the BFT is a message and an awaited
callback, so other tasks run in the middle of `propose_batch`. The proposer loop, the
increment loop and bootup may all be inside it; only a tokio mutex that also holds the
latest proposed round keeps them apart, and only for the batch of validator 0: the
batches of the others are forged after the lock is released. The process may be shut down
(which saves the proposal cache) or killed (which does not) at any await. Bootup rebuilds
three things that must agree (storage, DAG, propose lock) from two that were saved at
different times (ledger, proposal cache). The commit rule walks a DAG that is pruned
while blocks may be refused. A transmission is handed from queue to task to worker to
batch to storage with an await at each step, and any step may fail. The database is
written entry by entry, by threads that outlive the tasks that started them, and a later
run believes what it finds there. The API of the node lets any thread start and stop it. The
hazards, with their lines and the properties that would catch them, are in `PROJECT.json`.

What makes each part correct: the queue's index agrees with its contents; the storage has
no gap above the GC round; the BFT commits every certificate once, in order, and skips no
anchor; the primary never signs two batches of a round, not even over a restart, and the
chain grows; a transmission that consensus has taken is neither lost nor confirmed twice;
what a stored certificate declares can be found when it is committed, and what is stored for
no certificate blocks no transmission; a cleaned node remembers nothing; the block locators
a node accepts are those that a validator with some number of blocks builds; the API runs at most one validator with the settings it reports.

## 2. Modules

```
Committee <- Storage <- Dag <- BFT <- Primary <- Node      the node across restarts
                       Node <- MCNode
                       Node <- NodeProofs <- BatchProofs <- RoundProofs <- LedgerProofs
Mempool <- MempoolProofs                                   transmissions, from client to block
ReadyQueue (abstract) <- Ready <- MCReady, ReadyProofs     the ready queue
NodeApi <- NodeApiProofs                                   the programming interface
StorageService, BlockLocators <- Persistence               what is on disk, and found again
                                 Persistence <- MCPersistence, PersistenceProofs
```

The arrows are EXTENDS, except that `Ready` INSTANCEs `ReadyQueue`. `Node`, `Mempool`
and `NodeApi` are run directly: the `.cfg` files give their constants. `MCNode` adds the constraint of the
run that crosses restarts.

**Ready** follows the struct: `transmission_ids`, `transmissions`, `offset`, one action per
operation. `offset` is bounded by `MaxOffset`; the `as usize` of a negative difference is
modelled by `get` answering None. **ReadyQueue** is the promise: a double-ended queue
without duplicate IDs.

**Committee** is snarkVM's committee as this code uses it: equal stakes, quorum n - f,
availability f + 1, and the leader of every round is validator 0 (`bft.rs` uses the
account of the primary instead of the committee's leader).

**Storage** is a set of certificates, the current round and the GC round. The three maps
of the code hold the same certificates. A certificate has an author, a round, the IDs it
refers to, and the number of the run that made it: a batch made again after a restart
is signed again and is another certificate. Timestamps, signatures and transmissions
are left out; that they may be missing or fail is the action that fails (below).
`check_certificate` and `check_batch_header` are `CanInsert` and `PreviousOk`.

**Dag** is `dag.rs` and the traversals `is_linked`, the walk of
`commit_leader_certificate`, and `order_dag_with_dfs`, written as functions from rounds to
sets of certificates, because every edge goes down exactly one round. The order inside a
round is not modelled. `LinkBroken` and `MissingPrevious` are the `bail!`s.

**BFT** has the handlers of `start_handlers`. `UpdateToNextRound` answers a round request
(the leader timer may or may not have expired). `UpdateDag`, `CheckLeader`,
`CommitLeader` and `CollectGarbage` are the certificate handler, cut where it reads
another task's state or awaits consensus; `handler` is its program counter and stands
for the BFT lock. Consensus runs while the BFT awaits it, so appending the block is part
of `CommitLeader`; `AdvanceFails` is a refused block or the shutdown flag, `CommitFails` a
missing transmission. `SyncBftDagAtBootup` is a handler that takes no lock.

**Primary** has three tasks: "proposer" and "increment", the two loops, and "boot". One
action is the code of a task between two awaits. `lock_holder` is the mutex and
`propose_lock` the round behind it. The early returns of `propose_batch_lite` are
`LiteSkips`, `LiteTooSoon` and `LiteAsks`, in the order of the code; what goes into a batch
is in `Mempool`. `FakeProposal` to `FakeInDag` forge the other batches without the lock.

**Node** is the process: `Boot`, `SyncCertificate`, `LoadProposalCache` and the `Load*`
actions are bootup; `SetShutdown` and `ShutDown` the two halves of a shutdown; `Crash` a
kill. Only `ledger` and `cache` survive. An insertion on a blocking thread survives
`abort`, so a shutdown may or may not find its certificate (`InFlight`).

**Mempool** follows transmission IDs through `consensus/src/lib.rs`, `worker.rs` and the
draining loop of `propose_batch_lite`. The tasks are the clients (requests that submit),
the interval loop, and the consensus task that adds blocks; each takes IDs from the LRU
queues (`Process`) and delivers them one at a time to one of the two handlers of the
primary (`Receive`, then `Checked` or `CheckFails`: the ledger's check is an await). The
proposer pops, checks and selects (`RemoveFront`, `Select`, `Skip`). Then it stores the batch
(`Store`); or the header, the proposal or the storing fails and the batch is put back
(`StoreFails`); or signing for the other validators fails, and nothing puts it back
(`SigningFails`). `Advance` is a block of the oldest stored batches, `Refuse` a refused one whose
transmissions are sent back. Rounds and restarts are left to `Node`: the order of batches
and blocks is all that counts here. Every transaction costs one unit, and the checks that
the ledger makes may fail for the IDs in `Doubtful`. The test for room and the taking of
what fits are one step: tasks that measure the same room are still there, because what
a task holds in `todo` is not counted. A ghost, `owed`, is what was queued and not dropped
by one of the steps that drop: an eviction at capacity, an epoch, a failed check, and the
failure to sign.

**NodeApi** is the state engine of `AmareleoApi` with any number of threads. Each of
`start` and `end` is several actions, because the mutex is not held in between; starting
may fail at the ledger, at consensus or at the REST port.

**StorageService** is `persistent.rs`: the maps `transmissions` and
`aborted_transmission_ids` from IDs to the certificates that hold them, and
`cache_transmissions`, the LRU cache (with eviction of any entry: the order of use is not
kept). Its operations are the writes for one transmission, because the code makes them one
by one and nothing wraps them in a batch.

**Persistence** composes it with the certificate storage, the worker, the proposer, the
commit, shutdown, bootup and the `clean` command. Rounds and quorums are the matter of
`Node`, so a round here is the one certificate that carries transmissions, that of
validator 0. An insertion changes the maps in memory at once (`InsertCertificate`) and leaves
its writes in `inserting`; `WriteInserted` does them in any order. Garbage collection does
the same with `removing`. A shutdown aborts tasks but not these writes; `Crash` and
`Exit` cut them where they are. `Commit` while the status is "loading" is the commit without a
block that `node_unbacked` shows. `RemoveProposalCache`, `RemoveLedger` and
`CleanStops` are the clean command. Three ghosts say what happened: `born` is the last run
before the last clean, `interrupted` is set when an insertion is lost on its way to the disk,
`forgot` when a certificate is collected that the DAG took for committed and no block has.

**BlockLocators** are pure operators: the two checks, the comparison, the building from a
chain, writing and reading. An `IndexMap` is a sequence of entries with distinct heights,
because the checks go by the order of insertion. `New` is the constructor, which checks; building
and reading both end in it, and may fail there. The reference is `WellFormedFor`, for a
validator with n blocks. Its recent blocks are those of the documentation of the structure.
Its checkpoints are those of the code, the multiples of the interval below n: the documentation
(`block_locators.rs:52`) has them up to n, which names a block that does not exist where n is a
multiple. In that case neither the building nor the checks follow it.

## 3. Runs

All instances of the node have four validators (f = 1) and a GC depth of 4 rounds, so
that garbage collection happens at the second block. `MaxRound` bounds the rounds in
which a batch is proposed, `MaxRuns` the runs of the process, `MaxFaults` the transient
errors. Deadlock is not checked there: at these bounds the system stops.

| run | instance | shows |
|---|---|---|
| `ready` | 4 IDs, 2 payloads, offset in -4..4 | index and deque agree; `get` is right; the queue refines `ReadyQueue` |
| `node_run` | 7 rounds (3 blocks), 1 run, 2 faults | `TypeOK`; `StorageClosed`: no gap above GC; `LedgerClosed`: a block's history is complete; `NoAnchorSkipped`: a refused block is made up for by the next leader; `NothingLeftBehind`: no stored batch of a committed round is lost; `DagCommittedInLedger`; fair: `ChainGrows`: without a failure every block is followed by another |
| `node_restart` | 5 rounds, 2 runs, shutdown or crash anywhere, 1 fault; a third run after a crash of the second, without a fault | `OneOwnBatchPerRound`, `RoundNotBehind`; unless the ledger has a gap, `NoEquivocation`, `NoDoubleCommit`, `AnchorsIncrease` |
| `node_resume` | 5 rounds, 2 runs, fair | `CompleteRoundContinues`: a resumed node whose last round is complete makes a block |
| `mempool` | a solution and 2 executions, queues of 1, room for 1, spend limit of 1, 1 client, 1 fault, 1 epoch, fair | `OwedIsHeld`: nothing queued is lost on its way, but by the steps that drop; `OnePlace`: nothing is at two places, also after failures; `EventuallyConfirmed`: what is queued is confirmed, unless a batch fails for good |
| `mempool_forget` | a deployment and an execution, a seen set of 1, 1 fault | `LedgerOnce`: copies of a transmission are confirmed once |
| `persistence` | 2 transmissions, cache of 1, 5 rounds, GC depth 2, 2 runs, 1 clean; locators of up to 7 blocks, 2 recent, interval 3 | `Retrievable`: no commit fails for want of a transmission; `StaleIsConfirmed`: what the cache alone still has is in the ledger; `RefusedIsHeld`: nothing is refused for a certificate that is gone; `PendingSurvives`: pending certificates come back; `NothingFromBefore`: a clean forgets everything; `LocatorsAccepted`: what is built is accepted; `LocatorsRoundTrip`: what is written is read unaltered or, if it is not well-formed, refused; `AcceptedIsWellFormed`: what is accepted is what some validator builds |
| `api` | 2 threads, 3 validators, fair | `OneCall`, `OneValidator`, `ConfigLocked`, `PendingResolves` |

Seven rounds are enough for three anchors: a commit, a refused commit that the next one
includes, and garbage collection of the first rounds. Two runs are enough for one
proposal cache to be written in any state of the first run and read by the second; a
transient error or a crash may hit either. A third run meets what two cannot: a crash of the
second leaves the proposal cache of the first, older than the ledger. The constraint
`ThirdRunAfterCrash` of `MCNode` keeps those third runs, without a fault. Without their guard
`NoEquivocation`, `NoDoubleCommit` and `AnchorsIncrease` all fail there: the second run's bootup
commits without a block (`node_unbacked`), the ledger has a gap, and the third run's bootup
cannot load the blocks above the gap, so that it proposes a round of the ledger again. The
guard is `LedgerClosed`, that is, no gap; with it they hold, also in all third runs of five
rounds without a fault and of four rounds with one, and `NoEquivocation` in those of six rounds
without a fault. In `Mempool` the limits are small so that each
is reached: a queue evicts, the worker is full, the spend limit cuts a batch, and the
seen set forgets. `mempool` keeps the batch limit above the number of IDs, because
reaching it loses a transmission (below).

In `persistence` five rounds and a depth of 2 are enough for two blocks, a garbage collection
that removes what a block has, and certificates that are pending at the end of a run; the
second run reloads them; the cache of one entry evicts, and the clean may come before either
run. Transmissions differ by name only, so the run uses them as a symmetry set. Three million
states. With a third run, in which what was reloaded and saved again is reloaded once more
over a ledger and a GC round that have moved on, the properties hold for one transmission
without a clean, in five rounds with GC depths from 1 to 5 and in six with a depth of 3 (set
these constants in `MCPersistence.cfg`). The locators depend on nothing that changes and are evaluated in
the initial state: heights up to 7 meet both sides of every comparison in the checks (zero
blocks, fewer and more than the recent ones, at a checkpoint, next to it, at the last height
of a u32, where `new` refuses what was built), and `AcceptedIsWellFormed` goes through all maps
of up to three recent entries and two checkpoints with two hashes, `LocatorsRoundTrip` through
those of two and two.

Four runs show where the code does something else than its documentation or its comments say
(`findings` in `PROJECT.json`):

- `node_stall`: the propose lock is set to the round before the round's certificates are
  stored, and a shutdown saves it. The next run finds the round proposed, no certificate
  for it, and skips it at every turn: the chain does not continue. (So does a batch that
  fails within a run: there is no next proposal for the transmissions it puts back.)
- `node_unbacked`: during bootup there is no consensus sender yet, so a leader in the
  proposal cache that becomes ready is committed in the DAG, and no block holds it.
  (`DagCommittedInLedger` therefore holds only within one run. With restarts `LedgerClosed`
  and `NothingLeftBehind` fail for the same reason, and in a third run after a crash so do
  `NoEquivocation`, `NoDoubleCommit` and `AnchorsIncrease` without their guard.)
- `api_restart`: the shutdown flag that `end()` sets is shared with the validator of the next
  `start()` and never cleared, so a node restarted in the same process adds no block.

- `mempool_batch_limit`: the draining loop pops a transmission before it looks at the batch
  limit and does not put it back; submitting it again is answered with Ok and ignored.

Fairness. `FairSpec` in `Node` gives weak fairness to every task and handler: tokio runs
every task that is ready, the loops are `loop { sleep; ... }`, and the handlers `while let
Some(..) = rx.recv().await`. Strong fairness is assumed of getting past the timestamp
check: a loop sleeps 2 s and batches must be 1 s apart, so a loop that is turned away as
too early is not turned away for ever. Nothing makes the process start, stop, fail or
crash. In `NodeApi` a call that was made is driven to its end, and a running validator
whose ledger accepts blocks makes them (which is what `ChainGrows` shows of it). In
`Mempool` the tasks and handlers go on, the proposer too unless a batch has failed (Node
shows that it then may stop), and a stored batch is followed by a
block, which is again what `ChainGrows` and `NothingLeftBehind` show; no client has to
submit anything.

## 4. Proofs

Each theorem holds for every value of the constants that satisfies the named assumptions
(`CommitteeAssumption`: at least one validator; `StorageAssumption`: a positive GC depth;
`LocatorsAssumption`: at least one recent block, and fewer than an interval; `FaultAssumption`,
`PrimaryAssumption`, `ApiAssumption`, `ReadyAssumption`, `MempoolAssumption`,
`PersistenceAssumption`: the bounds are naturals), so also for unbounded rounds, runs and failures in effect: the bounds only
appear in guards.

- **ReadyProofs**: `IndexInv` is inductive (each operation shifts or rebuilds the index
  consistently, and `remove_front` and `clear_solutions` need that IDs are distinct, which
  follows from the index). `GetAnswersQueued` follows from it, and `QueueImplemented`: under
  the mapping that forgets the index and the offset, each operation of `Ready` is the
  operation of `ReadyQueue` of the same name, or leaves the queue alone.
- **NodeProofs**: `TypeCorrect`, one lemma per group of actions; the interesting leaves
  are the saturating subtraction and the sets built by the DAG operators. `StorageHasNoGap`:
  the inductive invariant is types, an empty storage when the process is down, and closure
  below every certificate. An insertion is checked against the same rounds that closure
  speaks of; garbage collection raises `gc_round` with what it removes; a restart starts
  from nothing.
- **BatchProofs**: `OneBatchPerRound`. The property alone is not inductive. The
  strengthening adds that certificates of later runs do not exist (`RunInv`), that what
  bootup loads was made by earlier runs (`OldInv`), that no task makes batches before bootup
  has loaded the propose lock (`EarlyInv`), and that what a task forges in its fake phase
  belongs to other validators (`ForgeInv`). A new batch is then above the old lock and
  every other batch of the run is not.
- **RoundProofs**: `PrimaryNotBehind`, over any number of runs. A block is anchored at a
  leader that the BFT found through a certificate which some task sent and still awaits. So
  the invariant follows a request through its channel (`RequestInv`: one at a time, and its
  task waits for it), tells the phases of a run apart (`PhaseInv`), and bounds the rounds of
  batches, certificates sent and leaders about to be committed by the current round
  (`AheadInv`).
- **LedgerProofs**: `FirstRunAnchors`, `FirstRunCommitsOnce`, `FirstRunLedgerClosed`,
  `FirstRunNoEquivocation`, `FirstRunDagBacked`: five properties of the ledger, for a process that
  starts from an empty ledger (without --keep-state every one does), with any number of
  rounds and failures in any interleaving. Where the property is guarded by `LedgerClosed`, the
  theorem states the guard too. They are proved together (`ChainInv`). The
  invariant `FreshInv` adds that the first process finds nothing on disk and nothing is
  left of one that is down (`OffInv`, `NewInv`, `EmptyInv`); that DAG and ledger have
  committed up to the same round and the leaders about to be committed are above it
  (`AnchorInv`); that a certificate that is anywhere is in storage unless its round was
  collected, so that the test for equivocation that an insertion makes on the storage is a
  test on all certificates (`KnownInv`); and that tasks hold no two batches of a round
  (`BatchesInv`). The search for what a leader commits is a recursive function; the lemma
  `LeastNumber` (a non-empty set of naturals has a least member, from the well-founded order
  of finite sets) stands in for induction: the least argument at which the function is not
  what is claimed leads to a contradiction.
  `FirstRunSkipsNone` and `FirstRunLeavesNothing` rest on a second invariant (`SpineInv`): in
  the first run only the proposer makes batches (`ProposerInv`), each a round
  above the last and on all that storage has of the round before, and `IncrementWakes` never
  finds a quorum ahead. The certificates of validator 0, the leader, above the last block are therefore all
  in the DAG, each linked to the one before, also after a block was refused (`OwnInv`), and the
  leaders about to be committed are those of every even round since it (`TurnInv`). The
  walk of `commit_leader_certificate`, a recursive function that the lemma `WalkIs` shows equal
  to an explicit one, meets every even round among them (`ChainComplete`), so the next block is
  anchored two rounds above the last one and takes the two rounds below its anchor.
- **NodeApiProofs**: `CallsAreExclusive`, `ValidatorIsUnique`, `ConfigIsLocked`. The
  strengthening `StageInv` ties what runs to the program counter of the one call in flight.
- **MempoolProofs**, for any number of clients, transmissions, failures and epochs, and every
  capacity and limit:
  - `ConfirmedOnce`. That the ledger is a sequence makes `LedgerOnce` inductive: a block
    holds nothing that an earlier one has, and only `Advance` adds one.
  - `MempoolTypes`. `StageInv` ties what a task, a handler or the proposer has in hand to where
    it is: a task has something in hand exactly while it queues or sends it, a handler
    checks the first of what a sending task holds and never what a refused block sends
    back (that is still stored), and queues, worker and batch have no duplicates. What the code filters is `Without` in the model, with
    the lemma `WithoutFacts`; SelectSeq is recursive and out of reach.
  - `NothingLost` and `OnlyOnePlace` share one lemma per action (`PlacesKept`), on which
    transmissions it moves, from where to where. Each has a hypothesis, and each hypothesis
    is one behaviour of the code. `BatchHasRoom`: no transmission is popped beyond
    the batch limit; that one is lost (`mempool_batch_limit`). A batch that cannot be signed is
    lost too, which `owed` allows for; the theorem says that no other hand-over loses any. `Remembers`: no step evicts from the seen sets (they have 2^16
    entries); after an eviction a transmission can be submitted again while it is on its way,
    and only `ConfirmedOnce` remains. `OneInv` adds to `OnePlace` that tasks hold different
    transmissions and that everything anywhere has been seen.
- **PersistenceProofs**, for any number of runs, rounds, transmissions and cleans, with
  crashes at any write:
  - `CleanForgets`. `NothingFromBefore` is about the disk and the storage; `SinceInv` says the
    same of all that is on its way there (certificates made, loaded or saved, writes under
    way), that a process that is down has nothing under way, and that between the two
    removals there is no cache file. A clean needs a process that is down, and the runs after
    it have larger numbers. The order of the removals matters: with the ledger first, a clean
    cut short would leave the old cache to the new chain.
  - `PersistenceTypes`. The two leaves that are not routine: the next round is a number
    because the storage is finite (a finite set has a greatest round), and the cache stays
    within its capacity.
  - `CacheIsConfirmed`. The cache falls behind storage only when a collection drops an entry.
    `StaleInv` adds that what is being dropped is in the ledger, which follows because the
    collected rounds are committed and a block has all that its certificates declare.
  - `CommitFindsAll`. `RetrievableInv` says of every pending certificate in storage that each
    of its transmissions is in the ledger, in the map, or still to be written by its own
    insertion, and that aborted transmissions are in the ledger. The proof does not use the
    cache: without it every commit would find its transmissions too.
  - `BuiltAreAccepted`. The shape of both maps (heights, lengths, hashes of the chain), by
    arithmetic on the division by the interval; each check from the shape; the height that
    both have is h - h % interval, and both take its hash from one chain.
  - `AcceptedExactly`, from `LocatorsChecked`, which is about maps of any length. The checks
    compare neighbours; the reference form speaks of the set of all heights. Both say that
    entry i has a certain height (`RecentsAt`, `CheckpointsAt`): for the checks by the least
    entry that has another one (`Spaced`), for the set by the least entry of an increasing
    enumeration that leaves the multiples (`CheckpointsForm`). From there the two unwrapped
    lookups find their height, and no other height is common to both maps (`CommonOnly`).
  - `WrittenIsRead`. The words are found where the counts say (`WordsReadBack`), and reading
    entries into a map is a recursive function; entries of distinct heights are appended one
    by one (`ReadMapIs`). What comes out is what `new` makes of the two maps
    (`LocatorsReadBack`), and `LocatorsChecked` says when that is nothing.
  - `PendingComesBack` and `StoredIsHeld`. Both need to know what bootup will load, in any
    later run, so `SoundInv` follows the rounds while nothing was cut short and no commit
    lacked a block: anchors are even and at least two rounds apart (`AnchorsInv`); ledger, file
    and storage together have one certificate of a round, each built on the one before, and
    nothing up to the last anchor that is not in a block (`RoundsInv`). The blocks that bootup
    reads therefore reach down to the collected rounds, and storage finds the predecessor of
    each certificate it is given (`LoadedInv`). A batch on its way to storage is above all
    others (`SpawnedInv`), a shutdown has every pending certificate, in memory or in the file
    (`SavedInv`), and a certificate without a block holds its transmissions, because
    collections remove only certificates of blocks (`HeldInv`). `FileInv` holds whatever was
    cut short: but for that, the file is torn only while a save is under way.

Looking for the inductive invariants of `Persistence` showed that three of its properties
were true at the bounds of the run only. `Retrievable` needs `~forgot`: a certificate
collected without a block takes along the transmissions it shares with one that is being
inserted (TLC shows it with a GC depth of one). `RefusedIsHeld` and `PendingSurvives` need that no
commit was made without a block (`unbacked`): such a commit leaves a gap in the ledger, and at
the bootup after next the certificates above the gap are refused for want of a
predecessor (TLC shows it with three runs and a GC depth of four). They are now stated so.

Every safety property that a passing run checks is stated by a theorem. Only model-checked: the
liveness properties `ChainGrows`, `CompleteRoundContinues`, `PendingResolves` and
`EventuallyConfirmed` (TLAPS handles neither fairness nor ENABLED here), and the properties of
the ledger (`AnchorsIncrease`, `NoDoubleCommit`, `LedgerClosed`, `NoEquivocation`,
`DagCommittedInLedger`, `NoAnchorSkipped`, `NothingLeftBehind`) over
more than one run. `node_restart` checks the first two and `NoEquivocation` across restarts, where
the ledger has no gap.
`DagCommittedInLedger` fails there (`node_unbacked`), and under the constants of that run TLC
also refutes `LedgerClosed`, `NoAnchorSkipped` and `NothingLeftBehind`, so that over several runs
they are no theorems: a commit that bootup makes without a block leaves a gap.

## 5. Plan

Done, in this order: ready queue; committee, storage, DAG, BFT, primary, process; node API;
mempool; storage service, block locators, persistence; then the proofs, component by component.

Left: a proof that the guarded properties of the ledger hold over several runs; the hazards without a property (PROJECT.json
gives the reason for each).

## 6. Not modelled

Request routing of the REST server, parsing and printing of the command line, logging,
metrics, account keys, the genesis block and resources: no state the protocol depends on. The
in-memory storage service, which only tests use. Database errors: the code logs them and goes
on, which leaves what a write cut off by a crash leaves. The removal of a directory is one
step. The sync handler of the BFT is part of `LoadProposalCache` in `Persistence`; its order
with other handlers is in `Node`. snarkVM (ledger, committees, signatures) is a
dependency and is modelled by how this code uses it: the ledger is a sequence of blocks
that either takes a block or refuses it. Time appears only as the nondeterminism of the
two timers.

A limit of `OwedIsHeld`: `complete_batch_lite` returns by `?` when it cannot sign for another
validator (`primary.rs:699`) or the lookback committee does not have that validator (`:702`),
before the code that puts the batch back. Its transmissions are gone, and submitting them
again is answered with Ok and ignored while consensus remembers them. The signing accounts are
those of the development committee, so this needs a committee that has changed or a blocking
task that fails. The property counts this among the steps that drop.

Limits of the properties of `Persistence`, which its ghosts stand for; each can be seen by
dropping the ghost from the property or the action:

- A crash while the proposal cache is written leaves a torn file, with which the next start
  fails; `PendingSurvives` speaks of shutdowns that are let finish.
- After a crash, an insertion that outlives the shutdown, or a clean cut short, the database
  may hold a transmission for a certificate that is nowhere. `worker.rs:258` then refuses
  that transmission, also when it is submitted again (`RefusedIsHeld` without `~interrupted`).
- A body that `find_missing_transmissions` counted on may be collected before the insertion
  reaches it, so that it is not stored for the new certificate. If the collected certificate
  has a block, the commit still finds it (`Retrievable`), but the next load of the proposal
  cache skips the certificate; if it has none, the commit fails. This needs a block to be
  refused for as many rounds as storage keeps.
- A certificate that bootup commits without a block (`node_unbacked`) is collected like any
  other, and the cache may then answer for its transmissions (`StaleIsConfirmed` without
  `~forgot`). The documentation of `get_transmission` says "If the transmission ID does not exist in
  storage, `None` is returned"; the cache is asked first and is not told of removals, so
  it answers for collected transmissions too.
- Such a commit also leaves a gap in the ledger. At a later bootup the certificates of blocks
  above the gap, and the pending ones above those, lack a predecessor and are skipped
  (`PendingSurvives` and `RefusedIsHeld` without `~unbacked`).
- At the last height of a u32 the check of the locators refuses any of them: the saturating
  addition gives the height itself. The documentation of the structure counts checkpoints up to
  the number of blocks N, the code up to height N - 1, which is what the reference has.
