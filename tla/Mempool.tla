------------------------------ MODULE Mempool ------------------------------
(***************************************************************************)
(* The way of a transmission from a client to a block: the inbound queues  *)
(* of consensus (node/consensus/src/lib.rs), the two handlers of the       *)
(* primary and the worker behind them (primary.rs, worker.rs), the drain   *)
(* of the ready queue into a batch (propose_batch_lite), the certificates  *)
(* that hold the batches, and the blocks.                                  *)
(*                                                                         *)
(* Left to the module Node: rounds, quorums and restarts.  Here a proposer *)
(* stores one batch after the other, and a block takes the oldest stored   *)
(* batches.  Left to the module Ready: the index of the ready queue, which *)
(* is here the sequence of its IDs.  An ID stands for its transmission, and *)
(* the checksum in it for the one body that the ID has.  Batches and blocks *)
(* without transmissions change nothing here and are not recorded.         *)
(***************************************************************************)
EXTENDS Naturals, SequencesExt

CONSTANTS Solution, Deployment, Execution,  \* the IDs, by what they name
          Doubtful,        \* the IDs whose check by the ledger may fail
          Client,          \* tasks that submit: the requests of the REST server
          NoTask,          \* a handler that is waiting for a message
          QueueCapacity,   \* CAPACITY_FOR_{SOLUTIONS, DEPLOYMENTS, EXECUTIONS}
          SeenCapacity,    \* the capacity of seen_solutions and seen_transactions
          MaxSolutions,    \* N::MAX_SOLUTIONS
          Tolerance,       \* MAX_TRANSMISSIONS_TOLERANCE
          BatchLimit,      \* MAX_TRANSMISSIONS_PER_BATCH, and per worker
          SpendLimit,      \* BATCH_SPEND_LIMIT, in transactions of equal cost
          MaxFaults,       \* bound on batches not stored and blocks refused
          MaxEpochs        \* bound on blocks that start an epoch

ID == Solution \cup Deployment \cup Execution

ASSUME MempoolAssumption ==
    /\ Solution \cap Deployment = {} /\ Solution \cap Execution = {}
    /\ Deployment \cap Execution = {}
    /\ Doubtful \subseteq ID
    /\ Client \cap {"interval", "consensus", NoTask} = {}
    /\ NoTask \notin {"interval", "consensus"}
    /\ {QueueCapacity, SeenCapacity, MaxSolutions, Tolerance, BatchLimit, SpendLimit}
          \subseteq Nat \ {0}
    /\ {MaxFaults, MaxEpochs} \subseteq Nat

VARIABLES
    seen,           \* seen_solutions and seen_transactions, least recent first
    queue,          \* solutions_queue, deployments, executions, least recent first
    pc,             \* where each task of consensus is
    todo,           \* what each task has taken and not yet delivered
    checking,       \* per handler of the primary, the task whose message is checked
    ready,          \* the ready queue of the worker, front first
    stage,          \* where the proposer is
    popped,         \* the transmission it has popped and is checking
    batch,          \* the transmissions it has selected
    proposal_cost,  \* and their cost
    uncommitted,    \* the stored batches that are in no block, oldest first
    committed,      \* the stored batches that are in a block
    ledger,         \* the transmissions of each block
    owed,           \* (ghost) queued, and not dropped by one of the steps that drop
    faults, epochs

consensusVars == <<seen, queue, pc, todo>>
proposerVars == <<stage, popped, batch, proposal_cost>>
storageVars == <<uncommitted, committed, ledger>>
bounds == <<faults, epochs>>
vars == <<consensusVars, checking, ready, proposerVars, storageVars, owed, bounds>>

Class == {"solution", "transaction"}
Task == Client \cup {"interval", "consensus"}

ClassOf(t) == IF t \in Solution THEN "solution" ELSE "transaction"
QueueOf(t) ==
    IF t \in Solution THEN "solutions_queue"
    ELSE IF t \in Deployment THEN "deployments" ELSE "executions"

-----------------------------------------------------------------------------
(* LruCache.                                                               *)

\* The positions of q whose element is not in S.
Kept(q, S) == {i \in DOMAIN q : q[i] \notin S}

\* The elements of q that are not in S, in their order.  (SelectSeq is recursive, and out
\* of reach of the proofs.)
Without(q, S) ==
    [n \in 1..Cardinality(Kept(q, S)) |->
        q[CHOOSE i \in Kept(q, S) : Cardinality(Kept(q, S) \cap 1..i) = n]]

\* Mutant: the cache grows without bound.
PutUnbounded(q, t, capacity) == Append(Without(q, {t}), t)

\* put: the key becomes the most recent; a new key evicts the oldest at capacity.
Put(q, t, capacity) ==
    IF t \notin ToSet(q) /\ Len(q) = capacity THEN Append(Tail(q), t)
    ELSE Append(Without(q, {t}), t)

Evicted(q, t, capacity) ==
    IF t \notin ToSet(q) /\ Len(q) = capacity THEN {Head(q)} ELSE {}

-----------------------------------------------------------------------------
(* What the worker, the storage and the ledger know.                       *)

Ledger == UNION ToSet(ledger)
Stored == UNION (ToSet(uncommitted) \cup ToSet(committed))

\* Mutant: the storage is not asked.
ContainsUnstored(t) == t \in ToSet(ready) \/ t \in Ledger

\* Worker::contains_transmission; `proposed_batch` is never set.
ContainsTransmission(t) == t \in ToSet(ready) \/ t \in Stored \/ t \in Ledger

\* Ready::insert and Ready::insert_front.
Insert(t) == IF t \in ToSet(ready) THEN ready ELSE Append(ready, t)
InsertFront(t) == IF t \in ToSet(ready) THEN ready ELSE <<t>> \o ready

\* check_solution_basic and check_transaction_basic: only the latter finds out that
\* the transmission is in the ledger.
MayPass(t) == t \in Solution \/ t \notin Ledger
MayFail(t) == t \in Doubtful \/ ~MayPass(t)

-----------------------------------------------------------------------------
(* The tasks of consensus.  pc is "idle", "enqueue", the class about to be   *)
(* processed, or "sending"; the loop of start_handlers is never idle.        *)

\* Mutant: the loop forgets the transactions.
DoneForgetting(task, class) ==
    IF task = "interval" THEN "solution" ELSE "idle"

\* Where a task goes after process_unconfirmed_<class>s or reinsert_transmissions.
Done(task, class) ==
    IF task # "interval" THEN "idle"
    ELSE IF class = "transaction" THEN "solution" ELSE "transaction"

\* add_unconfirmed_*: a recently seen transmission is Ok and goes no further.  (A fee
\* transaction is refused before that.)
Submit(c, t) ==
    LET recent == seen[ClassOf(t)] IN
    /\ pc[c] = "idle"
    /\ seen' = [seen EXCEPT ![ClassOf(t)] = Put(recent, t, SeenCapacity)]
    /\ IF t \in ToSet(recent)
       THEN UNCHANGED <<pc, todo>>
       ELSE /\ pc' = [pc EXCEPT ![c] = "enqueue"]
            /\ todo' = [todo EXCEPT ![c] = <<t>>]
    /\ UNCHANGED <<queue, checking, ready, proposerVars, storageVars, owed, bounds>>

\* The rest of add_unconfirmed_*, up to process_unconfirmed_*.  Nothing happens to a
\* transmission that is in the ledger; one that is queued is queued anew, with an error.
Enqueue(c) ==
    /\ pc[c] = "enqueue"
    /\ LET t == Head(todo[c])
           q == queue[QueueOf(t)]
       IN  IF t \in Ledger
           THEN /\ pc' = [pc EXCEPT ![c] = "idle"]
                /\ UNCHANGED <<queue, owed>>
           ELSE /\ queue' = [queue EXCEPT ![QueueOf(t)] = Put(q, t, QueueCapacity)]
                /\ owed' = (owed \cup {t}) \ Evicted(q, t, QueueCapacity)
                /\ pc' = [pc EXCEPT ![c] = IF t \in ToSet(q) THEN "idle" ELSE ClassOf(t)]
    /\ todo' = [todo EXCEPT ![c] = << >>]
    /\ UNCHANGED <<seen, checking, ready, proposerVars, storageVars, bounds>>

Lower(a, b) == IF a <= b THEN a ELSE b
First(q, n) == SubSeq(q, 1, n)
Rest(q, n) == SubSeq(q, n + 1, Len(q))

NumSolutions == Cardinality(ToSet(ready) \cap Solution)

\* The memory pool of the primary has no room.
Full(class) ==
    \/ Len(ready) >= Tolerance
    \/ class = "solution" /\ NumSolutions >= MaxSolutions

\* process_unconfirmed_solutions and process_unconfirmed_transactions, up to the first
\* message: the room is measured in the ready queue alone.  At most one deployment
\* (MAX_DEPLOYMENTS_PER_INTERVAL) is taken, ahead of the executions.
Process(task) ==
    LET class == pc[task]
        n == Lower(Len(queue["solutions_queue"]), MaxSolutions - NumSolutions)
        d == Lower(Len(queue["deployments"]), 1)
        e == Lower(Len(queue["executions"]), Tolerance - Len(ready) - d)
        taken == IF Full(class) THEN << >>
                 ELSE IF class = "solution" THEN First(queue["solutions_queue"], n)
                 ELSE First(queue["deployments"], d) \o First(queue["executions"], e)
    IN  /\ class \in Class
        /\ todo' = [todo EXCEPT ![task] = taken]
        /\ queue' = [k \in DOMAIN queue |-> Without(queue[k], ToSet(taken))]
        /\ pc' = [pc EXCEPT ![task] = IF taken = << >> THEN Done(task, class) ELSE "sending"]
        /\ UNCHANGED <<seen, checking, ready, proposerVars, storageVars, owed, bounds>>

-----------------------------------------------------------------------------
(* The two handlers of the primary, each with one message at a time.         *)

\* The callback, whose error is only logged; the task sends the next one.
Reply(task) ==
    LET rest == Tail(todo[task]) IN
    /\ todo' = [todo EXCEPT ![task] = rest]
    /\ pc' = [pc EXCEPT ![task] =
                 IF rest = << >> THEN Done(task, ClassOf(Head(todo[task]))) ELSE "sending"]

\* Worker::process_unconfirmed_*, up to the check by the ledger.
Receive(class) ==
    /\ checking[class] = NoTask
    /\ \E task \in Task :
         /\ pc[task] = "sending"
         /\ ClassOf(Head(todo[task])) = class
         /\ IF ContainsTransmission(Head(todo[task]))
            THEN Reply(task) /\ UNCHANGED checking
            ELSE checking' = [checking EXCEPT ![class] = task] /\ UNCHANGED <<pc, todo>>
    /\ UNCHANGED <<seen, queue, ready, proposerVars, storageVars, owed, bounds>>

\* The check passes and the transmission is ready.
Checked(class) ==
    /\ checking[class] # NoTask
    /\ LET t == Head(todo[checking[class]]) IN
         /\ MayPass(t)
         /\ ready' = Insert(t)
    /\ Reply(checking[class])
    /\ checking' = [checking EXCEPT ![class] = NoTask]
    /\ UNCHANGED <<seen, queue, proposerVars, storageVars, owed, bounds>>

\* The check fails and the transmission is dropped.
CheckFails(class) ==
    /\ checking[class] # NoTask
    /\ LET t == Head(todo[checking[class]]) IN
         /\ MayFail(t)
         /\ owed' = owed \ {t}
    /\ Reply(checking[class])
    /\ checking' = [checking EXCEPT ![class] = NoTask]
    /\ UNCHANGED <<seen, queue, ready, proposerVars, storageVars, bounds>>

-----------------------------------------------------------------------------
(* The proposer, under the propose lock from StartBatch to the stored batch. *)

Fault == faults < MaxFaults /\ faults' = faults + 1 /\ UNCHANGED epochs

\* The next proposal.  Whether there is one after a failure is a question of rounds, and
\* of Node; if there is, it drains what was put back.
StartBatch ==
    /\ stage \in {"idle", "failed"}
    /\ ready # << >>
    /\ stage' = "drain"
    /\ UNCHANGED <<consensusVars, checking, ready, popped, batch, proposal_cost, storageVars,
                   owed, bounds>>

\* The top of the loop: a transmission is popped before the limit is looked at, and
\* the one that is beyond it is gone.  The storage is not asked for the first one.
RemoveFront ==
    /\ stage = "drain"
    /\ ready # << >>
    /\ ready' = Tail(ready)
    /\ LET t == Head(ready) IN
       IF Len(batch) >= BatchLimit THEN stage' = "store" /\ UNCHANGED popped
       ELSE IF t \in Ledger \/ (batch # << >> /\ t \in Stored) THEN UNCHANGED <<stage, popped>>
       ELSE stage' = "check" /\ popped' = <<t>>
    /\ UNCHANGED <<consensusVars, checking, batch, proposal_cost, storageVars, owed, bounds>>

\* The transmission is still valid; a transaction must be within the spend limit, or it
\* goes back to the front and the batch is complete.
Select ==
    /\ stage = "check"
    /\ MayPass(Head(popped))
    /\ LET t == Head(popped)
           cost == IF t \in Solution THEN proposal_cost ELSE proposal_cost + 1
       IN  IF cost > SpendLimit
           THEN /\ ready' = InsertFront(t)
                /\ stage' = "store"
                /\ UNCHANGED <<batch, proposal_cost>>
           ELSE /\ batch' = IF t \in ToSet(batch) THEN batch ELSE Append(batch, t)
                /\ proposal_cost' = cost
                /\ stage' = "drain"
                /\ UNCHANGED ready
    /\ popped' = << >>
    /\ UNCHANGED <<consensusVars, checking, storageVars, owed, bounds>>

\* The transmission is not valid any more, or its cost is unknown.
Skip ==
    /\ stage = "check"
    /\ MayFail(Head(popped))
    /\ owed' = owed \ {Head(popped)}
    /\ stage' = "drain"
    /\ popped' = << >>
    /\ UNCHANGED <<consensusVars, checking, ready, batch, proposal_cost, storageVars, bounds>>

NothingReady ==
    /\ stage = "drain"
    /\ ready = << >>
    /\ stage' = "store"
    /\ UNCHANGED <<consensusVars, checking, ready, popped, batch, proposal_cost, storageVars,
                   owed, bounds>>

\* The locals of the proposer are gone.
EndBatch ==
    /\ batch' = << >>
    /\ proposal_cost' = 0
    /\ UNCHANGED popped

\* complete_batch_lite: the batch is certified and stored.
Store ==
    /\ stage = "store"
    /\ uncommitted' = IF batch = << >> THEN uncommitted ELSE Append(uncommitted, ToSet(batch))
    /\ stage' = "idle"
    /\ EndBatch
    /\ UNCHANGED <<consensusVars, checking, ready, committed, ledger, owed, bounds>>

\* Mutant: a batch that is not stored is forgotten.
StoreFailsAndForgets ==
    /\ stage = "store"
    /\ Fault
    /\ stage' = "failed"
    /\ EndBatch
    /\ UNCHANGED <<consensusVars, checking, ready, storageVars, owed>>

\* The header or the proposal cannot be made, or the certificate is not stored, and
\* reinsert_transmissions_into_workers puts the batch back.  (After an error behind the
\* insertion nothing is put back, as the storage has it: Store.)
StoreFails ==
    /\ stage = "store"
    /\ Fault
    /\ ready' = ready \o Without(batch, {t \in ID : ContainsTransmission(t)})
    /\ stage' = "failed"
    /\ EndBatch
    /\ UNCHANGED <<consensusVars, checking, storageVars, owed>>

\* complete_batch_lite cannot sign for one of the other validators, or the lookback
\* committee does not have it: it returns before it stores, nothing puts the batch back,
\* and its transmissions are lost.
SigningFails ==
    /\ stage = "store"
    /\ Fault
    /\ owed' = owed \ ToSet(batch)
    /\ stage' = "failed"
    /\ EndBatch
    /\ UNCHANGED <<consensusVars, checking, ready, storageVars>>

-----------------------------------------------------------------------------
(* Commits.  The BFT awaits the consensus task, so there is one at a time.   *)

\* Mutant: the ledger is not asked.
BlockOfAll(n) == UNION ToSet(First(uncommitted, n))

\* The transmissions that commit_leader_certificate collects for a block.
BlockOf(n) == (UNION ToSet(First(uncommitted, n))) \ Ledger

\* The oldest n batches are in the next block, which may start an epoch.
Advance(n, epoch) ==
    /\ pc["consensus"] = "idle"
    /\ ledger' = IF BlockOf(n) = {} THEN ledger ELSE Append(ledger, BlockOf(n))
    /\ uncommitted' = Rest(uncommitted, n)
    /\ committed' = committed \o First(uncommitted, n)
    /\ IF epoch
       THEN /\ epochs < MaxEpochs
            /\ epochs' = epochs + 1
            /\ pc' = [pc EXCEPT !["consensus"] = "clear_queue"]
       ELSE UNCHANGED <<epochs, pc>>
    /\ UNCHANGED <<seen, queue, todo, checking, ready, proposerVars, owed, faults>>

\* The block is refused: reinsert_transmissions sends its transmissions to the primary.
\* The batches stay, and the next leader commits them.
Refuse(n) ==
    /\ pc["consensus"] = "idle"
    /\ BlockOf(n) # {}
    /\ Fault
    /\ todo' = [todo EXCEPT !["consensus"] = SetToSeq(BlockOf(n))]
    /\ pc' = [pc EXCEPT !["consensus"] = "sending"]
    /\ UNCHANGED <<seen, queue, checking, ready, proposerVars, storageVars, owed>>

\* The end of try_advance_to_next_block at the start of an epoch: first the queue ...
ClearQueue ==
    /\ pc["consensus"] = "clear_queue"
    /\ queue' = [queue EXCEPT !["solutions_queue"] = << >>]
    /\ owed' = owed \ ToSet(queue["solutions_queue"])
    /\ pc' = [pc EXCEPT !["consensus"] = "clear_worker"]
    /\ UNCHANGED <<seen, todo, checking, ready, proposerVars, storageVars, bounds>>

\* ... then the worker.
ClearWorker ==
    /\ pc["consensus"] = "clear_worker"
    /\ ready' = Without(ready, Solution)
    /\ owed' = owed \ (Solution \cap ToSet(ready))
    /\ pc' = [pc EXCEPT !["consensus"] = "idle"]
    /\ UNCHANGED <<seen, queue, todo, checking, proposerVars, storageVars, bounds>>

\* garbage_collect_certificates, one batch at a time.
CollectGarbage ==
    /\ committed # << >>
    /\ committed' = Tail(committed)
    /\ UNCHANGED <<consensusVars, checking, ready, proposerVars, uncommitted, ledger, owed,
                   bounds>>

-----------------------------------------------------------------------------
Init ==
    /\ seen = [c \in Class |-> << >>]
    /\ queue = [k \in {"solutions_queue", "deployments", "executions"} |-> << >>]
    /\ pc = [task \in Task |-> IF task = "interval" THEN "transaction" ELSE "idle"]
    /\ todo = [task \in Task |-> << >>]
    /\ checking = [c \in Class |-> NoTask]
    /\ ready = << >>
    /\ stage = "idle" /\ popped = << >> /\ batch = << >> /\ proposal_cost = 0
    /\ uncommitted = << >> /\ committed = << >> /\ ledger = << >>
    /\ owed = {}
    /\ faults = 0 /\ epochs = 0

Handler(class) == Receive(class) \/ Checked(class) \/ CheckFails(class)

Proposer == StartBatch \/ RemoveFront \/ Select \/ Skip \/ NothingReady \/ Store

\* The next block, of at least one batch.
NextBlock == \E n \in 1..Len(uncommitted) : Advance(n, FALSE)

Next ==
    \/ \E c \in Client : Enqueue(c) \/ \E t \in ID : Submit(c, t)
    \/ \E task \in Task : Process(task)
    \/ \E class \in Class : Handler(class)
    \/ Proposer
    \/ StoreFails
    \/ SigningFails
    \/ NextBlock
    \/ \E n \in 0..Len(uncommitted) : Advance(n, TRUE) \/ Refuse(n)
    \/ ClearQueue
    \/ ClearWorker
    \/ CollectGarbage

Spec == Init /\ [][Next]_vars

\* Every task and handler goes on, the proposer proposes until it fails, and a stored batch is
\* followed by a block (the properties ChainGrows and NothingLeftBehind of Node).
FairSpec ==
    /\ Spec
    /\ \A c \in Client : WF_vars(Enqueue(c))
    /\ \A task \in Task : WF_vars(Process(task))
    /\ \A class \in Class : WF_vars(Handler(class))
    /\ WF_vars(stage # "failed" /\ Proposer)
    /\ WF_vars(NextBlock)
    /\ WF_vars(ClearQueue \/ ClearWorker)

-----------------------------------------------------------------------------
(* Properties.                                                               *)

\* The types, and the capacities of the caches of consensus.
TypeOK ==
    /\ seen \in [Class -> Seq(ID)]
    /\ \A c \in Class : Len(seen[c]) <= SeenCapacity
    /\ queue \in [{"solutions_queue", "deployments", "executions"} -> Seq(ID)]
    /\ \A k \in DOMAIN queue : Len(queue[k]) <= QueueCapacity
    /\ pc \in [Task -> {"idle", "enqueue", "sending", "clear_queue", "clear_worker"} \cup Class]
    /\ todo \in [Task -> Seq(ID)]
    /\ checking \in [Class -> Task \cup {NoTask}]
    /\ ready \in Seq(ID) /\ popped \in Seq(ID) /\ batch \in Seq(ID)
    /\ Len(batch) <= BatchLimit
    /\ stage \in {"idle", "drain", "check", "store", "failed"}
    /\ proposal_cost \in 0..SpendLimit
    /\ {uncommitted, committed, ledger} \subseteq Seq(SUBSET ID)
    /\ owed \subseteq ID
    /\ faults \in 0..MaxFaults /\ epochs \in 0..MaxEpochs

Queued == UNION {ToSet(queue[k]) : k \in DOMAIN queue}
Sending == UNION {ToSet(todo[task]) : task \in Task \ {"consensus"}}
Proposing == ToSet(popped) \cup ToSet(batch)

\* A transmission that consensus has queued is somewhere on its way to the ledger, or
\* there, until one of the steps that drop has dropped it: the eviction from a queue at its
\* capacity, the start of an epoch, a check that fails, and the loss of a batch that cannot
\* be signed (primary.rs:699 and :702; SigningFails).  All other hand-overs between queue,
\* worker, batch and storage lose nothing, also when a batch is not stored or a block is
\* refused.
OwedIsHeld == owed \subseteq Queued \cup Sending \cup ToSet(ready) \cup Proposing \cup Stored \cup Ledger

\* While consensus remembers what it has seen, a transmission is at one place only, also
\* when a batch or a block fails and its transmissions are sent back: the queue of
\* consensus, a task, the ready queue, the batch, or stored and confirmed.
OnePlace ==
    LET places == <<Queued, Sending, ToSet(ready), Proposing, Stored \cup Ledger>> IN
    \A i, j \in DOMAIN places : i # j => places[i] \cap places[j] = {}

\* No transmission is in two blocks, even if consensus forgets that it has seen it and
\* it is submitted again while a copy of it is on its way.
LedgerOnce == \A i, j \in DOMAIN ledger : i # j => ledger[i] \cap ledger[j] = {}

\* A queued transmission is confirmed, also after a refused block, unless one of the steps
\* that drop has dropped it or the proposer stops at a failed batch (run node_stall).
EventuallyConfirmed ==
    \A t \in ID : t \in owed ~> t \in Ledger \/ t \notin owed \/ stage = "failed"
=============================================================================
