--------------------------------- MODULE Dag ---------------------------------
(***************************************************************************)
(* The DAG of the BFT, node/bft/src/helpers/dag.rs, with the two           *)
(* traversals of node/bft/src/bft.rs that decide what a leader commits:    *)
(* is_linked and order_dag_with_dfs.                                       *)
(***************************************************************************)
EXTENDS Storage

VARIABLES graph,                  \* the certificates not yet committed
          recent_committed_ids,   \* the IDs committed since the GC round
          last_committed_round

dagVars == <<graph, recent_committed_ids, last_committed_round>>

\* The certificate of the leader, validator 0, in a round of the DAG: {} or a singleton.
LeaderIn(round) == {c \in graph : c.round = round /\ c.author = Self}

\* DAG::insert: a certificate of the same author and round is replaced.
DagInserted(c) ==
    IF ID(c) \in recent_committed_ids
    THEN graph
    ELSE {g \in graph : ~(g.round = c.round /\ g.author = c.author)} \cup {c}

\* DAG::commit, applied to every certificate of a set C whose highest round is top.
DagCommit(C, top) ==
    /\ last_committed_round' = MaxOf(last_committed_round, top)
    /\ recent_committed_ids' =
          {id \in recent_committed_ids \cup IDs(C) :
              id.round + MaxGcRounds > last_committed_round'}
    /\ graph' = {g \in graph :
                    /\ g.round + MaxGcRounds > last_committed_round'
                    /\ ~\E c \in C : c.author = g.author /\ g.round <= c.round}

\* DAG::default, at the start of a process.
DagInit ==
    /\ graph = {}
    /\ recent_committed_ids = {}
    /\ last_committed_round = 0

-----------------------------------------------------------------------------
(* is_linked: walk down the DAG, one round at a time, from `current` to the *)
(* round of `previous`.                                                     *)

IsLinked(previous, current) ==
    LET traversal[r \in previous.round..current.round] ==
            IF r = current.round
            THEN {current}
            ELSE UNION {{g \in graph : g.round = r /\ ID(g) \in c.previous} :
                            c \in traversal[r + 1]}
    IN  previous \in traversal[previous.round]

\* The `bail!` of is_linked: a round between the two has no certificate at all.
LinkBroken(previous, current) ==
    \E r \in previous.round..(current.round - 1) : \A g \in graph : g.round # r

\* The leader certificates on the way from `leader` down to the last committed round:
\* head[r] is the certificate that the walk of commit_leader_certificate has reached
\* when it is done with round r.
LeaderWalk(leader) ==
    LET low == last_committed_round + 1
        head[r \in low..MaxOf(low, leader.round)] ==
            IF r >= leader.round
            THEN leader
            ELSE LET up == head[r + 1]
                     linked == {c \in LeaderIn(r) : /\ r >= low + 1
                                                    /\ r % 2 = leader.round % 2
                                                    /\ IsLinked(c, up)}
                 IN  IF linked = {} THEN up ELSE CHOOSE c \in linked : TRUE
    IN  head

\* The candidates of that walk, apart from the leader it starts from.
PreviousLeaders(leader) ==
    {c \in graph : /\ c.author = Self
                   /\ c.round > last_committed_round + 1
                   /\ c.round < leader.round
                   /\ c.round % 2 = leader.round % 2}

\* Mutant: only the latest leader is committed.
LatestLeaderOnly(leader) == {leader}

\* The leader certificates to commit.
LeaderChain(leader) ==
    {leader} \cup {c \in PreviousLeaders(leader) : c = LeaderWalk(leader)[c.round]}

\* is_linked fails on the way.
WalkBroken(leader) ==
    \E c \in PreviousLeaders(leader) : LinkBroken(c, LeaderWalk(leader)[c.round + 1])

-----------------------------------------------------------------------------
(* order_dag_with_dfs.  Every edge goes down one round, so the search is    *)
(* done a round at a time; inLedger is the set of certificate IDs that the  *)
(* ledger contains.  The order inside a round is not modelled.              *)

\* Mutant: the search stops at the last committed round.
FollowedAboveCommit(c, inLedger) ==
    IF c.round - 1 <= last_committed_round
    THEN {}
    ELSE {id \in c.previous : id \notin recent_committed_ids /\ id \notin inLedger}

\* The IDs below certificate c that the search follows.
Followed(c, inLedger) ==
    IF c.round - 1 + MaxGcRounds <= last_committed_round
    THEN {}
    ELSE {id \in c.previous : id \notin recent_committed_ids /\ id \notin inLedger}

\* The certificate behind an ID: from the DAG, otherwise from the storage.
Lookup(ids) == {c \in graph \cup certificates : ID(c) \in ids}

SearchFrom(leader, inLedger) ==
    LET level[r \in 0..leader.round] ==
            IF r = leader.round
            THEN {leader}
            ELSE UNION {Lookup(Followed(c, inLedger)) : c \in level[r + 1]}
    IN  level

\* The certificates a leader commits.
CommitSubdag(leader, inLedger) ==
    LET level == SearchFrom(leader, inLedger)
    IN  {c \in graph \cup certificates \cup {leader} :
            /\ c.round \in 0..leader.round
            /\ c \in level[c.round]
            /\ c.round + MaxGcRounds > last_committed_round}

\* The `bail!` of order_dag_with_dfs: a certificate is in neither place.
MissingPrevious(leader, inLedger) ==
    LET level == SearchFrom(leader, inLedger)
    IN  \E r \in 1..leader.round : \E c \in level[r] :
            ~(Followed(c, inLedger) \subseteq IDs(graph \cup certificates))
=============================================================================
