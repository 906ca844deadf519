----------------------------- MODULE RoundProofs -----------------------------
(***************************************************************************)
(* The primary is never behind the ledger, for any number of runs.  That   *)
(* is not inductive: a block is anchored at a leader that the BFT found    *)
(* through a certificate that a task sent and still awaits, so the         *)
(* invariant follows a request through its channel (RequestInv), tells the *)
(* phases of a run apart (PhaseInv) and bounds the rounds on the way       *)
(* (AheadInv).                                                             *)
(***************************************************************************)
EXTENDS BatchProofs

\* The labels at which a task awaits update_dag, and update_to_next_round.
Dagging == {"dag", "fake_dag", "load_dag"}

Asking == {"ask_increment", "ask_skip", "ask_lite"}

\* A task at label p with an unread answer, a sent round, sent certificates, and a
\* certificate held by the handler or not: one request at a time, and it is awaited.
Protocol(p, answer, round, sent, held) ==
    /\ sent # {} \/ held => p \in Dagging /\ answer = "none"
    /\ ~(sent # {} /\ held)
    /\ round # 0 => p \in Asking /\ answer = "none"
    /\ answer # "none" => p \in Dagging \cup Asking

RequestInv ==
    /\ \A t \in Task : Protocol(pc[t], callback[t], tx_primary_round[t],
                                tx_primary_certificate[t], t \in handler.from)
    /\ handler = Idle \/ (handler.pc # "idle" /\ handler.from # {})

PhaseInv ==
    /\ status \in {"down", "syncing"} => \A t \in Task : pc[t] = "off"
    /\ status # "running" =>
          /\ ~consensus_sender
          /\ \A t \in Task \ {"boot"} : pc[t] = "off" /\ batch[t] = {}
    /\ status = "running" => pc["boot"] = "done"

AheadInv ==
    status = "running" =>
        /\ \A t \in Task : \A c \in batch[t] \cup tx_primary_certificate[t] :
              c.round <= current_round
        /\ handler.round <= current_round
        /\ \A c \in handler.chain : c.round <= current_round

RoundInv == TypeOK /\ RequestInv /\ PhaseInv /\ AheadInv /\ RoundNotBehind

-----------------------------------------------------------------------------
(* The requests.                                                            *)

\* A step of one task that keeps the protocol for that task keeps it for all.
LEMMA ProtocolStep ==
    ASSUME TypeOK, RequestInv, NEW t \in Task, NEW p \in Label, Goto(t, p),
           UNCHANGED handler,
           UNCHANGED callback \/ Received(t),
           UNCHANGED tx_primary_round
             \/ \E r \in Nat : tx_primary_round' = [tx_primary_round EXCEPT ![t] = r],
           UNCHANGED tx_primary_certificate \/ \E c \in Certificate : Send(t, c),
           Protocol(p, callback'[t], tx_primary_round'[t], tx_primary_certificate'[t],
                    t \in handler.from)
    PROVE  RequestInv'
<1>1. /\ pc \in [Task -> Label]
      /\ callback \in [Task -> {"none", "ready", "not_ready", "ok", "err"}]
      /\ tx_primary_round \in [Task -> Nat]
      /\ tx_primary_certificate \in [Task -> SUBSET Certificate]
  BY DEF TypeOK
<1>2. pc'[t] = p
  BY <1>1 DEF Goto
<1>3. ASSUME NEW u \in Task, u # t
      PROVE  /\ pc'[u] = pc[u] /\ callback'[u] = callback[u]
             /\ tx_primary_round'[u] = tx_primary_round[u]
             /\ tx_primary_certificate'[u] = tx_primary_certificate[u]
  BY <1>1, <1>3 DEF Goto, Received, Send
<1> QED BY <1>2, <1>3 DEF RequestInv

\* The handler of the rounds answers the round it was sent.
LEMMA RequestRound ==
    ASSUME TypeOK, RequestInv, NEW t \in Task, RoundHandler(t)
    PROVE  RequestInv'
<1>1. /\ tx_primary_round[t] # 0
      /\ \/ callback' = [callback EXCEPT ![t] = "ready"]
         \/ callback' = [callback EXCEPT ![t] = "not_ready"]
      /\ tx_primary_round' = [tx_primary_round EXCEPT ![t] = 0]
      /\ UNCHANGED <<handler, tx_primary_certificate, pc>>
  BY DEF RoundHandler, UpdateToNextRound, primaryVars, taskVars
<1>2. /\ callback \in [Task -> {"none", "ready", "not_ready", "ok", "err"}]
      /\ tx_primary_round \in [Task -> Nat]
  BY DEF TypeOK
<1>3. ASSUME NEW u \in Task
      PROVE  Protocol(pc'[u], callback'[u], tx_primary_round'[u],
                      tx_primary_certificate'[u], u \in handler'.from)
  <2>1. CASE u = t
    <3>1. Protocol(pc[t], callback[t], tx_primary_round[t], tx_primary_certificate[t],
                   t \in handler.from)
      BY DEF RequestInv
    <3>2. tx_primary_round'[t] = 0 /\ callback'[t] # "none"
      BY <1>1, <1>2
    <3> QED BY <1>1, <2>1, <3>1, <3>2 DEF Protocol, Dagging, Asking
  <2>2. CASE u # t
    <3>1. callback'[u] = callback[u] /\ tx_primary_round'[u] = tx_primary_round[u]
      BY <1>1, <1>2, <2>2
    <3> QED BY <1>1, <3>1 DEF RequestInv
  <2> QED BY <2>1, <2>2
<1> QED BY <1>1, <1>3 DEF RequestInv

\* The handler of the certificates takes a certificate from its channel.
LEMMA RequestCertificate ==
    ASSUME TypeOK, RequestInv, NEW t \in Task, CertificateHandler(t)
    PROVE  RequestInv'
<1>1. /\ handler.pc = "idle"
      /\ tx_primary_certificate[t] # {}
      /\ handler'.from = {t} /\ handler'.pc = "check"
      /\ tx_primary_certificate' = [tx_primary_certificate EXCEPT ![t] = {}]
      /\ UNCHANGED <<callback, tx_primary_round, pc>>
  BY DEF CertificateHandler, UpdateDag, primaryVars, taskVars, Idle
<1>2. tx_primary_certificate \in [Task -> SUBSET Certificate]
  BY DEF TypeOK
<1>3. ASSUME NEW u \in Task
      PROVE  Protocol(pc'[u], callback'[u], tx_primary_round'[u],
                      tx_primary_certificate'[u], u \in handler'.from)
  <2>0. Protocol(pc[u], callback[u], tx_primary_round[u], tx_primary_certificate[u],
                 u \in handler.from)
    BY DEF RequestInv
  <2>1. CASE u = t
    <3>1. tx_primary_certificate'[t] = {}
      BY <1>1, <1>2
    <3> QED BY <1>1, <2>0, <2>1, <3>1 DEF Protocol
  <2>2. CASE u # t
    <3>1. tx_primary_certificate'[u] = tx_primary_certificate[u] /\ u \notin handler'.from
      BY <1>1, <1>2, <2>2
    <3> QED BY <1>1, <2>0, <3>1 DEF Protocol
  <2> QED BY <2>1, <2>2
<1> QED BY <1>1, <1>3 DEF RequestInv

\* The handler of the certificates works on, or answers the certificate it holds.
LEMMA RequestCommit ==
    ASSUME TypeOK, RequestInv, CommitHandler
    PROVE  RequestInv'
<1>1. UNCHANGED <<tx_primary_round, tx_primary_certificate, pc>>
  BY DEF CommitHandler, CheckLeader, CommitLeader, CollectGarbage, AdvanceFails, CommitFails,
         primaryVars, taskVars
<1>2. CASE Answer("ok") \/ Answer("err")
  <2>1. PICK r \in {"ok", "err"} : Answer(r)
    BY <1>2
  <2>2. /\ handler' = Idle /\ handler'.from = {}
        /\ \A u \in Task : callback'[u] = IF u \in handler.from THEN r ELSE callback[u]
    BY <2>1 DEF Answer, Idle
  <2>3. ASSUME NEW u \in Task
        PROVE  Protocol(pc'[u], callback'[u], tx_primary_round'[u],
                        tx_primary_certificate'[u], u \in handler'.from)
    <3>0. Protocol(pc[u], callback[u], tx_primary_round[u], tx_primary_certificate[u],
                   u \in handler.from)
      BY DEF RequestInv
    <3>1. CASE u \in handler.from
      BY <1>1, <2>2, <3>0, <3>1 DEF Protocol, Dagging, Asking
    <3>2. CASE u \notin handler.from
      BY <1>1, <2>2, <3>0, <3>2 DEF Protocol
    <3> QED BY <3>1, <3>2
  <2> QED BY <2>2, <2>3 DEF RequestInv, Idle
<1>3. CASE /\ handler.pc # "idle" /\ handler'.pc # "idle"
           /\ handler'.from = handler.from /\ UNCHANGED callback
  BY <1>1, <1>3 DEF RequestInv, Idle
<1>4. \/ Answer("ok") \/ Answer("err")
      \/ /\ handler.pc # "idle" /\ handler'.pc # "idle"
         /\ handler'.from = handler.from /\ UNCHANGED callback
  <2>1. handler \in [pc : {"idle", "check", "commit"}, from : SUBSET Task, round : Nat,
                     chain : SUBSET Certificate]
    BY DEF TypeOK
  <2> HIDE DEF Answer
  <2> QED BY <2>1 DEF CommitHandler, CheckLeader, CommitLeader, CollectGarbage, AdvanceFails, CommitFails
<1> QED BY <1>2, <1>3, <1>4

\* The labels at which a task awaits nothing.
Free == Label \ (Dagging \cup Asking)

\* A task that awaits nothing has nothing in its channels.
LEMMA FreeProtocol ==
    ASSUME RequestInv, NEW t \in Task, pc[t] \in Free
    PROVE  /\ tx_primary_certificate[t] = {} /\ t \notin handler.from
           /\ tx_primary_round[t] = 0 /\ callback[t] = "none"
BY DEF RequestInv, Protocol, Free

\* A task with an unread answer has nothing else in its channels.
LEMMA AnsweredProtocol ==
    ASSUME RequestInv, NEW t \in Task, callback[t] # "none"
    PROVE  /\ tx_primary_certificate[t] = {} /\ t \notin handler.from
           /\ tx_primary_round[t] = 0
BY DEF RequestInv, Protocol

\* Where a call returns to, and the other labels.
LEMMA FreeLabels ==
    /\ \A t, ok : ReturnLabel(t, ok) \in Free
    /\ {"off", "done", "idle", "enter", "store", "fake", "fake_store", "load", "load_store"}
         \subseteq Free
    /\ Free \subseteq Label /\ Dagging \subseteq Label /\ Asking \subseteq Label
    /\ Free \cap Dagging = {} /\ Free \cap Asking = {}
BY DEF ReturnLabel, Free, Label, Dagging, Asking

\* A free task moves to a free label.
LEMMA RequestMove ==
    ASSUME TypeOK, RequestInv, NEW t \in Task, pc[t] \in Free, NEW p \in Free, Goto(t, p),
           UNCHANGED <<handler, callback, tx_primary_round, tx_primary_certificate>>
    PROVE  RequestInv'
BY FreeProtocol, FreeLabels, ProtocolStep DEF Protocol

\* A task reads its answer and moves to a free label.
LEMMA RequestRead ==
    ASSUME TypeOK, RequestInv, NEW t \in Task, callback[t] # "none", Received(t),
           NEW p \in Free, Goto(t, p),
           UNCHANGED <<handler, tx_primary_round, tx_primary_certificate>>
    PROVE  RequestInv'
<1>1. callback'[t] = "none"
  BY DEF Received, TypeOK
<1> QED BY <1>1, AnsweredProtocol, FreeLabels, ProtocolStep DEF Protocol

\* A task sends a round, reading its answer first or having none.
LEMMA RequestAsk ==
    ASSUME TypeOK, RequestInv, NEW t \in Task, NEW r \in Nat,
           tx_primary_round' = [tx_primary_round EXCEPT ![t] = r],
           NEW p \in Asking, Goto(t, p),
           \/ pc[t] \in Free /\ UNCHANGED callback
           \/ callback[t] # "none" /\ Received(t),
           UNCHANGED <<handler, tx_primary_certificate>>
    PROVE  RequestInv'
<1>1. callback'[t] = "none"
  BY FreeProtocol DEF Received, TypeOK
<1>2. tx_primary_certificate[t] = {} /\ t \notin handler.from
  BY FreeProtocol, AnsweredProtocol
<1> QED BY <1>1, <1>2, FreeLabels, ProtocolStep DEF Protocol

\* A task sends a certificate.
LEMMA RequestSend ==
    ASSUME TypeOK, RequestInv, NEW t \in Task, pc[t] \in Free, NEW c \in Certificate,
           Send(t, c), NEW p \in Dagging, Goto(t, p),
           UNCHANGED <<handler, callback, tx_primary_round>>
    PROVE  RequestInv'
<1>1. tx_primary_certificate'[t] = {c}
  BY DEF Send, TypeOK
<1> QED BY <1>1, FreeProtocol, FreeLabels, ProtocolStep DEF Protocol

\* try_increment_to_the_next_round sends a round or returns.
LEMMA RequestIncrement ==
    ASSUME TypeOK, RequestInv, NEW t \in Task, NEW r \in Nat, TryIncrement(t, r),
           pc[t] \in Free, UNCHANGED <<handler, callback, tx_primary_certificate>>
    PROVE  RequestInv'
<1>1. current_round' \in Nat
  BY RoundTypes DEF TryIncrement
<1>2. CASE current_round' < r
  BY <1>1, <1>2, RequestAsk, FreeLabels DEF TryIncrement, Asking
<1>3. CASE ~(current_round' < r)
  BY <1>3, RequestMove, FreeLabels DEF TryIncrement, Return
<1> QED BY <1>2, <1>3

\* The steps of a task.
LEMMA RequestTask ==
    ASSUME TypeOK, RequestInv, NEW t \in Task, TaskStep(t)
    PROVE  RequestInv'
<1> USE DEF channelVars, bftVars, Return
<1>1. CASE IncrementAnswered(t)
  BY <1>1, RequestRead, FreeLabels DEF IncrementAnswered
<1>2. CASE LiteSkips(t) \/ LiteTooSoon(t) \/ LiteProposes(t) \/ LiteFails(t)
  BY <1>2, RequestMove, FreeLabels DEF LiteSkips, LiteTooSoon, LiteProposes, LiteFails
<1>3. CASE LiteAsks(t)
  BY <1>3, RequestAsk, FreeLabels DEF LiteAsks, Asking, TypeOK
<1>4. CASE LiteAsked(t) \/ LiteDone(t)
  BY <1>4, RequestRead, FreeLabels DEF LiteAsked, LiteDone
<1>5. CASE LiteStores(t)
  <2>1. PICK c \in batch[t] :
          \/ Send(t, c) /\ Goto(t, "dag")
          \/ UNCHANGED tx_primary_certificate /\ Return(t, FALSE)
    BY <1>5 DEF LiteStores
  <2>2. c \in Certificate
    BY DEF TypeOK
  <2> QED BY <1>5, <2>1, <2>2, RequestSend, RequestMove, FreeLabels DEF LiteStores, Dagging
<1>6. CASE LiteInDag(t)
  <2>1. /\ callback[t] # "none" /\ Received(t) /\ UNCHANGED <<handler, tx_primary_certificate>>
        /\ batch[t] \subseteq Certificate
    BY <1>6 DEF LiteInDag, TypeOK
  <2>2. CASE UNCHANGED tx_primary_round /\ (Goto(t, "fake") \/ Return(t, FALSE))
    BY <2>1, <2>2, RequestRead, FreeLabels
  <2>3. CASE \E r \in Nat : /\ tx_primary_round' = [tx_primary_round EXCEPT ![t] = r]
                            /\ Goto(t, "ask_lite")
    BY <2>1, <2>3, RequestAsk, FreeLabels DEF Asking
  <2>4. \A c \in batch[t] : FastForwarded(c.round + 1) \in Nat
    BY <2>1, CertificateFields, RoundTypes
  <2> QED BY <1>6, <2>2, <2>3, <2>4 DEF LiteInDag
<1>7. CASE FakeProposal(t) \/ FakeFails(t)
  BY <1>7, RequestMove, FreeLabels DEF FakeProposal, FakeFails
<1>8. CASE FakeStores(t)
  <2>1. PICK c \in batch[t] :
          \/ Send(t, c) /\ Goto(t, "fake_dag")
          \/ UNCHANGED tx_primary_certificate /\ (Return(t, FALSE) \/ Goto(t, "fake"))
    BY <1>8 DEF FakeStores
  <2>2. c \in Certificate
    BY DEF TypeOK
  <2> QED BY <1>8, <2>1, <2>2, RequestSend, RequestMove, FreeLabels DEF FakeStores, Dagging
<1>9. CASE FakeInDag(t)
  BY <1>9, RequestRead, FreeLabels DEF FakeInDag
<1> QED BY <1>1, <1>2, <1>3, <1>4, <1>5, <1>6, <1>7, <1>8, <1>9 DEF TaskStep

\* Bootup and the loops.
LEMMA RequestBoot ==
    ASSUME TypeOK, RequestInv, PhaseInv,
           Boot \/ BootStep \/ SetShutdown \/ ProposerWakes \/ IncrementWakes
    PROVE  RequestInv'
<1> USE DEF channelVars, bftVars, primaryVars, taskVars
<1>0. "boot" \in Task /\ "proposer" \in Task /\ "increment" \in Task
  BY DEF Task
<1>1. CASE Boot \/ SyncCertificate \/ SetShutdown
  <2>1. UNCHANGED <<pc, handler, callback, tx_primary_round, tx_primary_certificate>>
    BY <1>1 DEF Boot, SyncCertificate, SetShutdown
  <2> QED BY <2>1 DEF RequestInv
<1>2. CASE LoadProposalCache
  BY <1>0, <1>2, RequestMove, FreeLabels DEF LoadProposalCache, PhaseInv
<1>3. CASE LoadNext
  <2>1. PICK c \in todo :
           \/ UNCHANGED <<tx_primary_round, pc>>
           \/ TryIncrement("boot", c.round)
           \/ Goto("boot", "load_store") /\ UNCHANGED tx_primary_round
    BY <1>3 DEF LoadNext, Earliest
  <2>2. c.round \in Nat
    BY CertificateFields DEF TypeOK
  <2>3. pc["boot"] = "load" /\ UNCHANGED <<handler, callback, tx_primary_certificate>>
    BY <1>3 DEF LoadNext
  <2>4. CASE UNCHANGED <<tx_primary_round, pc>>
    BY <2>3, <2>4 DEF RequestInv
  <2>5. CASE TryIncrement("boot", c.round)
    BY <1>0, <2>2, <2>3, <2>5, RequestIncrement, FreeLabels
  <2>6. CASE Goto("boot", "load_store") /\ UNCHANGED tx_primary_round
    BY <1>0, <2>3, <2>6, RequestMove, FreeLabels
  <2> QED BY <2>1, <2>4, <2>5, <2>6
<1>4. CASE LoadStore
  <2>1. PICK c \in loading :
          \/ Send("boot", c) /\ Goto("boot", "load_dag")
          \/ UNCHANGED tx_primary_certificate /\ Goto("boot", "load")
    BY <1>4 DEF LoadStore
  <2>2. c \in Certificate
    BY DEF TypeOK
  <2> QED BY <1>0, <1>4, <2>1, <2>2, RequestSend, RequestMove, FreeLabels DEF LoadStore, Dagging
<1>5. CASE LoadFails
  BY <1>0, <1>5, RequestMove, FreeLabels DEF LoadFails
<1>6. CASE LoadInDag
  BY <1>0, <1>6, RequestRead, FreeLabels DEF LoadInDag
<1>7. CASE StartHandlers
  <2>1. /\ UNCHANGED <<handler, callback, tx_primary_round, tx_primary_certificate>>
        /\ \A t \in Task : pc[t] \in Free
        /\ \A t \in Task : pc'[t] \in Free
    <3>1. status # "running" /\ pc["boot"] = "load"
      BY <1>7 DEF StartHandlers, PhaseInv
    <3>2. \A t \in Task \ {"boot"} : pc[t] = "off"
      BY <3>1 DEF PhaseInv
    <3> QED BY <1>7, <3>1, <3>2, FreeLabels DEF StartHandlers
  <2>2. ASSUME NEW t \in Task
        PROVE  Protocol(pc'[t], callback'[t], tx_primary_round'[t],
                        tx_primary_certificate'[t], t \in handler'.from)
    BY <2>1, FreeProtocol DEF Protocol
  <2> QED BY <2>1, <2>2 DEF RequestInv
<1>8. CASE ProposerWakes
  BY <1>0, <1>8, RequestMove, FreeLabels DEF ProposerWakes
<1>9. CASE IncrementWakes
  <2>1. current_round + 1 \in Nat
    BY DEF TypeOK
  <2> QED BY <1>0, <1>9, <2>1, RequestIncrement, FreeLabels DEF IncrementWakes
<1> QED BY <1>1, <1>2, <1>3, <1>4, <1>5, <1>6, <1>7, <1>8, <1>9 DEF BootStep

-----------------------------------------------------------------------------
(* The phases of a run and the rounds.                                      *)

\* The BFT answers with a round that is not below the current one.
LEMMA IncrementedUp ==
    ASSUME TypeOK, NEW r \in Nat
    PROVE  Incremented(r, LatestAnchor) >= current_round
BY LatestAnchorType DEF TypeOK, Incremented, MaxOf

\* A block on top of the ledger.
LEMMA AppendAnchor ==
    ASSUME TypeOK, NEW a \in Certificate, NEW C \in SUBSET Certificate,
           ledger' = Append(ledger, [anchor |-> a.round, certificates |-> C])
    PROVE  /\ Len(ledger) \in Nat /\ Len(ledger') = Len(ledger) + 1
           /\ ledger'[Len(ledger) + 1] = [anchor |-> a.round, certificates |-> C]
           /\ \A h \in 1..Len(ledger) : ledger'[h] = ledger[h]
           /\ LatestAnchor' = a.round
<1> DEFINE Block == [anchor : Nat, certificates : SUBSET Certificate]
<1> DEFINE b == [anchor |-> a.round, certificates |-> C]
<1>1. ledger \in Seq(Block) /\ b \in Block /\ b.anchor = a.round /\ ledger' = Append(ledger, b)
  BY CertificateFields DEF TypeOK
<1>2. /\ Len(ledger) \in Nat /\ Len(ledger') = Len(ledger) + 1
      /\ ledger'[Len(ledger) + 1] = b
      /\ \A h \in 1..Len(ledger) : ledger'[h] = ledger[h]
      /\ ledger' # << >>
  <2> HIDE DEF Block, b
  <2> QED BY <1>1
<1>3. LatestAnchor' = a.round
  BY <1>1, <1>2 DEF LatestAnchor
<1> QED BY <1>2, <1>3

\* What a step of a task leaves alone, and where it may be taken.
LEMMA TaskFrame ==
    ASSUME TypeOK, NEW t \in Task, TaskStep(t)
    PROVE  /\ pc[t] \notin {"off", "done"}
           /\ UNCHANGED <<processVars, dagVars, bftVars, ledger, gc_round>>
           /\ \A u \in Task \ {t} : pc'[u] = pc[u] /\ batch'[u] = batch[u]
           /\ current_round' \in Nat /\ current_round' >= current_round
<1> USE DEF storageVars, channelVars, primaryVars, taskVars, bftVars
<1>0. pc \in [Task -> Label] /\ batch \in [Task -> SUBSET Certificate]
  BY DEF TypeOK
<1>1. /\ pc[t] \notin {"off", "done"}
      /\ UNCHANGED <<processVars, dagVars, bftVars, ledger, gc_round>>
  BY DEF TaskStep, IncrementAnswered, LiteSkips, LiteTooSoon, LiteAsks, LiteAsked,
         LiteProposes, LiteStores, LiteFails, LiteInDag, LiteDone, FakeProposal,
         FakeStores, FakeFails, FakeInDag
<1>2. \E p : Goto(t, p)
  BY DEF TaskStep, IncrementAnswered, LiteSkips, LiteTooSoon, LiteAsks, LiteAsked,
         LiteProposes, LiteStores, LiteFails, LiteInDag, LiteDone, FakeProposal,
         FakeStores, FakeFails, FakeInDag, Return
<1>3. UNCHANGED batch \/ \E B : batch' = [batch EXCEPT ![t] = B]
  BY TaskBatch DEF LiteProposes, FakeProposal
<1>4. \A u \in Task \ {t} : pc'[u] = pc[u] /\ batch'[u] = batch[u]
  BY <1>0, <1>2, <1>3 DEF Goto
<1>5. UNCHANGED current_round \/ \E r \in Nat : current_round' = FastForwarded(r)
  <2>1. CASE LiteInDag(t)
    <3>1. \A c \in batch[t] : c.round + 1 \in Nat
      BY <1>0, CertificateFields
    <3> QED BY <2>1, <3>1 DEF LiteInDag
  <2>2. CASE ~LiteInDag(t)
    BY <2>2 DEF TaskStep, IncrementAnswered, LiteSkips, LiteTooSoon, LiteAsks, LiteAsked,
         LiteProposes, LiteStores, LiteFails, LiteDone, FakeProposal,
         FakeStores, FakeFails, FakeInDag
  <2> QED BY <2>1, <2>2
<1>6. current_round' \in Nat /\ current_round' >= current_round
  <2>1. current_round \in Nat
    BY DEF TypeOK
  <2> QED BY <1>5, <2>1, RoundTypes
<1> QED BY <1>1, <1>4, <1>6

\* The rounds of the batches and of the certificates a task has sent.
LEMMA TaskAhead ==
    ASSUME TypeOK, NEW t \in Task, TaskStep(t), AheadInv, status = "running"
    PROVE  AheadInv'
<1>1. /\ UNCHANGED <<processVars, dagVars, bftVars, ledger, gc_round>>
      /\ current_round' \in Nat /\ current_round' >= current_round
      /\ \A u \in Task \ {t} : batch'[u] = batch[u]
  BY TaskFrame
<1>2. /\ current_round \in Nat /\ handler.round \in Nat
      /\ \A u \in Task : batch[u] \subseteq Certificate /\ tx_primary_certificate[u] \subseteq Certificate
      /\ handler.chain \subseteq Certificate
      /\ batch \in [Task -> SUBSET Certificate]
  BY DEF TypeOK
<1>3. ASSUME NEW c \in Certificate, c.round <= current_round
      PROVE  c.round <= current_round'
  BY <1>1, <1>2, <1>3, CertificateFields
<1>4. \A u \in Task : \A c \in tx_primary_certificate'[u] : c.round <= current_round'
  BY <1>2, <1>3, TaskBatch DEF AheadInv
<1>5. \A c \in batch'[t] : c.round <= current_round'
  <2>1. CASE UNCHANGED batch
    BY <1>2, <1>3, <2>1 DEF AheadInv
  <2>2. CASE LiteProposes(t)
    <3>1. batch' = [batch EXCEPT ![t] = {NewCertificate(Self, current_round)}]
      BY <2>2 DEF LiteProposes
    <3>2. batch'[t] = {NewCertificate(Self, current_round)}
      BY <1>2, <3>1
    <3> QED BY <1>1, <1>2, <3>2 DEF NewCertificate
  <2>3. CASE FakeProposal(t)
    <3>1. PICK c \in batch[t] :
             \/ batch' = [batch EXCEPT ![t] = {NewCertificate(vid[t], c.round)}]
             \/ UNCHANGED batch
      BY <2>3 DEF FakeProposal
    <3>2. c.round <= current_round'
      BY <1>2, <1>3 DEF AheadInv
    <3>3. \A d \in batch'[t] : d \in batch[t] \/ d.round = c.round
      <4>1. batch'[t] = {NewCertificate(vid[t], c.round)} \/ batch'[t] = batch[t]
        BY <1>2, <3>1
      <4> QED BY <4>1 DEF NewCertificate
    <3> QED BY <1>2, <1>3, <3>2, <3>3 DEF AheadInv
  <2> QED BY <2>1, <2>2, <2>3, TaskBatch
<1>6. \A u \in Task : \A c \in batch'[u] : c.round <= current_round'
  <2>1. ASSUME NEW u \in Task, NEW c \in batch'[u], u # t PROVE c.round <= current_round'
    <3>1. c \in batch[u] /\ c \in Certificate /\ c.round <= current_round
      BY <1>1, <1>2, <2>1 DEF AheadInv
    <3> QED BY <1>3, <3>1
  <2> QED BY <1>5, <2>1
<1>7. handler'.round <= current_round' /\ \A c \in handler'.chain : c.round <= current_round'
  BY <1>1, <1>2, <1>3 DEF AheadInv, bftVars
<1> QED BY <1>4, <1>6, <1>7 DEF AheadInv

\* A step of a task keeps the phases and the rounds.
LEMMA TaskRound ==
    ASSUME RoundInv, NEW t \in Task, TaskStep(t)
    PROVE  PhaseInv' /\ AheadInv' /\ RoundNotBehind'
<1> USE DEF RoundInv
<1>1. /\ pc[t] \notin {"off", "done"}
      /\ UNCHANGED <<status, ledger, consensus_sender>>
      /\ \A u \in Task \ {t} : pc'[u] = pc[u] /\ batch'[u] = batch[u]
      /\ current_round' \in Nat /\ current_round' >= current_round
  BY TaskFrame DEF processVars, bftVars
<1>2. status \notin {"down", "syncing"} /\ (status # "running" => t = "boot")
      /\ (status = "running" => t # "boot")
  BY <1>1 DEF PhaseInv
<1>3. PhaseInv'
  <2>1. CASE status = "running"
    <3>0. "boot" \in Task \ {t}
      BY <1>2, <2>1 DEF Task
    <3>1. pc'["boot"] = pc["boot"]
      BY <1>1, <3>0
    <3> QED BY <1>1, <2>1, <3>1 DEF PhaseInv
  <2>2. CASE status # "running"
    <3>1. t = "boot" /\ ~consensus_sender /\ \A u \in Task \ {"boot"} : pc[u] = "off" /\ batch[u] = {}
      BY <1>2, <2>2 DEF PhaseInv
    <3>2. \A u \in Task \ {"boot"} : pc'[u] = "off" /\ batch'[u] = {}
      BY <1>1, <3>1
    <3> QED BY <1>1, <1>2, <2>2, <3>1, <3>2 DEF PhaseInv
  <2> QED BY <2>1, <2>2
<1>4. AheadInv'
  BY <1>1, <1>2, TaskAhead DEF AheadInv
<1>5. RoundNotBehind'
  <2>1. LatestAnchor' = LatestAnchor
    BY <1>1 DEF LatestAnchor
  <2>2. LatestAnchor \in Nat /\ current_round \in Nat
    BY LatestAnchorType DEF TypeOK
  <2> QED BY <1>1, <2>1, <2>2 DEF RoundNotBehind
<1> QED BY <1>3, <1>4, <1>5

\* The handlers of the BFT: a block is anchored at a leader of a round that the
\* primary has reached.
LEMMA HandlerRound ==
    ASSUME RoundInv,
           \/ CommitHandler \/ SyncHandler
           \/ \E t \in Task : RoundHandler(t) \/ CertificateHandler(t)
    PROVE  PhaseInv' /\ AheadInv' /\ RoundNotBehind'
<1> USE DEF RoundInv
<1>0. /\ UNCHANGED <<primaryVars, processVars, consensus_sender>>
  BY DEF CommitHandler, SyncHandler, RoundHandler, CertificateHandler, CheckLeader, CommitLeader,
         CollectGarbage, AdvanceFails, CommitFails, SyncBftDagAtBootup, UpdateToNextRound,
         UpdateDag, bftVars
<1>1. UNCHANGED <<pc, batch, status>>
  BY <1>0 DEF primaryVars, taskVars, processVars
<1>2. PhaseInv'
  BY <1>0, <1>1 DEF PhaseInv
<1> SUFFICES AheadInv' /\ RoundNotBehind'
  BY <1>2
<1>3. /\ current_round \in Nat /\ handler.round \in Nat /\ LatestAnchor \in Nat
      /\ \A t \in Task : batch[t] \subseteq Certificate /\ tx_primary_certificate[t] \subseteq Certificate
      /\ handler.chain \subseteq Certificate
      /\ handler \in [pc : {"idle", "check", "commit"}, from : SUBSET Task, round : Nat,
                      chain : SUBSET Certificate]
      /\ tx_primary_certificate \in [Task -> SUBSET Certificate]
  BY LatestAnchorType DEF TypeOK
<1>4. ASSUME NEW t \in Task, RoundHandler(t) PROVE AheadInv' /\ RoundNotBehind'
  <2>1. UNCHANGED <<handler, tx_primary_certificate, ledger>>
    BY <1>4 DEF RoundHandler, UpdateToNextRound
  <2>2. current_round' \in Nat /\ current_round' >= current_round
    <3>1. tx_primary_round[t] \in Nat
      BY DEF TypeOK
    <3>2. current_round' = current_round \/ current_round' = Incremented(tx_primary_round[t], LatestAnchor)
      BY <1>4 DEF RoundHandler, UpdateToNextRound
    <3> QED BY <1>3, <3>1, <3>2, RoundTypes, IncrementedUp
  <2>3. ASSUME NEW c \in Certificate, c.round <= current_round
        PROVE  c.round <= current_round'
    BY <1>3, <2>2, <2>3, CertificateFields
  <2>4. AheadInv'
    BY <1>1, <1>3, <2>1, <2>2, <2>3 DEF AheadInv
  <2>5. LatestAnchor' = LatestAnchor
    BY <2>1 DEF LatestAnchor
  <2> QED BY <1>1, <1>3, <2>2, <2>4, <2>5 DEF RoundNotBehind
<1>5. ASSUME NEW t \in Task, CertificateHandler(t) PROVE AheadInv' /\ RoundNotBehind'
  <2>1. PICK c \in tx_primary_certificate[t] :
          handler' = [Idle EXCEPT !.pc = "check", !.from = {t}, !.round = c.round]
    BY <1>5 DEF CertificateHandler, UpdateDag
  <2>2. handler'.round = c.round /\ handler'.chain = {}
    BY <2>1 DEF Idle
  <2>3. /\ UNCHANGED <<current_round, ledger>>
        /\ tx_primary_certificate' = [tx_primary_certificate EXCEPT ![t] = {}]
    BY <1>5 DEF CertificateHandler, UpdateDag, storageVars
  <2>4. \A u \in Task : tx_primary_certificate'[u] \subseteq tx_primary_certificate[u]
    BY <1>3, <2>3
  <2>5. LatestAnchor' = LatestAnchor
    BY <2>3 DEF LatestAnchor
  <2> QED BY <1>1, <2>2, <2>3, <2>4, <2>5 DEF AheadInv, RoundNotBehind
<1>6. CASE SyncHandler
  <2>1. UNCHANGED <<current_round, ledger, handler, tx_primary_certificate>>
    BY <1>6 DEF SyncHandler, SyncBftDagAtBootup, storageVars, bftVars
  <2>2. LatestAnchor' = LatestAnchor
    BY <2>1 DEF LatestAnchor
  <2>3. AheadInv'
    BY <1>1, <2>1 DEF AheadInv
  <2> QED BY <1>1, <1>3, <2>1, <2>2, <2>3 DEF RoundNotBehind
<1>7. CASE CommitHandler
  <2>1. UNCHANGED <<current_round, tx_primary_certificate>>
    BY <1>7 DEF CommitHandler, CheckLeader, CommitLeader, CollectGarbage, AdvanceFails, CommitFails,
                storageVars
  <2>2. ASSUME NEW r, Answer(r) PROVE handler'.round = 0 /\ handler'.chain = {}
    BY <2>2 DEF Answer, Idle
  <2>3. CASE UNCHANGED ledger /\ (Answer("ok") \/ Answer("err"))
    <3>1. LatestAnchor' = LatestAnchor
      BY <2>3 DEF LatestAnchor
    <3>2. AheadInv'
      BY <1>1, <1>3, <2>1, <2>2, <2>3 DEF AheadInv
    <3> QED BY <1>1, <1>3, <2>1, <3>1, <3>2 DEF RoundNotBehind
  <2>4. ASSUME NEW l \in ReadyLeader,
               handler' = [handler EXCEPT !.pc = "commit", !.round = l.round,
                                          !.chain = LeaderChain(l)],
               handler.pc = "check", UNCHANGED ledger
        PROVE  AheadInv' /\ RoundNotBehind'
    <3>1. l.round = handler.round - 1
      BY DEF ReadyLeader, LeaderIn, CommitRound
    <3>2. \A c \in LeaderChain(l) : c = l \/ c.round < l.round
      BY DEF LeaderChain, PreviousLeaders
    <3>3. LeaderChain(l) \subseteq Certificate /\ l \in Certificate
      BY LeaderChainType DEF ReadyLeader, LeaderIn, TypeOK
    <3>4. \A c \in LeaderChain(l) : c.round <= l.round
      BY <3>2, <3>3, CertificateFields
    <3>5. handler'.round = l.round /\ handler'.chain = LeaderChain(l)
      BY <1>3, <2>4
    <3>6. AheadInv'
      <4>1. \A c \in LeaderChain(l) : c.round \in Nat
        BY <3>3, CertificateFields
      <4>2. l.round \in Nat
        BY <3>3, CertificateFields
      <4>3. ASSUME status = "running" PROVE l.round <= current_round
        BY <1>3, <3>1, <4>2, <4>3 DEF AheadInv
      <4> QED BY <1>1, <1>3, <2>1, <3>4, <3>5, <4>1, <4>2, <4>3 DEF AheadInv
    <3>7. LatestAnchor' = LatestAnchor
      BY <2>4 DEF LatestAnchor
    <3> QED BY <1>1, <2>1, <3>6, <3>7 DEF RoundNotBehind
  <2>5. ASSUME NEW l \in OldestLeader,
               handler' = [handler EXCEPT !.chain = @ \ {l}],
               ledger' = IF consensus_sender
                         THEN Append(ledger, [anchor |-> l.round, certificates |-> Subdag(l)])
                         ELSE ledger
        PROVE  AheadInv' /\ RoundNotBehind'
    <3>1. handler'.round = handler.round /\ handler'.chain \subseteq handler.chain
      BY <1>3, <2>5
    <3>2. AheadInv'
      BY <1>1, <2>1, <3>1 DEF AheadInv
    <3>3. CASE ~consensus_sender
      <4>1. LatestAnchor' = LatestAnchor
        BY <2>5, <3>3 DEF LatestAnchor
      <4> QED BY <1>1, <2>1, <3>2, <4>1 DEF RoundNotBehind
    <3>4. CASE consensus_sender
      <4>1. status = "running" /\ l \in handler.chain
        BY <3>4 DEF PhaseInv, OldestLeader
      <4>2. LatestAnchor' = l.round
        BY <1>3, <2>5, <3>4, <4>1, AppendAnchor, SubdagType
      <4> QED BY <1>1, <2>1, <3>2, <4>1, <4>2 DEF AheadInv, RoundNotBehind
    <3> QED BY <3>3, <3>4
  <2>6. CASE CheckLeader
    <3>1. handler.pc = "check" /\ UNCHANGED ledger
      BY <2>6 DEF CheckLeader
    <3>2. \/ Answer("ok") \/ Answer("err")
          \/ \E l \in ReadyLeader :
                handler' = [handler EXCEPT !.pc = "commit", !.round = l.round,
                                           !.chain = LeaderChain(l)]
      BY <2>6 DEF CheckLeader
    <3> QED BY <2>3, <2>4, <3>1, <3>2
  <2>7. CASE CommitLeader
    <3>1. \/ UNCHANGED ledger /\ Answer("err")
          \/ \E l \in OldestLeader :
                /\ handler' = [handler EXCEPT !.chain = @ \ {l}]
                /\ ledger' = IF consensus_sender
                             THEN Append(ledger, [anchor |-> l.round, certificates |-> Subdag(l)])
                             ELSE ledger
      BY <2>7 DEF CommitLeader
    <3> QED BY <2>3, <2>5, <3>1
  <2>8. CASE CollectGarbage \/ AdvanceFails \/ CommitFails
    BY <2>3, <2>8 DEF CollectGarbage, AdvanceFails, CommitFails
  <2> QED BY <1>7, <2>6, <2>7, <2>8 DEF CommitHandler
<1> QED BY <1>4, <1>5, <1>6, <1>7

\* The start of a run, bootup and the loops.
LEMMA BootRound ==
    ASSUME RoundInv, Boot \/ BootStep \/ SetShutdown \/ ProposerWakes \/ IncrementWakes
    PROVE  PhaseInv' /\ AheadInv' /\ RoundNotBehind'
<1> USE DEF RoundInv
<1> USE DEF channelVars, bftVars, primaryVars, taskVars, processVars, storageVars
<1>0. /\ current_round \in Nat /\ LatestAnchor \in Nat
      /\ pc \in [Task -> Label] /\ batch \in [Task -> SUBSET Certificate]
      /\ "boot" \in Task /\ "proposer" \in Task /\ "increment" \in Task
  BY LatestAnchorType DEF TypeOK, Task
<1>1. UNCHANGED ledger /\ LatestAnchor' = LatestAnchor
  BY DEF LatestAnchor, Boot, BootStep, SyncCertificate, LoadProposalCache, LoadNext, LoadStore,
         LoadFails, LoadInDag, StartHandlers, SetShutdown, ProposerWakes, IncrementWakes
<1>2. CASE Boot
  <2>1. /\ status' = "syncing" /\ UNCHANGED <<pc, batch, consensus_sender>>
        /\ current_round' = MaxOf(1, LatestAnchor) /\ status = "down"
    BY <1>2 DEF Boot
  <2>2. PhaseInv' /\ AheadInv'
    BY <2>1 DEF PhaseInv, AheadInv
  <2> QED BY <1>0, <1>1, <2>1, <2>2 DEF RoundNotBehind, MaxOf
<1>3. CASE SyncCertificate
  <2>1. UNCHANGED <<pc, batch, consensus_sender, status, current_round>> /\ status = "syncing"
    BY <1>3 DEF SyncCertificate
  <2>2. PhaseInv' /\ AheadInv'
    BY <2>1 DEF PhaseInv, AheadInv
  <2> QED BY <1>0, <1>1, <2>1, <2>2 DEF RoundNotBehind
<1>4. CASE SetShutdown
  <2>1. UNCHANGED <<pc, batch, consensus_sender, status, current_round, tx_primary_certificate,
                    handler>>
    BY <1>4 DEF SetShutdown
  <2>2. PhaseInv' /\ AheadInv'
    BY <2>1 DEF PhaseInv, AheadInv
  <2> QED BY <1>0, <1>1, <2>1, <2>2 DEF RoundNotBehind
<1>5. CASE LoadProposalCache
  <2>1. /\ status = "syncing" /\ status' = "loading" /\ Goto("boot", "load")
        /\ UNCHANGED <<batch, consensus_sender, current_round>>
    BY <1>5 DEF LoadProposalCache
  <2>2. \A t \in Task \ {"boot"} : pc'[t] = pc[t]
    BY <1>0, <2>1 DEF Goto
  <2>3. PhaseInv' /\ AheadInv'
    BY <2>1, <2>2 DEF PhaseInv, AheadInv
  <2> QED BY <1>0, <1>1, <2>1, <2>3 DEF RoundNotBehind
<1>6. CASE LoadNext \/ LoadStore \/ LoadFails \/ LoadInDag
  <2>1. /\ pc["boot"] \notin {"off", "done"}
        /\ UNCHANGED <<batch, consensus_sender, status>>
    BY <1>6 DEF LoadNext, LoadStore, LoadFails, LoadInDag
  <2>2. status \notin {"down", "syncing", "running"}
    BY <1>0, <2>1 DEF PhaseInv
  <2>3. \A t \in Task \ {"boot"} : pc'[t] = pc[t]
    <3>1. UNCHANGED pc \/ \E p : Goto("boot", p)
      BY <1>6 DEF LoadNext, LoadStore, LoadFails, LoadInDag, TryIncrement, Return
    <3> QED BY <1>0, <3>1 DEF Goto
  <2>4. PhaseInv' /\ AheadInv'
    BY <2>1, <2>2, <2>3 DEF PhaseInv, AheadInv
  <2>5. current_round' \in Nat /\ current_round' >= current_round
    <3>1. UNCHANGED current_round \/ \E r \in Nat : current_round' = FastForwarded(r)
      <4>1. \A c \in todo : c.round \in Nat
        BY CertificateFields DEF TypeOK
      <4> QED BY <1>6, <4>1 DEF LoadNext, LoadStore, LoadFails, LoadInDag, TryIncrement, Earliest
    <3> QED BY <1>0, <3>1, RoundTypes
  <2> QED BY <1>0, <1>1, <2>1, <2>4, <2>5 DEF RoundNotBehind
<1>7. CASE StartHandlers
  <2>1. /\ pc["boot"] = "load" /\ status' = "running"
        /\ pc' = [t \in Task |-> IF t = "boot" THEN "done" ELSE "idle"]
        /\ batch' = [batch EXCEPT !["boot"] = {}]
        /\ UNCHANGED <<current_round, tx_primary_certificate, handler>>
    BY <1>7 DEF StartHandlers
  <2>2. status \notin {"down", "syncing", "running"}
    BY <1>0, <2>1 DEF PhaseInv
  <2>3. /\ \A t \in Task : pc[t] \in Free
        /\ \A t \in Task \ {"boot"} : batch[t] = {}
    BY <2>1, <2>2, FreeLabels DEF PhaseInv
  <2>4. /\ \A t \in Task : tx_primary_certificate[t] = {} /\ t \notin handler.from
        /\ handler.from \subseteq Task
    BY <2>3, FreeProtocol DEF TypeOK
  <2>5. handler = Idle
    BY <2>4 DEF RequestInv
  <2>6. \A t \in Task : batch'[t] = {}
    BY <1>0, <2>1, <2>3
  <2>7. AheadInv'
    BY <1>0, <2>1, <2>4, <2>5, <2>6 DEF AheadInv, Idle
  <2>8. PhaseInv'
    BY <1>0, <2>1 DEF PhaseInv
  <2> QED BY <1>0, <1>1, <2>1, <2>2, <2>7, <2>8 DEF RoundNotBehind
<1>8. CASE ProposerWakes \/ IncrementWakes
  <2>1. /\ UNCHANGED <<batch, consensus_sender, status, tx_primary_certificate, handler>>
        /\ status = "running"
    BY <1>8 DEF ProposerWakes, IncrementWakes
  <2>2. pc'["boot"] = pc["boot"]
    <3>1. \E p : Goto("proposer", p) \/ Goto("increment", p)
      BY <1>8 DEF ProposerWakes, IncrementWakes, TryIncrement, Return
    <3> QED BY <1>0, <3>1 DEF Goto
  <2>3. current_round' \in Nat /\ current_round' >= current_round
    <3>1. UNCHANGED current_round \/ current_round' = FastForwarded(current_round + 1)
      BY <1>8 DEF ProposerWakes, IncrementWakes, TryIncrement
    <3> QED BY <1>0, <3>1, RoundTypes
  <2>4. PhaseInv'
    BY <2>1, <2>2 DEF PhaseInv
  <2>5. AheadInv'
    <3>1. ASSUME NEW c \in Certificate, c.round <= current_round
          PROVE  c.round <= current_round'
      BY <1>0, <2>3, <3>1, CertificateFields
    <3>2. /\ \A t \in Task : batch[t] \subseteq Certificate /\ tx_primary_certificate[t] \subseteq Certificate
          /\ handler.chain \subseteq Certificate /\ handler.round \in Nat
      BY DEF TypeOK
    <3> QED BY <1>0, <2>1, <2>3, <3>1, <3>2 DEF AheadInv
  <2> QED BY <1>0, <1>1, <2>1, <2>3, <2>4, <2>5 DEF RoundNotBehind
<1> QED BY <1>2, <1>3, <1>4, <1>5, <1>6, <1>7, <1>8 DEF BootStep

\* The end of a run.
LEMMA StopRound ==
    ASSUME RoundInv, ShutDown \/ Crash
    PROVE  RequestInv' /\ PhaseInv' /\ AheadInv' /\ RoundNotBehind'
<1>1. /\ status' = "down" /\ handler' = Idle /\ consensus_sender' = FALSE
      /\ \A t \in Task : /\ pc'[t] = "off" /\ batch'[t] = {} /\ callback'[t] = "none"
                         /\ tx_primary_round'[t] = 0 /\ tx_primary_certificate'[t] = {}
  BY DEF ShutDown, Crash, PowerOff
<1>2. ASSUME NEW t \in Task
      PROVE  Protocol(pc'[t], callback'[t], tx_primary_round'[t], tx_primary_certificate'[t],
                      t \in handler'.from)
  BY <1>1 DEF Protocol, Idle
<1>3. RequestInv'
  BY <1>1, <1>2 DEF RequestInv, Idle
<1>4. PhaseInv' /\ AheadInv' /\ RoundNotBehind'
  BY <1>1 DEF PhaseInv, AheadInv, RoundNotBehind
<1> QED BY <1>3, <1>4

\* Every step keeps the invariant.
LEMMA RoundNext == RoundInv /\ [Next]_vars => RoundInv'
<1> SUFFICES ASSUME RoundInv, [Next]_vars
             PROVE  RequestInv' /\ PhaseInv' /\ AheadInv' /\ RoundNotBehind'
  BY TypeNext DEF RoundInv
<1> USE DEF RoundInv
<1>1. CASE UNCHANGED vars
  <2>1. UNCHANGED <<pc, callback, tx_primary_round, tx_primary_certificate, handler, batch, status,
                    consensus_sender, current_round, ledger>>
    BY <1>1 DEF vars, storageVars, bftVars, channelVars, primaryVars, taskVars, processVars
  <2>2. LatestAnchor' = LatestAnchor
    BY <2>1 DEF LatestAnchor
  <2>3. LatestAnchor \in Nat /\ current_round \in Nat
    BY LatestAnchorType DEF TypeOK
  <2>4. RequestInv' /\ PhaseInv' /\ AheadInv'
    BY <2>1 DEF RequestInv, PhaseInv, AheadInv
  <2> QED BY <2>1, <2>2, <2>3, <2>4 DEF RoundNotBehind
<1>2. CASE Boot \/ BootStep \/ SetShutdown \/ ProposerWakes \/ IncrementWakes
  BY <1>2, RequestBoot, BootRound
<1>3. CASE ShutDown \/ Crash
  BY <1>3, StopRound
<1>4. CASE CommitHandler \/ SyncHandler
  <2>1. RequestInv'
    <3>1. CASE SyncHandler
      <4>1. UNCHANGED <<pc, callback, tx_primary_round, tx_primary_certificate, handler>>
        BY <3>1 DEF SyncHandler, SyncBftDagAtBootup, bftVars, primaryVars, taskVars
      <4> QED BY <4>1 DEF RequestInv
    <3> QED BY <1>4, <3>1, RequestCommit
  <2> QED BY <1>4, <2>1, HandlerRound
<1>5. ASSUME NEW t \in Task, RoundHandler(t) \/ CertificateHandler(t)
      PROVE  RequestInv' /\ PhaseInv' /\ AheadInv' /\ RoundNotBehind'
  BY <1>5, RequestRound, RequestCertificate, HandlerRound
<1>6. ASSUME NEW t \in Task, TaskStep(t)
      PROVE  RequestInv' /\ PhaseInv' /\ AheadInv' /\ RoundNotBehind'
  BY <1>6, RequestTask, TaskRound
<1> QED BY <1>1, <1>2, <1>3, <1>4, <1>5, <1>6 DEF Next

\* The invariant holds before the first run.
LEMMA RoundInit == Init => RoundInv
<1> SUFFICES ASSUME Init PROVE RequestInv /\ PhaseInv /\ AheadInv /\ RoundNotBehind
  BY TypeInit DEF RoundInv
<1>1. /\ status = "down" /\ handler = Idle /\ consensus_sender = FALSE
      /\ \A t \in Task : /\ pc[t] = "off" /\ batch[t] = {} /\ callback[t] = "none"
                         /\ tx_primary_round[t] = 0 /\ tx_primary_certificate[t] = {}
  BY DEF Init
<1>2. RequestInv
  BY <1>1 DEF RequestInv, Protocol, Idle
<1> QED BY <1>1, <1>2 DEF PhaseInv, AheadInv, RoundNotBehind

\* In every run, whatever the restarts, the crashes and the failures, the primary
\* works on a round that is not below the latest block: Storage::new starts there,
\* and every block is anchored at a leader whose round the primary has reached.
THEOREM PrimaryNotBehind == Spec => []RoundNotBehind
<1>1. RoundInv => RoundNotBehind
  BY DEF RoundInv
<1> QED BY <1>1, RoundInit, RoundNext, PTL DEF Spec
=============================================================================
