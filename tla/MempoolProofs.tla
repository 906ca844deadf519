--------------------------- MODULE MempoolProofs ---------------------------
(***************************************************************************)
(* Mempool, for every set of IDs, every number of clients, every capacity  *)
(* of the queues and of the seen sets and every limit of a batch: no       *)
(* transmission is confirmed twice; the queues and the batch stay within   *)
(* their limits; nothing that is owed is lost, except beyond the limit of  *)
(* the batch; and nothing is at two places while the seen sets remember.   *)
(***************************************************************************)
EXTENDS Mempool, FiniteSetTheorems, FunctionTheorems, SequenceTheorems, TLAPS

\* The strengthening of LedgerOnce: the ledger is a sequence.
LedgerInv ==
    /\ ledger \in Seq(ToSet(ledger))
    /\ LedgerOnce

\* The steps that do not add a block.
NoBlock == UNCHANGED ledger

\* Adding a block of new transmissions keeps the blocks disjoint: what is in no earlier
\* block is in one block afterwards.
LEMMA NewBlock ==
    ASSUME LedgerInv, NEW B, B \cap Ledger = {}, ledger' = Append(ledger, B)
    PROVE  LedgerInv'
<1> DEFINE S == ToSet(ledger) \cup {B}
<1>1. ledger \in Seq(S)
  BY DEF LedgerInv
<1>2. /\ ledger' \in Seq(S)
      /\ Len(ledger') = Len(ledger) + 1
      /\ \A i \in 1..Len(ledger) : ledger'[i] = ledger[i]
      /\ ledger'[Len(ledger) + 1] = B
  BY <1>1
<1>3. ledger' \in Seq(ToSet(ledger'))
  BY <1>2 DEF ToSet
<1>4. \A i \in 1..Len(ledger) : ledger[i] \cap B = {}
  BY <1>1 DEF Ledger, ToSet
<1>5. LedgerOnce'
  <2> SUFFICES ASSUME NEW i \in 1..Len(ledger'), NEW j \in 1..Len(ledger'), i # j
               PROVE  ledger'[i] \cap ledger'[j] = {}
    BY <1>2 DEF LedgerOnce
  <2>1. CASE i \in 1..Len(ledger) /\ j \in 1..Len(ledger)
    BY <2>1, <1>1, <1>2 DEF LedgerInv, LedgerOnce
  <2>2. CASE i = Len(ledger) + 1 /\ j \in 1..Len(ledger)
    BY <2>2, <1>2, <1>4
  <2>3. CASE j = Len(ledger) + 1 /\ i \in 1..Len(ledger)
    BY <2>3, <1>2, <1>4
  <2> QED
    BY <2>1, <2>2, <2>3, <1>1, <1>2
<1> QED
  BY <1>3, <1>5 DEF LedgerInv

\* A block that is added holds nothing of the ledger (BlockOf), and a block without
\* transmissions leaves the ledger alone.
LEMMA AdvanceKeeps ==
    ASSUME LedgerInv, NEW n, NEW epoch, Advance(n, epoch)
    PROVE  LedgerInv'
<1>1. CASE BlockOf(n) = {}
  BY <1>1 DEF Advance, LedgerInv, LedgerOnce, ToSet
<1>2. CASE BlockOf(n) # {}
  <2>1. BlockOf(n) \cap Ledger = {}
    BY DEF BlockOf
  <2>2. ledger' = Append(ledger, BlockOf(n))
    BY <1>2 DEF Advance
  <2> QED
    BY <2>1, <2>2, NewBlock
<1> QED
  BY <1>1, <1>2

\* Every other step of a client, a task, a handler, the proposer or the consensus task
\* leaves the blocks alone.
LEMMA OthersKeep ==
    ASSUME Next,
           ~\E n \in 0..Len(uncommitted), epoch \in BOOLEAN : Advance(n, epoch)
    PROVE  NoBlock
<1>1. ASSUME NEW c \in Client, Enqueue(c) PROVE NoBlock
  BY <1>1 DEF Enqueue, storageVars, NoBlock
<1>2. ASSUME NEW c \in Client, NEW t \in ID, Submit(c, t) PROVE NoBlock
  BY <1>2 DEF Submit, storageVars, NoBlock
<1>3. ASSUME NEW task \in Task, Process(task) PROVE NoBlock
  BY <1>3 DEF Process, storageVars, NoBlock
<1>4. ASSUME NEW class \in Class, Handler(class) PROVE NoBlock
  BY <1>4 DEF Handler, Receive, Checked, CheckFails, storageVars, NoBlock
<1>5. ASSUME Proposer PROVE NoBlock
  BY <1>5 DEF Proposer, StartBatch, RemoveFront, Select, Skip, NothingReady, Store,
              storageVars, NoBlock
<1>6. ASSUME StoreFails \/ SigningFails PROVE NoBlock
  BY <1>6 DEF StoreFails, SigningFails, storageVars, NoBlock
<1>7. ASSUME NEW n \in 0..Len(uncommitted), Refuse(n) PROVE NoBlock
  BY <1>7 DEF Refuse, storageVars, NoBlock
<1>8. ASSUME ClearQueue \/ ClearWorker \/ CollectGarbage PROVE NoBlock
  BY <1>8 DEF ClearQueue, ClearWorker, CollectGarbage, storageVars, NoBlock
<1>9. ~NextBlock
  <2> SUFFICES ASSUME NEW n \in 1..Len(uncommitted), Advance(n, FALSE) PROVE FALSE
    BY DEF NextBlock
  <2>1. n \in 0..Len(uncommitted)
    OBVIOUS
  <2> QED
    BY <2>1
<1>10. ~\E n \in 0..Len(uncommitted) : Advance(n, TRUE)
  OBVIOUS
<1> QED
  BY <1>1, <1>2, <1>3, <1>4, <1>5, <1>6, <1>7, <1>8, <1>9, <1>10 DEF Next

\* No transmission is in two blocks, whatever the seen set has forgotten and however many
\* copies are on their way: commit_leader_certificate leaves out what is in the ledger,
\* and nothing but a commit adds a block.
THEOREM ConfirmedOnce == Spec => []LedgerOnce
<1>1. Init => LedgerInv
  <2> SUFFICES ASSUME Init PROVE LedgerInv
    OBVIOUS
  <2>1. ledger = << >>
    BY DEF Init
  <2> QED
    BY <2>1 DEF LedgerInv, LedgerOnce, ToSet
<1>2. LedgerInv /\ [Next]_vars => LedgerInv'
  <2> SUFFICES ASSUME LedgerInv, [Next]_vars PROVE LedgerInv'
    OBVIOUS
  <2>1. CASE \E n \in 0..Len(uncommitted), epoch \in BOOLEAN : Advance(n, epoch)
    BY <2>1, AdvanceKeeps
  <2>2. CASE NoBlock
    BY <2>2 DEF NoBlock, LedgerInv, LedgerOnce, ToSet
  <2>3. CASE UNCHANGED vars
    BY <2>3, <2>2 DEF vars, storageVars, NoBlock
  <2> QED
    BY <2>1, <2>2, <2>3, OthersKeep
<1>3. LedgerInv => LedgerOnce
  BY DEF LedgerInv
<1> QED
  BY <1>1, <1>2, <1>3, PTL DEF Spec

-----------------------------------------------------------------------------
(* Sequences: what each operation makes of the elements, and of a sequence *)
(* without duplicates.                                                     *)

NoDups(q) == \A i, j \in DOMAIN q : q[i] = q[j] => i = j

LEMMA EmptyFacts ==
    ASSUME NEW S
    PROVE  << >> \in Seq(S) /\ ToSet(<< >>) = {} /\ NoDups(<< >>) /\ Len(<< >>) = 0
  BY DEF ToSet, NoDups

LEMMA SingleFacts ==
    ASSUME NEW S, NEW t \in S
    PROVE  /\ <<t>> \in Seq(S) /\ ToSet(<<t>>) = {t} /\ NoDups(<<t>>) /\ <<t>> # << >>
           /\ Len(<<t>>) = 1 /\ Head(<<t>>) = t
  BY DEF ToSet, NoDups

LEMMA ToSetFacts ==
    ASSUME NEW S, NEW q \in Seq(S)
    PROVE  /\ ToSet(q) = {q[i] : i \in 1..Len(q)} /\ ToSet(q) \subseteq S
           /\ q = << >> <=> ToSet(q) = {}
  <1>1. DOMAIN q = 1..Len(q) /\ Len(q) \in Nat /\ \A i \in 1..Len(q) : q[i] \in S
    OBVIOUS
  <1>2. ToSet(q) = {q[i] : i \in 1..Len(q)}
    BY <1>1 DEF ToSet
  <1>3. q # << >> => 1 \in 1..Len(q)
    OBVIOUS
  <1> QED BY <1>1, <1>2, <1>3, EmptyFacts

LEMMA AppendFacts ==
    ASSUME NEW S, NEW q \in Seq(S), NEW t \in S
    PROVE  /\ Append(q, t) \in Seq(S) /\ ToSet(Append(q, t)) = ToSet(q) \cup {t}
           /\ Len(Append(q, t)) = Len(q) + 1
           /\ NoDups(q) /\ t \notin ToSet(q) => NoDups(Append(q, t))
  <1> DEFINE p == Append(q, t)
             n == Len(q)
  <1>1. /\ n \in Nat /\ p \in Seq(S) /\ Len(p) = n + 1 /\ p[n + 1] = t
        /\ \A i \in 1..n : p[i] = q[i]
    BY AppendProperties
  <1>2. DOMAIN p = 1..(n + 1) /\ DOMAIN q = 1..n /\ 1..(n + 1) = (1..n) \cup {n + 1}
    BY <1>1
  <1> HIDE DEF p, n
  <1>3. ToSet(p) = ToSet(q) \cup {t}
    BY <1>1, <1>2 DEF ToSet
  <1>4. NoDups(q) /\ t \notin ToSet(q) => NoDups(p)
    BY <1>1, <1>2 DEF NoDups, ToSet
  <1> QED BY <1>1, <1>3, <1>4 DEF p, n

LEMMA ConcatFacts ==
    ASSUME NEW S, NEW p \in Seq(S), NEW q \in Seq(S)
    PROVE  /\ p \o q \in Seq(S) /\ ToSet(p \o q) = ToSet(p) \cup ToSet(q)
           /\ NoDups(p) /\ NoDups(q) /\ ToSet(p) \cap ToSet(q) = {} => NoDups(p \o q)
  <1> DEFINE r == p \o q
             m == Len(p)
             n == Len(q)
  <1>1. /\ m \in Nat /\ n \in Nat /\ r \in Seq(S) /\ Len(r) = m + n
        /\ \A i \in 1..(m + n) : r[i] = IF i <= m THEN p[i] ELSE q[i - m]
    BY ConcatProperties
  <1>2. DOMAIN r = 1..(m + n) /\ DOMAIN p = 1..m /\ DOMAIN q = 1..n
    BY <1>1
  <1> HIDE DEF r, m, n
  <1>3. \A i \in 1..m : i \in 1..(m + n) /\ r[i] = p[i]
    BY <1>1
  <1>4. \A i \in 1..n : i + m \in 1..(m + n) /\ r[i + m] = q[i]
    <2> TAKE i \in 1..n
    <2>1. i + m \in 1..(m + n) /\ ~(i + m <= m) /\ (i + m) - m = i
      BY <1>1
    <2> QED BY <1>1, <2>1
  <1>5. \A i \in 1..(m + n) : \/ i \in 1..m /\ r[i] = p[i]
                              \/ i - m \in 1..n /\ r[i] = q[i - m]
    <2> TAKE i \in 1..(m + n)
    <2>1. CASE i <= m
      <3>1. i \in 1..m
        BY <1>1, <2>1
      <3> QED BY <1>3, <3>1
    <2>2. CASE ~(i <= m)
      <3>1. i - m \in 1..n
        BY <1>1, <2>2
      <3> QED BY <1>1, <2>2, <3>1
    <2> QED BY <2>1, <2>2
  <1>6. ToSet(r) = ToSet(p) \cup ToSet(q)
    <2>1. ToSet(r) \subseteq ToSet(p) \cup ToSet(q)
      BY <1>2, <1>5 DEF ToSet
    <2>2. ToSet(p) \cup ToSet(q) \subseteq ToSet(r)
      BY <1>2, <1>3, <1>4 DEF ToSet
    <2> QED BY <2>1, <2>2
  <1>7. ASSUME NoDups(p), NoDups(q), ToSet(p) \cap ToSet(q) = {} PROVE NoDups(r)
    <2> SUFFICES ASSUME NEW i \in 1..(m + n), NEW j \in 1..(m + n), r[i] = r[j]
                 PROVE  i = j
      BY <1>2 DEF NoDups
    <2>1. CASE i \in 1..m /\ r[i] = p[i] /\ j \in 1..m /\ r[j] = p[j]
      BY <1>2, <1>7, <2>1 DEF NoDups
    <2>2. CASE i - m \in 1..n /\ r[i] = q[i - m] /\ j - m \in 1..n /\ r[j] = q[j - m]
      <3>1. i - m = j - m
        BY <1>2, <1>7, <2>2 DEF NoDups
      <3> QED BY <1>1, <3>1
    <2>3. CASE i \in 1..m /\ r[i] = p[i] /\ j - m \in 1..n /\ r[j] = q[j - m]
      BY <1>2, <1>7, <2>3 DEF ToSet
    <2>4. CASE i - m \in 1..n /\ r[i] = q[i - m] /\ j \in 1..m /\ r[j] = p[j]
      BY <1>2, <1>7, <2>4 DEF ToSet
    <2> QED BY <1>5, <2>1, <2>2, <2>3, <2>4
  <1> QED BY <1>1, <1>6, <1>7 DEF r

LEMMA TailFacts ==
    ASSUME NEW S, NEW q \in Seq(S), q # << >>
    PROVE  /\ Head(q) \in S /\ Tail(q) \in Seq(S) /\ ToSet(q) = ToSet(Tail(q)) \cup {Head(q)}
           /\ Len(Tail(q)) = Len(q) - 1
           /\ NoDups(q) => NoDups(Tail(q)) /\ Head(q) \notin ToSet(Tail(q))
  <1> DEFINE p == Tail(q)
             n == Len(q)
  <1>1. /\ n \in Nat /\ n # 0 /\ p \in Seq(S) /\ Len(p) = n - 1 /\ Head(q) = q[1] /\ q[1] \in S
        /\ \A i \in 1..(n - 1) : p[i] = q[i + 1]
    BY HeadTailProperties
  <1>2. DOMAIN p = 1..(n - 1) /\ DOMAIN q = 1..n
    BY <1>1
  <1> HIDE DEF p, n
  <1>3. \A i \in 1..(n - 1) : i + 1 \in 1..n /\ p[i] = q[i + 1] /\ i + 1 # 1
    BY <1>1
  <1>4. \A i \in 1..n : i = 1 \/ (i - 1 \in 1..(n - 1) /\ p[i - 1] = q[i])
    <2> TAKE i \in 1..n
    <2>1. CASE i # 1
      <3>1. i - 1 \in 1..(n - 1) /\ (i - 1) + 1 = i
        BY <1>1, <2>1
      <3>2. p[i - 1] = q[(i - 1) + 1]
        BY <1>1, <3>1
      <3> QED BY <3>1, <3>2
    <2> QED BY <2>1
  <1>5. 1 \in 1..n
    BY <1>1
  <1>6. ToSet(q) = ToSet(p) \cup {q[1]}
    <2>1. ToSet(q) \subseteq ToSet(p) \cup {q[1]}
      BY <1>2, <1>4 DEF ToSet
    <2>2. ToSet(p) \cup {q[1]} \subseteq ToSet(q)
      BY <1>2, <1>3, <1>5 DEF ToSet
    <2> QED BY <2>1, <2>2
  <1>7. ASSUME NoDups(q) PROVE NoDups(p) /\ q[1] \notin ToSet(p)
    <2>1. ASSUME NEW i \in 1..(n - 1), NEW j \in 1..(n - 1), p[i] = p[j] PROVE i = j
      <3>1. i + 1 = j + 1
        BY <1>2, <1>3, <1>7, <2>1 DEF NoDups
      <3> QED BY <1>1, <3>1
    <2>2. NoDups(p)
      BY <1>2, <2>1 DEF NoDups
    <2>3. q[1] \notin ToSet(p)
      BY <1>2, <1>3, <1>5, <1>7 DEF NoDups, ToSet
    <2> QED BY <2>2, <2>3
  <1> QED BY <1>1, <1>6, <1>7 DEF p, n


\* Kept positions are numbered one after the other, by how many there are up to each.
LEMMA Ranks ==
    ASSUME NEW K, NEW m \in Nat, K \subseteq 1..m
    PROVE  /\ IsFiniteSet(K) /\ Cardinality(K) \in Nat /\ Cardinality(K) <= m
           /\ \A i \in K : Cardinality(K \cap 1..i) \in 1..Cardinality(K)
           /\ \A i, j \in K : Cardinality(K \cap 1..i) = Cardinality(K \cap 1..j) => i = j
           /\ \A n \in 1..Cardinality(K) : \E i \in K : Cardinality(K \cap 1..i) = n
  <1> DEFINE c == Cardinality(K)
             f == [i \in K |-> Cardinality(K \cap 1..i)]
  <1>0. IsFiniteSet(1..m) /\ Cardinality(1..m) = m
    <2>1. /\ IsFiniteSet(1..m)
          /\ Cardinality(1..m) = IF 1 > m THEN 0 ELSE m - 1 + 1
      BY FS_Interval
    <2> QED BY <2>1
  <1>1. IsFiniteSet(K) /\ c \in Nat /\ c <= m
    <2>1. K \in SUBSET (1..m)
      OBVIOUS
    <2>2. IsFiniteSet(K) /\ c <= Cardinality(1..m)
      BY <1>0, <2>1, FS_Subset
    <2> QED BY <1>0, <2>2, FS_CardinalityType
  <1>2. ASSUME NEW i \in K
        PROVE  /\ IsFiniteSet(K \cap 1..i) /\ Cardinality(K \cap 1..i) \in 1..c
    <2> DEFINE I == K \cap 1..i
    <2>1. I \in SUBSET K /\ i \in I
      OBVIOUS
    <2> HIDE DEF I
    <2>2. IsFiniteSet(I) /\ Cardinality(I) <= c
      BY <1>1, <2>1, FS_Subset
    <2>3. Cardinality(I) \in Nat /\ Cardinality(I) # 0
      BY <2>1, <2>2, FS_CardinalityType, FS_EmptySet
    <2>4. Cardinality(I) \in 1..c
      BY <1>1, <2>2, <2>3
    <2> QED BY <2>2, <2>4 DEF I
  <1>3. ASSUME NEW i \in K, NEW j \in K, i < j
        PROVE  Cardinality(K \cap 1..i) # Cardinality(K \cap 1..j)
    <2> DEFINE I == K \cap 1..i
               J == K \cap 1..j
    <2>1. I \in SUBSET J /\ j \in J /\ j \notin I
      BY <1>3
    <2>2. IsFiniteSet(J)
      BY <1>2
    <2> HIDE DEF I, J
    <2>3. Cardinality(J) = Cardinality(I) => J = I
      BY <2>1, <2>2, FS_Subset
    <2>4. Cardinality(I) # Cardinality(J)
      BY <2>1, <2>3
    <2> QED BY <2>4 DEF I, J
  <1>4. ASSUME NEW i \in K, NEW j \in K, Cardinality(K \cap 1..i) = Cardinality(K \cap 1..j)
        PROVE  i = j
    <2>1. i \in Nat /\ j \in Nat
      OBVIOUS
    <2>2. ~(i < j) /\ ~(j < i)
      BY <1>3, <1>4
    <2> QED BY <2>1, <2>2
  <1>5. f \in Injection(K, 1..c)
    <2>1. f \in [K -> 1..c]
      BY <1>2
    <2>2. \A i, j \in K : f[i] = f[j] => i = j
      BY <1>4
    <2> HIDE DEF f, c
    <2> QED BY <2>1, <2>2, Fun_IsInj
  <1>6. IsFiniteSet(1..c) /\ Cardinality(1..c) = c
    <2>1. /\ IsFiniteSet(1..c)
          /\ Cardinality(1..c) = IF 1 > c THEN 0 ELSE c - 1 + 1
      <3> HIDE DEF c
      <3>1. 1 \in Int /\ c \in Int
        BY <1>1
      <3> QED BY <3>1, FS_Interval
    <2> HIDE DEF c
    <2> QED BY <1>1, <2>1
  <1>7. f \in Surjection(K, 1..c)
    <2>1. Cardinality(K) = Cardinality(1..c)
      BY <1>6
    <2> HIDE DEF f
    <2> QED BY <1>5, <1>6, <2>1, FS_Injection
  <1>8. \A n \in 1..c : \E i \in K : f[i] = n
    <2> HIDE DEF f
    <2> QED BY <1>7, Fun_SurjectionProperties
  <1> QED BY <1>1, <1>2, <1>4, <1>8

LEMMA WithoutFacts ==
    ASSUME NEW S, NEW q \in Seq(S), NEW T
    PROVE  /\ Without(q, T) \in Seq(S) /\ Len(Without(q, T)) <= Len(q)
           /\ ToSet(Without(q, T)) = ToSet(q) \ T
           /\ NoDups(q) => NoDups(Without(q, T))
           /\ ToSet(q) \cap T # {} => Len(Without(q, T)) < Len(q)
  <1> DEFINE m == Len(q)
             K == Kept(q, T)
             c == Cardinality(K)
             at(n) == CHOOSE i \in K : Cardinality(K \cap 1..i) = n
             p == Without(q, T)
  <1>1. m \in Nat /\ DOMAIN q = 1..m /\ K = {i \in 1..m : q[i] \notin T}
    BY DEF Kept
  <1>2. K \subseteq 1..m
    BY <1>1
  <1>3. /\ IsFiniteSet(K) /\ c \in Nat /\ c <= m
        /\ \A i \in K : Cardinality(K \cap 1..i) \in 1..c
        /\ \A i, j \in K : Cardinality(K \cap 1..i) = Cardinality(K \cap 1..j) => i = j
        /\ \A n \in 1..c : \E i \in K : Cardinality(K \cap 1..i) = n
    <2> HIDE DEF K, m
    <2>1. m \in Nat /\ K \subseteq 1..m
      BY <1>1, <1>2
    <2> QED BY ONLY <2>1, Ranks, Zenon
  <1>4. p = [n \in 1..c |-> q[at(n)]]
    BY DEF Without
  <1> HIDE DEF K, p
  <1>5. \A n \in 1..c : at(n) \in K /\ Cardinality(K \cap 1..at(n)) = n
    BY <1>3
  <1>6. \A i \in K : Cardinality(K \cap 1..i) \in 1..c /\ at(Cardinality(K \cap 1..i)) = i
    BY <1>3
  <1> HIDE DEF at, c, m
  <1>7. p \in [1..c -> S] /\ p \in Seq(S) /\ Len(p) = c /\ DOMAIN p = 1..c
    <2>1. \A i \in 1..m : q[i] \in S
      BY DEF m
    <2>2. \A n \in 1..c : q[at(n)] \in S
      BY <1>2, <1>5, <2>1
    <2>3. p \in [1..c -> S]
      BY <1>4, <2>2
    <2> QED BY <1>3, <2>3
  <1>8. ToSet(p) = ToSet(q) \ T
    <2>1. ASSUME NEW n \in 1..c PROVE p[n] \in ToSet(q) \ T
      BY <1>1, <1>4, <1>5 DEF ToSet
    <2>2. ASSUME NEW i \in 1..m, q[i] \notin T PROVE \E n \in 1..c : p[n] = q[i]
      <3>1. i \in K
        BY <1>1, <2>2
      <3> QED BY <1>4, <1>6, <3>1
    <2> QED BY <1>1, <1>7, <2>1, <2>2 DEF ToSet
  <1>9. ASSUME NoDups(q) PROVE NoDups(p)
    <2>1. ASSUME NEW a \in 1..c, NEW b \in 1..c, p[a] = p[b] PROVE a = b
      <3>1. q[at(a)] = q[at(b)] /\ at(a) \in DOMAIN q /\ at(b) \in DOMAIN q
        BY <1>1, <1>2, <1>4, <1>5, <2>1
      <3>2. at(a) = at(b)
        BY <1>9, <3>1 DEF NoDups
      <3>3. Cardinality(K \cap 1..at(a)) = a /\ Cardinality(K \cap 1..at(b)) = b
        BY <1>5
      <3> QED BY <3>2, <3>3
    <2> QED BY <1>7, <2>1 DEF NoDups
  <1>10. ASSUME ToSet(q) \cap T # {} PROVE c < m
    <2>1. PICK i \in 1..m : q[i] \in T
      BY <1>1, <1>10 DEF ToSet
    <2>2. i \notin K /\ K \in SUBSET (1..m)
      BY <1>1, <2>1
    <2>3. IsFiniteSet(1..m) /\ Cardinality(1..m) = m
      <3>1. /\ IsFiniteSet(1..m)
            /\ Cardinality(1..m) = IF 1 > m THEN 0 ELSE m - 1 + 1
        BY <1>1, FS_Interval
      <3> QED BY <1>1, <3>1
    <2>4. c # m
      BY <2>2, <2>3, FS_Subset DEF c
    <2> QED BY <1>1, <1>3, <2>4
  <1> QED BY <1>3, <1>7, <1>8, <1>9, <1>10 DEF p, m

\* LruCache::put.
LEMMA PutFacts ==
    ASSUME NEW S, NEW q \in Seq(S), NEW t \in S, NEW cap \in Nat, cap # 0, Len(q) <= cap
    PROVE  /\ Put(q, t, cap) \in Seq(S) /\ Len(Put(q, t, cap)) <= cap
           /\ NoDups(q) => /\ NoDups(Put(q, t, cap))
                           /\ ToSet(Put(q, t, cap)) = (ToSet(q) \ Evicted(q, t, cap)) \cup {t}
           /\ ToSet(Put(q, t, cap)) \subseteq ToSet(q) \cup {t}
           /\ t \in ToSet(Put(q, t, cap)) /\ t \notin Evicted(q, t, cap)
  <1>0. Len(q) \in Nat
    OBVIOUS
  <1>1. CASE t \notin ToSet(q) /\ Len(q) = cap
    <2> DEFINE r == Tail(q)
    <2>1. q # << >>
      BY <1>1, EmptyFacts
    <2>2. /\ r \in Seq(S) /\ ToSet(q) = ToSet(r) \cup {Head(q)} /\ Len(r) = Len(q) - 1
          /\ NoDups(q) => NoDups(r) /\ Head(q) \notin ToSet(r)
      BY <2>1, TailFacts
    <2>3. Put(q, t, cap) = Append(r, t) /\ Evicted(q, t, cap) = {Head(q)}
      BY <1>1 DEF Put, Evicted
    <2> HIDE DEF r
    <2>4. /\ Append(r, t) \in Seq(S) /\ ToSet(Append(r, t)) = ToSet(r) \cup {t}
          /\ Len(Append(r, t)) = Len(r) + 1
          /\ NoDups(r) /\ t \notin ToSet(r) => NoDups(Append(r, t))
      BY <2>2, AppendFacts
    <2>5. Len(Append(r, t)) <= cap
      BY <1>0, <1>1, <2>2, <2>4
    <2>6. t # Head(q)
      BY <1>1, <2>2
    <2> QED BY <1>1, <2>2, <2>3, <2>4, <2>5, <2>6
  <1>2. CASE ~(t \notin ToSet(q) /\ Len(q) = cap)
    <2> DEFINE r == Without(q, {t})
    <2>1. /\ r \in Seq(S) /\ ToSet(r) = ToSet(q) \ {t} /\ Len(r) <= Len(q)
          /\ NoDups(q) => NoDups(r)
          /\ ToSet(q) \cap {t} # {} => Len(r) < Len(q)
      BY WithoutFacts
    <2>2. Put(q, t, cap) = Append(r, t) /\ Evicted(q, t, cap) = {}
      BY <1>2 DEF Put, Evicted
    <2> HIDE DEF r
    <2>3. /\ Append(r, t) \in Seq(S) /\ ToSet(Append(r, t)) = ToSet(r) \cup {t}
          /\ Len(Append(r, t)) = Len(r) + 1
          /\ NoDups(r) /\ t \notin ToSet(r) => NoDups(Append(r, t))
      BY <2>1, AppendFacts
    <2>4. Len(r) \in Nat /\ (t \in ToSet(q) => Len(r) < Len(q))
      BY <2>1
    <2>5. Len(Append(r, t)) <= cap
      BY <1>0, <1>2, <2>1, <2>3, <2>4
    <2> QED BY <2>1, <2>2, <2>3, <2>5
  <1> QED BY <1>1, <1>2

\* The first n elements and the others.
LEMMA FirstFacts ==
    ASSUME NEW S, NEW q \in Seq(S), NEW n \in 0..Len(q)
    PROVE  /\ First(q, n) \in Seq(S) /\ Rest(q, n) \in Seq(S)
           /\ ToSet(q) = ToSet(First(q, n)) \cup ToSet(Rest(q, n))
           /\ NoDups(q) => NoDups(First(q, n))
           /\ n # 0 => First(q, n) # << >>
  <1> DEFINE m == Len(q)
             f == First(q, n)
             r == Rest(q, n)
  <1>0. m \in Nat /\ n \in Nat /\ n <= m /\ DOMAIN q = 1..m /\ \A i \in 1..m : q[i] \in S
    OBVIOUS
  <1>1. f \in Seq(S) /\ Len(f) = n /\ DOMAIN f = 1..n /\ \A i \in 1..n : f[i] = q[i]
    <2>1. 1 \in Int /\ n \in Int /\ \A i \in 1..n : q[i] \in S
      BY <1>0
    <2>2. /\ SubSeq(q, 1, n) \in Seq(S)
          /\ Len(SubSeq(q, 1, n)) = IF 1 <= n THEN n - 1 + 1 ELSE 0
          /\ \A i \in 1..(n - 1 + 1) : SubSeq(q, 1, n)[i] = q[1 + i - 1]
      BY <2>1, SubSeqProperties
    <2>3. f = SubSeq(q, 1, n)
      BY DEF First
    <2> HIDE DEF f
    <2>4. n - 1 + 1 = n /\ \A i \in 1..n : 1 + i - 1 = i
      BY <1>0
    <2> QED BY <1>0, <2>2, <2>3, <2>4
  <1>2. r \in Seq(S) /\ Len(r) = m - n /\ DOMAIN r = 1..(m - n)
        /\ \A i \in 1..(m - n) : r[i] = q[n + i]
    <2>1. n + 1 \in Int /\ m \in Int /\ \A i \in (n + 1)..m : q[i] \in S
      BY <1>0
    <2>2. /\ SubSeq(q, n + 1, m) \in Seq(S)
          /\ Len(SubSeq(q, n + 1, m)) = IF n + 1 <= m THEN m - (n + 1) + 1 ELSE 0
          /\ \A i \in 1..(m - (n + 1) + 1) : SubSeq(q, n + 1, m)[i] = q[(n + 1) + i - 1]
      BY <2>1, SubSeqProperties
    <2>3. r = SubSeq(q, n + 1, m)
      BY DEF Rest
    <2> HIDE DEF r, m
    <2>4. /\ m - (n + 1) + 1 = m - n /\ \A i \in 1..(m - n) : (n + 1) + i - 1 = n + i
          /\ m - n \in Nat
      BY <1>0
    <2>5. Len(r) = m - n
      BY <1>0, <2>2, <2>3
    <2> QED BY <1>0, <2>2, <2>3, <2>4, <2>5
  <1> HIDE DEF f, r, m
  <1>3. ASSUME NEW i \in 1..m
        PROVE  (i \in 1..n /\ f[i] = q[i]) \/ (i - n \in 1..(m - n) /\ r[i - n] = q[i])
    <2>1. CASE i <= n
      <3>1. i \in 1..n
        BY <1>0, <2>1
      <3> QED BY <1>1, <3>1
    <2>2. CASE ~(i <= n)
      <3>1. i - n \in 1..(m - n) /\ n + (i - n) = i
        BY <1>0, <2>2
      <3>2. r[i - n] = q[n + (i - n)]
        BY <1>2, <3>1
      <3> QED BY <3>1, <3>2
    <2> QED BY <2>1, <2>2
  <1>4. ToSet(q) \subseteq ToSet(f) \cup ToSet(r)
    BY <1>0, <1>1, <1>2, <1>3 DEF ToSet
  <1>5. ToSet(f) \subseteq ToSet(q)
    <2>1. \A i \in 1..n : i \in 1..m /\ f[i] = q[i]
      BY <1>0, <1>1
    <2> QED BY <1>0, <1>1, <2>1 DEF ToSet
  <1>6. ToSet(r) \subseteq ToSet(q)
    <2>1. \A i \in 1..(m - n) : n + i \in 1..m /\ r[i] = q[n + i]
      BY <1>0, <1>2
    <2> QED BY <1>0, <1>2, <2>1 DEF ToSet
  <1>7. NoDups(q) => NoDups(f)
    <2>1. \A i \in 1..n : i \in 1..m /\ f[i] = q[i]
      BY <1>0, <1>1
    <2> QED BY <1>0, <1>1, <2>1 DEF NoDups
  <1>8. n # 0 => f # << >>
    BY <1>1, EmptyFacts
  <1> QED BY <1>1, <1>2, <1>4, <1>5, <1>6, <1>7, <1>8 DEF f, r

\* The elements of a sequence are finitely many.
LEMMA FiniteElements ==
    ASSUME NEW S, NEW q \in Seq(S)
    PROVE  IsFiniteSet(ToSet(q))
  <1> DEFINE m == Len(q)
             f == [i \in 1..m |-> q[i]]
  <1>1. m \in Nat /\ ToSet(q) = {q[i] : i \in 1..m}
    BY ToSetFacts
  <1>2. IsFiniteSet(1..m)
    BY <1>1, FS_Interval
  <1> HIDE DEF m
  <1>3. f \in [1..m -> ToSet(q)] /\ \A t \in ToSet(q) : \E i \in 1..m : f[i] = t
    BY <1>1
  <1> HIDE DEF f
  <1>4. f \in Surjection(1..m, ToSet(q))
    BY <1>3, Fun_IsSurj
  <1> QED BY <1>2, <1>4, FS_Surjection

\* A finite set as a sequence.
LEMMA SetToSeqFacts ==
    ASSUME NEW B, IsFiniteSet(B)
    PROVE  /\ SetToSeq(B) \in Seq(B) /\ ToSet(SetToSeq(B)) \subseteq B /\ NoDups(SetToSeq(B))
           /\ B # {} => SetToSeq(B) # << >>
  <1> DEFINE c == Cardinality(B)
             s == SetToSeq(B)
  <1>1. c \in Nat /\ ExistsBijection(1..c, B)
    BY FS_CardinalityType
  <1>2. PICK g \in Bijection(1..c, B) : TRUE
    BY <1>1, Fun_ExistsBij
  <1>3. g \in [1..c -> B] /\ \A a, b \in 1..c : g[a] = g[b] => a = b
    BY <1>2, Fun_BijectionProperties
  <1>4. \E f \in [1..c -> B] : IsInjective(f)
    <2>1. IsInjective(g)
      BY <1>3 DEF IsInjective
    <2> QED BY <1>3, <2>1
  <1>5. s \in [1..c -> B] /\ IsInjective(s)
    BY <1>4 DEF SetToSeq
  <1> HIDE DEF s
  <1>6. s \in Seq(B) /\ Len(s) = c /\ DOMAIN s = 1..c
    BY <1>1, <1>5
  <1>7. NoDups(s)
    BY <1>5 DEF NoDups, IsInjective
  <1>8. B # {} => c # 0
    BY FS_EmptySet
  <1>9. B # {} => s # << >>
    BY <1>6, <1>8, EmptyFacts
  <1> QED BY <1>6, <1>7, <1>9, ToSetFacts DEF s


-----------------------------------------------------------------------------
(* Types and stages.  TypeOK is not inductive: what a task or a handler    *)
(* reads at its next step is there because of the stage it is in.          *)

Queues == {"solutions_queue", "deployments", "executions"}

SeenInv ==
    /\ seen \in [Class -> Seq(ID)]
    /\ \A c \in Class : Len(seen[c]) <= SeenCapacity /\ NoDups(seen[c])

QueueInv ==
    /\ queue \in [Queues -> Seq(ID)]
    /\ \A k \in Queues :
          /\ Len(queue[k]) <= QueueCapacity /\ NoDups(queue[k])
          /\ \A t \in ToSet(queue[k]) : QueueOf(t) = k

\* A task has something in hand exactly while it is queueing or sending it.
TaskInv ==
    /\ pc \in [Task -> {"idle", "enqueue", "sending", "clear_queue", "clear_worker"} \cup Class]
    /\ todo \in [Task -> Seq(ID)]
    /\ \A task \in Task :
          /\ NoDups(todo[task])
          /\ pc[task] \in {"enqueue", "sending"} <=> todo[task] # << >>
          /\ pc[task] = "enqueue" => task \in Client /\ Len(todo[task]) = 1
          /\ pc[task] \in {"clear_queue", "clear_worker"} => task = "consensus"
    /\ pc["consensus"] \notin Class

\* What a handler checks is what a task is sending, and never what a refused block sends
\* back: that is still stored.
CheckingInv ==
    /\ checking \in [Class -> Task \cup {NoTask}]
    /\ \A class \in Class : checking[class] # NoTask =>
          /\ pc[checking[class]] = "sending" /\ checking[class] # "consensus"
          /\ ClassOf(Head(todo[checking[class]])) = class

ReadyInv == ready \in Seq(ID) /\ NoDups(ready)

ProposerInv ==
    /\ stage \in {"idle", "drain", "check", "store", "failed"}
    /\ popped \in Seq(ID) /\ batch \in Seq(ID) /\ NoDups(batch) /\ Len(batch) <= BatchLimit
    /\ proposal_cost \in 0..SpendLimit
    /\ stage = "check" => popped # << >> /\ Len(popped) = 1 /\ Len(batch) < BatchLimit
    /\ stage # "check" => popped = << >>

\* A committed batch is in the ledger, and what a refused block sends back is uncommitted.
CommitInv ==
    /\ uncommitted \in Seq(SUBSET ID) /\ committed \in Seq(SUBSET ID)
    /\ ledger \in Seq(SUBSET ID)
    /\ \A b \in ToSet(uncommitted) : IsFiniteSet(b)
    /\ UNION ToSet(committed) \subseteq Ledger
    /\ ToSet(todo["consensus"]) \subseteq UNION ToSet(uncommitted)

BoundInv == owed \subseteq ID /\ faults \in 0..MaxFaults /\ epochs \in 0..MaxEpochs

StageInv ==
    /\ SeenInv /\ QueueInv /\ TaskInv /\ CheckingInv /\ ReadyInv /\ ProposerInv
    /\ CommitInv /\ BoundInv

LEMMA StageTypes == StageInv => TypeOK
  <1> SUFFICES ASSUME StageInv PROVE TypeOK
    OBVIOUS
  <1> USE DEF StageInv
  <1>1. DOMAIN queue = Queues
    BY DEF QueueInv
  <1> QED BY <1>1 DEF TypeOK, SeenInv, QueueInv, TaskInv, CheckingInv, ReadyInv, ProposerInv,
                      CommitInv, BoundInv, Queues

\* The constants.
LEMMA Basics ==
    /\ "consensus" \in Task /\ "interval" \in Task /\ Client \subseteq Task
    /\ "consensus" \notin Client /\ "interval" \notin Client /\ NoTask \notin Task
    /\ \A t \in ID : ClassOf(t) \in Class /\ QueueOf(t) \in Queues
    /\ QueueCapacity \in Nat /\ QueueCapacity # 0 /\ SeenCapacity \in Nat /\ SeenCapacity # 0
    /\ MaxSolutions \in Nat /\ Tolerance \in Nat /\ BatchLimit \in Nat /\ BatchLimit # 0
    /\ SpendLimit \in Nat /\ MaxFaults \in Nat /\ MaxEpochs \in Nat
  BY MempoolAssumption DEF Task, ClassOf, QueueOf, Class, Queues

LEMMA DoneFacts ==
    ASSUME NEW task \in Task, NEW class \in Class
    PROVE  /\ Done(task, class) \in {"idle"} \cup Class
           /\ task = "consensus" => Done(task, class) = "idle"
  BY DEF Done, Class

LEMMA StageInit == Init => StageInv
  <1> SUFFICES ASSUME Init PROVE StageInv
    OBVIOUS
  <1> USE Basics, EmptyFacts
  <1>1. SeenInv /\ ReadyInv /\ BoundInv
    BY DEF Init, SeenInv, ReadyInv, BoundInv
  <1>2. QueueInv
    <2>1. queue = [k \in Queues |-> << >>]
      BY DEF Init, Queues
    <2> QED BY <2>1 DEF QueueInv
  <1>3. TaskInv
    BY DEF Init, TaskInv, Class
  <1>4. CheckingInv
    BY DEF Init, CheckingInv
  <1>5. ProposerInv
    BY DEF Init, ProposerInv
  <1>6. CommitInv
    BY DEF Init, CommitInv, Ledger
  <1> QED BY <1>1, <1>2, <1>3, <1>4, <1>5, <1>6 DEF StageInv

-----------------------------------------------------------------------------
(* The steps of the tasks.                                                   *)

\* A task that is not the consensus task and that no handler checks goes on.
LEMMA TaskMoves ==
    ASSUME TaskInv, CheckingInv, CommitInv, NEW c \in Task, c # "consensus",
           \A class \in Class : checking[class] # c,
           NEW p, NEW s, s \in Seq(ID), NoDups(s),
           p \in {"idle", "enqueue", "sending"} \cup Class,
           p \in {"enqueue", "sending"} <=> s # << >>,
           p = "enqueue" => c \in Client /\ Len(s) = 1,
           pc' = [pc EXCEPT ![c] = p], todo' = [todo EXCEPT ![c] = s],
           UNCHANGED <<checking, storageVars>>
    PROVE  TaskInv' /\ CheckingInv' /\ CommitInv'
  <1>1. TaskInv'
    <2>1. /\ pc' \in [Task -> {"idle", "enqueue", "sending", "clear_queue", "clear_worker"} \cup Class]
          /\ todo' \in [Task -> Seq(ID)]
          /\ pc'["consensus"] = pc["consensus"]
          /\ pc'[c] = p /\ todo'[c] = s
          /\ \A d \in Task \ {c} : pc'[d] = pc[d] /\ todo'[d] = todo[d]
      BY Basics DEF TaskInv
    <2>2. p \notin {"clear_queue", "clear_worker"}
      BY DEF Class
    <2> QED BY <2>1, <2>2 DEF TaskInv
  <1>2. CheckingInv'
    BY DEF CheckingInv, TaskInv
  <1>3. CommitInv'
    BY Basics DEF CommitInv, TaskInv, storageVars, Ledger
  <1> QED BY <1>1, <1>2, <1>3

LEMMA SubmitKeeps ==
    ASSUME StageInv, NEW c \in Client, NEW t \in ID, Submit(c, t)
    PROVE  StageInv'
  <1> USE DEF StageInv
  <1>1. SeenInv'
    <2> DEFINE k == ClassOf(t)
               p == Put(seen[k], t, SeenCapacity)
    <2>1. k \in Class /\ seen[k] \in Seq(ID) /\ Len(seen[k]) <= SeenCapacity /\ NoDups(seen[k])
      BY Basics DEF SeenInv
    <2>2. p \in Seq(ID) /\ Len(p) <= SeenCapacity /\ NoDups(p)
      <3> HIDE DEF k
      <3> QED BY <2>1, Basics, PutFacts
    <2>3. seen' = [seen EXCEPT ![k] = p]
      BY DEF Submit
    <2> HIDE DEF p, k
    <2> QED BY <2>1, <2>2, <2>3 DEF SeenInv
  <1>2. TaskInv' /\ CheckingInv' /\ CommitInv'
    <2>1. CASE t \in ToSet(seen[ClassOf(t)])
      BY <2>1 DEF Submit, TaskInv, CheckingInv, CommitInv, storageVars, Ledger
    <2>2. CASE t \notin ToSet(seen[ClassOf(t)])
      <3>1. /\ pc' = [pc EXCEPT ![c] = "enqueue"] /\ todo' = [todo EXCEPT ![c] = <<t>>]
            /\ UNCHANGED <<checking, storageVars>>
        BY <2>2 DEF Submit
      <3>2. <<t>> \in Seq(ID) /\ NoDups(<<t>>) /\ <<t>> # << >> /\ Len(<<t>>) = 1
        BY SingleFacts
      <3>3. c \in Task /\ c # "consensus"
        BY Basics
      <3>4. \A class \in Class : checking[class] # c
        <4>1. pc[c] = "idle"
          BY DEF Submit
        <4> QED BY <3>3, <4>1, Basics DEF CheckingInv
      <3> QED BY <3>1, <3>2, <3>3, <3>4, TaskMoves
    <2> QED BY <2>1, <2>2
  <1>3. QueueInv' /\ ReadyInv' /\ ProposerInv' /\ BoundInv'
    BY DEF Submit, QueueInv, ReadyInv, ProposerInv, BoundInv, proposerVars, bounds
  <1> QED BY <1>1, <1>2, <1>3

LEMMA EnqueueKeeps ==
    ASSUME StageInv, NEW c \in Client, Enqueue(c)
    PROVE  StageInv'
  <1> USE DEF StageInv
  <1> DEFINE t == Head(todo[c])
             k == QueueOf(t)
             p == Put(queue[k], t, QueueCapacity)
  <1>1. c \in Task /\ c # "consensus" /\ pc[c] = "enqueue" /\ todo[c] \in Seq(ID) /\ todo[c] # << >>
    BY Basics DEF Enqueue, TaskInv
  <1>2. t \in ID /\ k \in Queues /\ ClassOf(t) \in Class
    BY <1>1, TailFacts, Basics
  <1> HIDE DEF t, k
  <1>3. queue[k] \in Seq(ID) /\ Len(queue[k]) <= QueueCapacity /\ NoDups(queue[k])
    BY <1>2 DEF QueueInv
  <1>4. /\ p \in Seq(ID) /\ Len(p) <= QueueCapacity /\ NoDups(p)
        /\ ToSet(p) \subseteq ToSet(queue[k]) \cup {t}
    BY <1>2, <1>3, Basics, PutFacts
  <1>5. /\ todo' = [todo EXCEPT ![c] = << >>]
        /\ \/ /\ pc' = [pc EXCEPT ![c] = "idle"] /\ UNCHANGED <<queue, owed>>
           \/ /\ queue' = [queue EXCEPT ![k] = p]
              /\ owed' = (owed \cup {t}) \ Evicted(queue[k], t, QueueCapacity)
              /\ \/ pc' = [pc EXCEPT ![c] = "idle"]
                 \/ pc' = [pc EXCEPT ![c] = ClassOf(t)]
        /\ UNCHANGED <<seen, checking, ready, proposerVars, storageVars, bounds>>
    BY DEF Enqueue, t, k
  <1>6. QueueInv'
    <2> HIDE DEF p
    <2>1. CASE UNCHANGED queue
      BY <2>1 DEF QueueInv
    <2>2. CASE queue' = [queue EXCEPT ![k] = p]
      <3>1. \A x \in ToSet(p) : QueueOf(x) = k
        BY <1>2, <1>4 DEF QueueInv, k
      <3> QED BY <1>2, <1>4, <2>2, <3>1 DEF QueueInv
    <2> QED BY <1>5, <2>1, <2>2
  <1>7. TaskInv' /\ CheckingInv' /\ CommitInv'
    <2>1. \A class \in Class : checking[class] # c
      BY <1>1, Basics DEF CheckingInv
    <2>2. PICK q \in {"idle"} \cup Class : pc' = [pc EXCEPT ![c] = q]
      BY <1>2, <1>5
    <2>3. q \notin {"enqueue", "sending"}
      BY DEF Class
    <2> QED BY <1>1, <1>5, <2>1, <2>2, <2>3, EmptyFacts, TaskMoves
  <1>8. SeenInv' /\ ReadyInv' /\ ProposerInv' /\ BoundInv'
    BY <1>2, <1>5 DEF SeenInv, ReadyInv, ProposerInv, BoundInv, proposerVars, bounds
  <1> QED BY <1>6, <1>7, <1>8


\* What Process takes from the queues of consensus.
Taken(class) ==
    LET n == Lower(Len(queue["solutions_queue"]), MaxSolutions - NumSolutions)
        d == Lower(Len(queue["deployments"]), 1)
        e == Lower(Len(queue["executions"]), Tolerance - Len(ready) - d)
    IN  IF Full(class) THEN << >>
        ELSE IF class = "solution" THEN First(queue["solutions_queue"], n)
        ELSE First(queue["deployments"], d) \o First(queue["executions"], e)

LEMMA TakenFacts ==
    ASSUME QueueInv, ReadyInv, NEW class \in Class
    PROVE  /\ Taken(class) \in Seq(ID) /\ NoDups(Taken(class))
           /\ ToSet(Taken(class)) \subseteq UNION {ToSet(queue[k]) : k \in Queues}
  <1> DEFINE s == queue["solutions_queue"]
             x == queue["deployments"]
             y == queue["executions"]
             n == Lower(Len(s), MaxSolutions - NumSolutions)
             d == Lower(Len(x), 1)
             e == Lower(Len(y), Tolerance - Len(ready) - d)
  <1>1. /\ s \in Seq(ID) /\ NoDups(s) /\ x \in Seq(ID) /\ NoDups(x) /\ y \in Seq(ID) /\ NoDups(y)
        /\ \A t \in ToSet(x) : QueueOf(t) = "deployments"
        /\ \A t \in ToSet(y) : QueueOf(t) = "executions"
        /\ {ToSet(s), ToSet(x), ToSet(y)} \subseteq {ToSet(queue[k]) : k \in Queues}
    BY DEF QueueInv, Queues
  <1>2. CASE Full(class)
    BY <1>2, EmptyFacts DEF Taken
  <1>3. CASE ~Full(class) /\ class = "solution"
    <2>1. NumSolutions \in Nat /\ ~(NumSolutions >= MaxSolutions)
      <3>1. IsFiniteSet(ToSet(ready) \cap Solution)
        BY FiniteElements, FS_Intersection DEF ReadyInv
      <3>2. NumSolutions \in Nat
        BY <3>1, FS_CardinalityType DEF NumSolutions
      <3> QED BY <1>3, <3>2 DEF Full
    <2>2. n \in 0..Len(s)
      <3>1. Len(s) \in Nat
        BY <1>1
      <3> HIDE DEF s
      <3> QED BY <2>1, <3>1, Basics DEF Lower
    <2>3. Taken(class) = First(s, n)
      BY <1>3 DEF Taken
    <2>4. First(s, n) \in Seq(ID) /\ NoDups(First(s, n)) /\ ToSet(First(s, n)) \subseteq ToSet(s)
      <3> HIDE DEF s, n
      <3> QED BY <1>1, <2>2, FirstFacts
    <2> HIDE DEF s, n
    <2> QED BY <1>1, <2>3, <2>4
  <1>4. CASE ~Full(class) /\ class # "solution"
    <2>1. Len(ready) \in Nat /\ ~(Len(ready) >= Tolerance)
      BY <1>4 DEF Full, ReadyInv
    <2>2. d \in 0..Len(x) /\ d <= 1
      <3>1. Len(x) \in Nat
        BY <1>1
      <3> HIDE DEF x
      <3> QED BY <3>1 DEF Lower
    <2>3. e \in 0..Len(y)
      <3>1. Len(y) \in Nat /\ Len(x) \in Nat
        BY <1>1
      <3> HIDE DEF x, y, d
      <3> QED BY <2>1, <2>2, <3>1, Basics DEF Lower
    <2>4. Taken(class) = First(x, d) \o First(y, e)
      BY <1>4 DEF Taken
    <2> DEFINE u == First(x, d)
               v == First(y, e)
    <2> HIDE DEF x, y, d, e
    <2>5. /\ u \in Seq(ID) /\ NoDups(u) /\ ToSet(u) \subseteq ToSet(x)
          /\ v \in Seq(ID) /\ NoDups(v) /\ ToSet(v) \subseteq ToSet(y)
      BY <1>1, <2>2, <2>3, FirstFacts
    <2>6. Taken(class) = u \o v
      BY <2>4
    <2> HIDE DEF u, v
    <2>7. ToSet(u) \cap ToSet(v) = {}
      <3>1. \A t \in ToSet(u) : QueueOf(t) = "deployments"
        BY <1>1, <2>5
      <3>2. \A t \in ToSet(v) : QueueOf(t) = "executions"
        BY <1>1, <2>5
      <3> QED BY <3>1, <3>2
    <2>8. u \o v \in Seq(ID) /\ ToSet(u \o v) = ToSet(u) \cup ToSet(v) /\ NoDups(u \o v)
      BY <2>5, <2>7, ConcatFacts
    <2> QED BY <1>1, <2>5, <2>6, <2>8
  <1> QED BY <1>2, <1>3, <1>4

LEMMA ProcessKeeps ==
    ASSUME StageInv, NEW task \in Task, Process(task)
    PROVE  StageInv'
  <1> USE DEF StageInv
  <1> DEFINE class == pc[task]
             taken == Taken(class)
  <1>1. /\ class \in Class /\ todo' = [todo EXCEPT ![task] = taken]
        /\ queue' = [k \in DOMAIN queue |-> Without(queue[k], ToSet(taken))]
        /\ pc' = [pc EXCEPT ![task] = IF taken = << >> THEN Done(task, class) ELSE "sending"]
        /\ UNCHANGED <<seen, checking, ready, proposerVars, storageVars, owed, bounds>>
    BY DEF Process, Taken
  <1>2. taken \in Seq(ID) /\ NoDups(taken)
    <2> HIDE DEF class
    <2> QED BY <1>1, TakenFacts
  <1>3. task # "consensus" /\ Done(task, class) \in {"idle"} \cup Class
    <2>1. task # "consensus"
      BY <1>1 DEF TaskInv
    <2> HIDE DEF class
    <2> QED BY <1>1, <2>1, DoneFacts
  <1>4. \A k \in Class : checking[k] # task
    <2>1. pc[task] # "sending"
      BY <1>1 DEF Class
    <2> QED BY <2>1, Basics DEF CheckingInv
  <1> HIDE DEF taken, class
  <1>5. TaskInv' /\ CheckingInv' /\ CommitInv'
    <2>1. PICK p : p = IF taken = << >> THEN Done(task, class) ELSE "sending"
      OBVIOUS
    <2>2. /\ p \in {"idle", "enqueue", "sending"} \cup Class /\ p # "enqueue"
          /\ p \in {"enqueue", "sending"} <=> taken # << >>
      BY <1>3, <2>1 DEF Class
    <2>3. pc' = [pc EXCEPT ![task] = p]
      BY <1>1, <2>1
    <2> QED BY <1>1, <1>2, <1>3, <1>4, <2>2, <2>3, TaskMoves
  <1>6. QueueInv'
    <2>1. DOMAIN queue = Queues
      BY DEF QueueInv
    <2>2. ASSUME NEW k \in Queues
          PROVE  /\ queue'[k] \in Seq(ID) /\ Len(queue'[k]) <= QueueCapacity /\ NoDups(queue'[k])
                 /\ \A t \in ToSet(queue'[k]) : QueueOf(t) = k
      <3>1. /\ queue[k] \in Seq(ID) /\ Len(queue[k]) <= QueueCapacity /\ NoDups(queue[k])
            /\ \A t \in ToSet(queue[k]) : QueueOf(t) = k
        BY DEF QueueInv
      <3> DEFINE w == Without(queue[k], ToSet(taken))
      <3>2. /\ w \in Seq(ID) /\ Len(w) <= Len(queue[k]) /\ NoDups(w)
            /\ ToSet(w) = ToSet(queue[k]) \ ToSet(taken)
        BY <3>1, WithoutFacts
      <3>3. queue'[k] = w
        BY <1>1, <2>1
      <3> HIDE DEF w
      <3>4. Len(w) <= QueueCapacity
        <4>1. Len(w) \in Nat /\ Len(queue[k]) \in Nat
          BY <3>1, <3>2
        <4> QED BY <3>1, <3>2, <4>1, Basics
      <3> QED BY <3>1, <3>2, <3>3, <3>4
    <2>3. queue' \in [Queues -> Seq(ID)]
      <3>1. DOMAIN queue' = Queues /\ queue' = [k \in Queues |-> queue'[k]]
        BY <1>1, <2>1
      <3> QED BY <2>2, <3>1
    <2> QED BY <2>2, <2>3 DEF QueueInv
  <1>7. SeenInv' /\ ReadyInv' /\ ProposerInv' /\ BoundInv'
    BY <1>1 DEF SeenInv, ReadyInv, ProposerInv, BoundInv, proposerVars, bounds
  <1> QED BY <1>5, <1>6, <1>7

-----------------------------------------------------------------------------
(* The steps of the handlers.                                                *)

\* The reply to a task: it has one transmission less to send.
LEMMA ReplyFacts ==
    ASSUME TaskInv, NEW task \in Task, pc[task] = "sending", Reply(task)
    PROVE  /\ TaskInv'
           /\ Head(todo[task]) \in ID
           /\ ToSet(todo[task]) = ToSet(todo'[task]) \cup {Head(todo[task])}
           /\ Head(todo[task]) \notin ToSet(todo'[task])
           /\ \A d \in Task \ {task} : pc'[d] = pc[d] /\ todo'[d] = todo[d]
           /\ DOMAIN todo' = DOMAIN todo
  <1> DEFINE t == Head(todo[task])
             r == Tail(todo[task])
             p == IF r = << >> THEN Done(task, ClassOf(t)) ELSE "sending"
  <1>1. todo[task] \in Seq(ID) /\ todo[task] # << >> /\ NoDups(todo[task])
    BY DEF TaskInv
  <1>2. /\ t \in ID /\ r \in Seq(ID) /\ ToSet(todo[task]) = ToSet(r) \cup {t}
        /\ NoDups(r) /\ t \notin ToSet(r)
    BY <1>1, TailFacts
  <1>3. todo' = [todo EXCEPT ![task] = r] /\ pc' = [pc EXCEPT ![task] = p]
    BY DEF Reply
  <1> HIDE DEF t, r
  <1>4. /\ p \in {"idle", "sending"} \cup Class
        /\ p = "sending" <=> r # << >>
        /\ task = "consensus" => p \notin Class
    <2>1. ClassOf(t) \in Class
      BY <1>2, Basics
    <2> QED BY <2>1, DoneFacts DEF Class
  <1>5. p \notin {"enqueue", "clear_queue", "clear_worker"}
    BY <1>4 DEF Class
  <1> HIDE DEF p
  <1>6. /\ pc'[task] = p /\ todo'[task] = r
        /\ \A d \in Task \ {task} : pc'[d] = pc[d] /\ todo'[d] = todo[d]
        /\ DOMAIN todo' = DOMAIN todo /\ todo' \in [Task -> Seq(ID)]
        /\ pc' \in [Task -> {"idle", "enqueue", "sending", "clear_queue", "clear_worker"} \cup Class]
    BY <1>2, <1>3, <1>4 DEF TaskInv
  <1>7. TaskInv'
    <2>1. \A d \in Task :
            /\ NoDups(todo'[d])
            /\ pc'[d] \in {"enqueue", "sending"} <=> todo'[d] # << >>
            /\ pc'[d] = "enqueue" => d \in Client /\ Len(todo'[d]) = 1
            /\ pc'[d] \in {"clear_queue", "clear_worker"} => d = "consensus"
      BY <1>2, <1>4, <1>5, <1>6 DEF TaskInv
    <2>2. pc'["consensus"] \notin Class
      BY <1>4, <1>6, Basics DEF TaskInv
    <2> QED BY <1>6, <2>1, <2>2 DEF TaskInv
  <1> QED BY <1>2, <1>6, <1>7 DEF t

\* A reply leaves the storage to the consensus task.
LEMMA ReplyCommit ==
    ASSUME TaskInv, CommitInv, NEW task \in Task, pc[task] = "sending", Reply(task),
           UNCHANGED storageVars
    PROVE  CommitInv'
  <1>1. ToSet(todo'["consensus"]) \subseteq ToSet(todo["consensus"])
    BY ReplyFacts, Basics
  <1> QED BY <1>1 DEF CommitInv, storageVars, Ledger

LEMMA ReceiveKeeps ==
    ASSUME StageInv, NEW class \in Class, Receive(class)
    PROVE  StageInv'
  <1> USE DEF StageInv
  <1>1. PICK task \in Task :
           /\ pc[task] = "sending" /\ ClassOf(Head(todo[task])) = class
           /\ \/ /\ ContainsTransmission(Head(todo[task])) /\ Reply(task) /\ UNCHANGED checking
              \/ /\ ~ContainsTransmission(Head(todo[task]))
                 /\ checking' = [checking EXCEPT ![class] = task] /\ UNCHANGED <<pc, todo>>
    BY DEF Receive
  <1>2. UNCHANGED <<seen, queue, ready, proposerVars, storageVars, owed, bounds>>
    BY DEF Receive
  <1>3. SeenInv' /\ QueueInv' /\ ReadyInv' /\ ProposerInv' /\ BoundInv'
    BY <1>2 DEF SeenInv, QueueInv, ReadyInv, ProposerInv, BoundInv, proposerVars, bounds
  <1>4. CASE Reply(task) /\ UNCHANGED checking
    <2>1. TaskInv' /\ \A d \in Task \ {task} : pc'[d] = pc[d] /\ todo'[d] = todo[d]
      BY <1>1, <1>4, ReplyFacts
    <2>2. CommitInv'
      BY <1>1, <1>2, <1>4, ReplyCommit
    <2>3. \A k \in Class : checking[k] # NoTask => checking[k] \in Task \ {task}
      <3>1. checking[class] = NoTask
        BY DEF Receive
      <3> QED BY <1>1, <3>1, Basics DEF CheckingInv
    <2>4. CheckingInv'
      BY <1>4, <2>1, <2>3 DEF CheckingInv
    <2> QED BY <1>3, <2>1, <2>2, <2>4
  <1>5. CASE /\ ~ContainsTransmission(Head(todo[task]))
             /\ checking' = [checking EXCEPT ![class] = task] /\ UNCHANGED <<pc, todo>>
    <2>1. TaskInv' /\ CommitInv'
      BY <1>2, <1>5 DEF TaskInv, CommitInv, storageVars, Ledger
    <2>2. task # "consensus"
      <3>1. Head(todo[task]) \in ToSet(todo[task])
        <4>1. todo[task] \in Seq(ID) /\ todo[task] # << >>
          BY <1>1 DEF TaskInv
        <4> QED BY <4>1, TailFacts
      <3>2. Head(todo[task]) \notin UNION ToSet(uncommitted)
        BY <1>5 DEF ContainsTransmission, Stored
      <3> QED BY <3>1, <3>2 DEF CommitInv
    <2>3. CheckingInv'
      BY <1>1, <1>5, <2>2 DEF CheckingInv
    <2> QED BY <1>3, <2>1, <2>3
  <1> QED BY <1>1, <1>4, <1>5

\* The end of a check, whatever its outcome.
LEMMA CheckEnds ==
    ASSUME StageInv, NEW class \in Class, checking[class] # NoTask, Reply(checking[class]),
           checking' = [checking EXCEPT ![class] = NoTask],
           UNCHANGED <<seen, queue, proposerVars, storageVars, bounds>>
    PROVE  /\ TaskInv' /\ CheckingInv' /\ CommitInv' /\ SeenInv' /\ QueueInv' /\ ProposerInv'
           /\ checking[class] \in Task \ {"consensus"} /\ pc[checking[class]] = "sending"
           /\ Head(todo[checking[class]]) \in ID
  <1> USE DEF StageInv
  <1> DEFINE task == checking[class]
  <1>1. /\ task \in Task /\ task # "consensus" /\ pc[task] = "sending"
        /\ ClassOf(Head(todo[task])) = class
    BY DEF CheckingInv
  <1>2. /\ TaskInv' /\ \A d \in Task \ {task} : pc'[d] = pc[d] /\ todo'[d] = todo[d]
        /\ Head(todo[task]) \in ID
    <2> HIDE DEF task
    <2>1. Reply(task)
      BY DEF task
    <2> QED BY <1>1, <2>1, ReplyFacts
  <1>3. CommitInv'
    <2> HIDE DEF task
    <2>1. Reply(task)
      BY DEF task
    <2> QED BY <1>1, <2>1, ReplyCommit
  <1>4. \A k \in Class : checking'[k] # NoTask =>
           checking'[k] = checking[k] /\ checking[k] \in Task \ {task}
    BY <1>1, Basics DEF CheckingInv
  <1>5. CheckingInv'
    BY <1>2, <1>4, Basics DEF CheckingInv
  <1>6. SeenInv' /\ QueueInv' /\ ProposerInv'
    BY DEF SeenInv, QueueInv, ProposerInv, proposerVars
  <1> QED BY <1>1, <1>2, <1>3, <1>5, <1>6

\* A transmission is inserted at the end, unless it is there.
LEMMA InsertFacts ==
    ASSUME ReadyInv, NEW t \in ID
    PROVE  /\ Insert(t) \in Seq(ID) /\ NoDups(Insert(t)) /\ ToSet(Insert(t)) = ToSet(ready) \cup {t}
           /\ InsertFront(t) \in Seq(ID) /\ NoDups(InsertFront(t))
           /\ ToSet(InsertFront(t)) = ToSet(ready) \cup {t}
  <1> USE DEF ReadyInv
  <1>1. CASE t \in ToSet(ready)
    BY <1>1 DEF Insert, InsertFront
  <1>2. CASE t \notin ToSet(ready)
    <2>1. /\ Append(ready, t) \in Seq(ID) /\ NoDups(Append(ready, t))
          /\ ToSet(Append(ready, t)) = ToSet(ready) \cup {t}
      BY <1>2, AppendFacts
    <2> DEFINE s == <<t>>
    <2>2. s \in Seq(ID) /\ NoDups(s) /\ ToSet(s) = {t}
      BY SingleFacts
    <2> HIDE DEF s
    <2>3. /\ s \o ready \in Seq(ID) /\ NoDups(s \o ready)
          /\ ToSet(s \o ready) = ToSet(ready) \cup {t}
      BY <1>2, <2>2, ConcatFacts
    <2> QED BY <1>2, <2>1, <2>3 DEF Insert, InsertFront, s
  <1> QED BY <1>1, <1>2

LEMMA CheckedKeeps ==
    ASSUME StageInv, NEW class \in Class, Checked(class)
    PROVE  StageInv'
  <1> USE DEF StageInv
  <1> DEFINE t == Head(todo[checking[class]])
  <1>1. /\ TaskInv' /\ CheckingInv' /\ CommitInv' /\ SeenInv' /\ QueueInv' /\ ProposerInv'
        /\ t \in ID
    BY CheckEnds DEF Checked
  <1>2. ready' = Insert(t)
    BY DEF Checked
  <1> HIDE DEF t
  <1>3. ReadyInv'
    BY <1>1, <1>2, InsertFacts DEF ReadyInv
  <1>4. BoundInv'
    BY DEF Checked, BoundInv, bounds
  <1> QED BY <1>1, <1>3, <1>4

LEMMA CheckFailsKeeps ==
    ASSUME StageInv, NEW class \in Class, CheckFails(class)
    PROVE  StageInv'
  <1> USE DEF StageInv
  <1>1. TaskInv' /\ CheckingInv' /\ CommitInv' /\ SeenInv' /\ QueueInv' /\ ProposerInv'
    BY CheckEnds DEF CheckFails
  <1>2. ReadyInv' /\ BoundInv'
    BY DEF CheckFails, ReadyInv, BoundInv, bounds
  <1> QED BY <1>1, <1>2


-----------------------------------------------------------------------------
(* The steps of the proposer.                                                *)

\* The proposer leaves consensus and the handlers alone.
LEMMA ProposerFrame ==
    ASSUME StageInv, UNCHANGED <<consensusVars, checking, storageVars, epochs>>
    PROVE  SeenInv' /\ QueueInv' /\ TaskInv' /\ CheckingInv' /\ CommitInv'
  BY DEF StageInv, SeenInv, QueueInv, TaskInv, CheckingInv, CommitInv, consensusVars,
         storageVars, Ledger

LEMMA StartKeeps ==
    ASSUME StageInv, StartBatch \/ NothingReady
    PROVE  StageInv'
  <1> USE DEF StageInv
  <1>1. SeenInv' /\ QueueInv' /\ TaskInv' /\ CheckingInv' /\ CommitInv'
    BY ProposerFrame DEF StartBatch, NothingReady, bounds
  <1>2. ReadyInv' /\ BoundInv'
    BY DEF StartBatch, NothingReady, ReadyInv, BoundInv, bounds
  <1>3. ProposerInv'
    BY DEF StartBatch, NothingReady, ProposerInv
  <1> QED BY <1>1, <1>2, <1>3

LEMMA RemoveFrontKeeps ==
    ASSUME StageInv, RemoveFront
    PROVE  StageInv'
  <1> USE DEF StageInv
  <1>1. SeenInv' /\ QueueInv' /\ TaskInv' /\ CheckingInv' /\ CommitInv'
    BY ProposerFrame DEF RemoveFront, bounds
  <1>2. /\ Head(ready) \in ID /\ Tail(ready) \in Seq(ID) /\ NoDups(Tail(ready))
    BY TailFacts DEF RemoveFront, ReadyInv
  <1>3. ReadyInv' /\ BoundInv'
    BY <1>2 DEF RemoveFront, ReadyInv, BoundInv, bounds
  <1>4. ProposerInv'
    <2> DEFINE t == Head(ready)
    <2>1. <<t>> \in Seq(ID) /\ <<t>> # << >> /\ Len(<<t>>) = 1
      BY <1>2, SingleFacts
    <2>2. /\ stage = "drain" /\ UNCHANGED <<batch, proposal_cost>>
          /\ \/ stage' \in {"drain", "store"} /\ UNCHANGED popped
             \/ ~(Len(batch) >= BatchLimit) /\ stage' = "check" /\ popped' = <<t>>
      BY DEF RemoveFront
    <2>3. Len(batch) \in Nat
      BY DEF ProposerInv
    <2>4. ~(Len(batch) >= BatchLimit) => Len(batch) < BatchLimit
      BY <2>3, Basics
    <2> HIDE DEF t
    <2> QED BY <2>1, <2>2, <2>4 DEF ProposerInv
  <1> QED BY <1>1, <1>3, <1>4

\* What Select does with the transmission: back to the front, or into the batch.
LEMMA SelectFacts ==
    ASSUME ProposerInv, ReadyInv, Select, NEW t, t = Head(popped)
    PROVE  /\ t \in ID /\ ToSet(popped) = {t} /\ popped' = << >>
           /\ \/ /\ ready' = InsertFront(t) /\ stage' = "store" /\ UNCHANGED <<batch, proposal_cost>>
              \/ /\ batch' \in Seq(ID) /\ NoDups(batch') /\ Len(batch') <= BatchLimit
                 /\ ToSet(batch') = ToSet(batch) \cup {t} /\ proposal_cost' \in 0..SpendLimit
                 /\ stage' = "drain" /\ UNCHANGED ready
  <1>1. popped \in Seq(ID) /\ popped # << >> /\ Len(popped) = 1 /\ Len(batch) < BatchLimit
    BY DEF Select, ProposerInv
  <1>2. t \in ID /\ ToSet(popped) = {t}
    <2>1. t \in ID /\ ToSet(popped) = ToSet(Tail(popped)) \cup {t} /\ Tail(popped) \in Seq(ID)
          /\ Len(Tail(popped)) = 0
      BY <1>1, TailFacts
    <2>2. Tail(popped) = << >>
      BY <2>1, EmptySeq
    <2> QED BY <2>1, <2>2, EmptyFacts
  <1>3. popped' = << >>
    BY DEF Select
  <1> DEFINE cost == IF t \in Solution THEN proposal_cost ELSE proposal_cost + 1
  <1>4. \/ /\ ready' = InsertFront(t) /\ stage' = "store" /\ UNCHANGED <<batch, proposal_cost>>
        \/ /\ ~(cost > SpendLimit)
           /\ batch' = IF t \in ToSet(batch) THEN batch ELSE Append(batch, t)
           /\ proposal_cost' = cost /\ stage' = "drain" /\ UNCHANGED ready
    BY DEF Select
  <1>5. cost \in Nat
    BY DEF ProposerInv
  <1>6. ~(cost > SpendLimit) => cost \in 0..SpendLimit
    <2> HIDE DEF cost
    <2> QED BY <1>5, Basics
  <1>7. ASSUME batch' = IF t \in ToSet(batch) THEN batch ELSE Append(batch, t)
        PROVE  /\ batch' \in Seq(ID) /\ NoDups(batch') /\ Len(batch') <= BatchLimit
               /\ ToSet(batch') = ToSet(batch) \cup {t}
    <2>1. batch \in Seq(ID) /\ NoDups(batch) /\ Len(batch) \in Nat /\ Len(batch) <= BatchLimit
      BY DEF ProposerInv
    <2>2. CASE t \in ToSet(batch)
      BY <1>7, <2>1, <2>2
    <2>3. CASE t \notin ToSet(batch)
      <3>1. batch' = Append(batch, t)
        BY <1>7, <2>3
      <3>2. /\ Append(batch, t) \in Seq(ID) /\ NoDups(Append(batch, t))
            /\ Len(Append(batch, t)) = Len(batch) + 1
            /\ ToSet(Append(batch, t)) = ToSet(batch) \cup {t}
        BY <1>2, <2>1, <2>3, AppendFacts
      <3>3. Len(batch) + 1 <= BatchLimit
        BY <1>1, <2>1, Basics
      <3> QED BY <3>1, <3>2, <3>3
    <2> QED BY <2>2, <2>3
  <1> HIDE DEF cost
  <1> QED BY <1>2, <1>3, <1>4, <1>6, <1>7

LEMMA SelectKeeps ==
    ASSUME StageInv, Select
    PROVE  StageInv'
  <1> USE DEF StageInv
  <1>1. SeenInv' /\ QueueInv' /\ TaskInv' /\ CheckingInv' /\ CommitInv'
    BY ProposerFrame DEF Select, bounds
  <1>2. BoundInv'
    BY DEF Select, BoundInv, bounds
  <1>3. PICK t : t = Head(popped)
    OBVIOUS
  <1>4. /\ t \in ID /\ popped' = << >>
        /\ \/ /\ ready' = InsertFront(t) /\ stage' = "store" /\ UNCHANGED <<batch, proposal_cost>>
           \/ /\ batch' \in Seq(ID) /\ NoDups(batch') /\ Len(batch') <= BatchLimit
              /\ ToSet(batch') = ToSet(batch) \cup {t} /\ proposal_cost' \in 0..SpendLimit
              /\ stage' = "drain" /\ UNCHANGED ready
    BY <1>3, SelectFacts
  <1>5. ReadyInv'
    BY <1>4, InsertFacts DEF ReadyInv
  <1>6. ProposerInv'
    BY <1>4, EmptyFacts DEF ProposerInv
  <1> QED BY <1>1, <1>2, <1>5, <1>6

LEMMA SkipKeeps ==
    ASSUME StageInv, Skip
    PROVE  StageInv'
  <1> USE DEF StageInv
  <1>1. SeenInv' /\ QueueInv' /\ TaskInv' /\ CheckingInv' /\ CommitInv'
    BY ProposerFrame DEF Skip, bounds
  <1>2. ReadyInv' /\ BoundInv'
    BY DEF Skip, ReadyInv, BoundInv, bounds
  <1>3. ProposerInv'
    BY EmptyFacts DEF Skip, ProposerInv
  <1> QED BY <1>1, <1>2, <1>3

LEMMA StoreKeeps ==
    ASSUME StageInv, Store
    PROVE  StageInv'
  <1> USE DEF StageInv
  <1>1. SeenInv' /\ QueueInv' /\ TaskInv' /\ CheckingInv' /\ ReadyInv' /\ BoundInv'
    BY DEF Store, SeenInv, QueueInv, TaskInv, CheckingInv, ReadyInv, BoundInv, consensusVars,
           bounds
  <1>2. ProposerInv'
    BY EmptyFacts, Basics DEF Store, EndBatch, ProposerInv
  <1>3. CommitInv'
    <2>1. ToSet(batch) \in SUBSET ID /\ IsFiniteSet(ToSet(batch))
      BY ToSetFacts, FiniteElements DEF ProposerInv
    <2> DEFINE B == ToSet(batch)
    <2>2. UNCHANGED <<committed, ledger, todo>>
      BY DEF Store, consensusVars
    <2>3. CASE UNCHANGED uncommitted
      BY <2>2, <2>3 DEF CommitInv, Ledger
    <2>4. CASE uncommitted' = Append(uncommitted, B)
      <3>1. uncommitted \in Seq(SUBSET ID)
        BY DEF CommitInv
      <3> HIDE DEF B
      <3>2. B \in SUBSET ID /\ IsFiniteSet(B)
        BY <2>1 DEF B
      <3>3. uncommitted' \in Seq(SUBSET ID) /\ ToSet(uncommitted') = ToSet(uncommitted) \cup {B}
        BY <2>4, <3>1, <3>2, AppendFacts
      <3>4. UNION ToSet(uncommitted) \subseteq UNION ToSet(uncommitted')
        BY <3>3
      <3> QED BY <2>2, <3>2, <3>3, <3>4 DEF CommitInv, Ledger
    <2> QED BY <2>3, <2>4 DEF Store
  <1> QED BY <1>1, <1>2, <1>3

\* What a batch that is not stored gives back.
LEMMA StoreFailsFacts ==
    ASSUME ReadyInv, ProposerInv, StoreFails
    PROVE  /\ ready' \in Seq(ID) /\ NoDups(ready')
           /\ ToSet(ready') = ToSet(ready) \cup {t \in ToSet(batch) : ~ContainsTransmission(t)}
  <1> DEFINE T == {t \in ID : ContainsTransmission(t)}
             w == Without(batch, T)
  <1>1. batch \in Seq(ID) /\ NoDups(batch) /\ ToSet(batch) \subseteq ID
    BY ToSetFacts DEF ProposerInv
  <1>2. w \in Seq(ID) /\ NoDups(w) /\ ToSet(w) = ToSet(batch) \ T
    <2> HIDE DEF T
    <2> QED BY <1>1, WithoutFacts
  <1>3. ready' = ready \o w
    BY DEF StoreFails
  <1> HIDE DEF w
  <1>4. ToSet(w) = {t \in ToSet(batch) : ~ContainsTransmission(t)}
    BY <1>1, <1>2
  <1>5. ToSet(ready) \cap ToSet(w) = {}
    BY <1>4 DEF ContainsTransmission
  <1> HIDE DEF T
  <1>6. /\ ready \o w \in Seq(ID) /\ NoDups(ready \o w)
        /\ ToSet(ready \o w) = ToSet(ready) \cup ToSet(w)
    BY <1>2, <1>5, ConcatFacts DEF ReadyInv
  <1> QED BY <1>3, <1>4, <1>6

LEMMA StoreFailsKeeps ==
    ASSUME StageInv, StoreFails
    PROVE  StageInv'
  <1> USE DEF StageInv
  <1>1. SeenInv' /\ QueueInv' /\ TaskInv' /\ CheckingInv' /\ CommitInv'
    BY ProposerFrame DEF StoreFails, Fault
  <1>2. ReadyInv'
    BY StoreFailsFacts DEF ReadyInv
  <1>3. ProposerInv'
    BY EmptyFacts, Basics DEF StoreFails, EndBatch, ProposerInv
  <1>4. BoundInv'
    BY Basics DEF StoreFails, Fault, BoundInv
  <1> QED BY <1>1, <1>2, <1>3, <1>4

LEMMA SigningFailsKeeps ==
    ASSUME StageInv, SigningFails
    PROVE  StageInv'
  <1> USE DEF StageInv
  <1>1. SeenInv' /\ QueueInv' /\ TaskInv' /\ CheckingInv' /\ CommitInv'
    BY ProposerFrame DEF SigningFails, Fault
  <1>2. ReadyInv'
    BY DEF SigningFails, ReadyInv
  <1>3. ProposerInv'
    BY EmptyFacts, Basics DEF SigningFails, EndBatch, ProposerInv
  <1>4. BoundInv'
    BY Basics DEF SigningFails, Fault, BoundInv
  <1> QED BY <1>1, <1>2, <1>3, <1>4

-----------------------------------------------------------------------------
(* The steps of a commit.                                                    *)

\* The transmissions of the oldest n batches are finitely many.
LEMMA BlockFacts ==
    ASSUME CommitInv, NEW n \in 0..Len(uncommitted)
    PROVE  /\ BlockOf(n) \in SUBSET ID /\ IsFiniteSet(BlockOf(n))
           /\ BlockOf(n) = (UNION ToSet(First(uncommitted, n))) \ Ledger
           /\ First(uncommitted, n) \in Seq(SUBSET ID) /\ Rest(uncommitted, n) \in Seq(SUBSET ID)
           /\ ToSet(uncommitted) = ToSet(First(uncommitted, n)) \cup ToSet(Rest(uncommitted, n))
  <1> DEFINE f == First(uncommitted, n)
             B == UNION ToSet(f)
  <1>1. /\ f \in Seq(SUBSET ID) /\ Rest(uncommitted, n) \in Seq(SUBSET ID)
        /\ ToSet(uncommitted) = ToSet(f) \cup ToSet(Rest(uncommitted, n))
    BY FirstFacts DEF CommitInv
  <1>2. BlockOf(n) = B \ Ledger
    BY DEF BlockOf
  <1> HIDE DEF f
  <1>3. ToSet(f) \subseteq SUBSET ID
    BY <1>1, ToSetFacts
  <1>4. IsFiniteSet(ToSet(f))
    BY <1>1, FiniteElements
  <1>5. \A b \in ToSet(f) : IsFiniteSet(b)
    BY <1>1 DEF CommitInv
  <1>6. IsFiniteSet(B)
    BY <1>4, <1>5, FS_UNION
  <1>7. B \subseteq ID
    BY <1>3
  <1> HIDE DEF B
  <1>8. B \ Ledger \in SUBSET B
    OBVIOUS
  <1>9. IsFiniteSet(B \ Ledger)
    BY <1>6, <1>8, FS_Subset
  <1> QED BY <1>1, <1>2, <1>7, <1>9 DEF f, B

\* The batches of a block are committed, and the ledger has what they hold.
LEMMA AdvanceFacts ==
    ASSUME CommitInv, NEW n \in 0..Len(uncommitted), NEW epoch, Advance(n, epoch)
    PROVE  /\ uncommitted' \in Seq(SUBSET ID) /\ committed' \in Seq(SUBSET ID)
           /\ ledger' \in Seq(SUBSET ID)
           /\ ToSet(uncommitted') \subseteq ToSet(uncommitted)
           /\ ToSet(uncommitted) \cup ToSet(committed) = ToSet(uncommitted') \cup ToSet(committed')
           /\ Ledger' = Ledger \cup BlockOf(n)
           /\ UNION ToSet(committed') \subseteq Ledger'
  <1> DEFINE f == First(uncommitted, n)
             r == Rest(uncommitted, n)
             B == BlockOf(n)
  <1>1. /\ B \in SUBSET ID /\ B = (UNION ToSet(f)) \ Ledger
        /\ f \in Seq(SUBSET ID) /\ r \in Seq(SUBSET ID)
        /\ ToSet(uncommitted) = ToSet(f) \cup ToSet(r)
    BY BlockFacts
  <1>2. /\ ledger' = IF B = {} THEN ledger ELSE Append(ledger, B)
        /\ uncommitted' = r /\ committed' = committed \o f
    BY DEF Advance
  <1> HIDE DEF f, r, B
  <1>3. ledger \in Seq(SUBSET ID) /\ committed \in Seq(SUBSET ID)
    BY DEF CommitInv
  <1>4. committed' \in Seq(SUBSET ID) /\ ToSet(committed') = ToSet(committed) \cup ToSet(f)
    BY <1>1, <1>2, <1>3, ConcatFacts
  <1>5. ledger' \in Seq(SUBSET ID) /\ Ledger' = Ledger \cup B
    <2>1. CASE B = {}
      BY <1>2, <1>3, <2>1 DEF Ledger
    <2>2. CASE B # {}
      <3>1. ledger' \in Seq(SUBSET ID) /\ ToSet(ledger') = ToSet(ledger) \cup {B}
        <4>1. ledger' = Append(ledger, B)
          BY <1>2, <2>2
        <4>2. /\ Append(ledger, B) \in Seq(SUBSET ID)
              /\ ToSet(Append(ledger, B)) = ToSet(ledger) \cup {B}
          <5> DEFINE S == SUBSET ID
          <5>1. B \in S /\ ledger \in Seq(S)
            BY <1>1, <1>3
          <5> HIDE DEF S
          <5>2. Append(ledger, B) \in Seq(S) /\ ToSet(Append(ledger, B)) = ToSet(ledger) \cup {B}
            BY <5>1, AppendFacts
          <5> QED BY <5>2 DEF S
        <4> QED BY <4>1, <4>2
      <3>2. UNION (ToSet(ledger) \cup {B}) = (UNION ToSet(ledger)) \cup B
        OBVIOUS
      <3> QED BY <3>1, <3>2 DEF Ledger
    <2> QED BY <2>1, <2>2
  <1>6. UNION ToSet(committed') \subseteq Ledger'
    <2>1. UNION ToSet(committed) \subseteq Ledger
      BY DEF CommitInv
    <2>2. \A b \in ToSet(f) : b \subseteq Ledger \cup B
      BY <1>1
    <2> QED BY <1>4, <1>5, <2>1, <2>2
  <1> QED BY <1>1, <1>2, <1>4, <1>5, <1>6 DEF B

LEMMA AdvanceStage ==
    ASSUME StageInv, NEW n \in 0..Len(uncommitted), NEW epoch \in BOOLEAN, Advance(n, epoch)
    PROVE  StageInv'
  <1> USE DEF StageInv
  <1>1. /\ uncommitted' \in Seq(SUBSET ID) /\ committed' \in Seq(SUBSET ID)
        /\ ledger' \in Seq(SUBSET ID)
        /\ ToSet(uncommitted') \subseteq ToSet(uncommitted)
        /\ UNION ToSet(committed') \subseteq Ledger'
    BY AdvanceFacts
  <1>2. /\ pc["consensus"] = "idle" /\ UNCHANGED <<seen, queue, todo, checking, ready, proposerVars,
                                                   owed, faults>>
        /\ \/ epochs' = epochs + 1 /\ epochs < MaxEpochs
              /\ pc' = [pc EXCEPT !["consensus"] = "clear_queue"]
           \/ UNCHANGED <<epochs, pc>>
    BY DEF Advance
  <1>3. todo["consensus"] = << >>
    BY <1>2, Basics DEF TaskInv
  <1>4. CommitInv'
    <2>1. ToSet(todo'["consensus"]) = {}
      BY <1>2, <1>3, EmptyFacts
    <2> QED BY <1>1, <2>1 DEF CommitInv
  <1>5. TaskInv' /\ CheckingInv'
    <2>1. CASE UNCHANGED pc
      BY <1>2, <2>1 DEF TaskInv, CheckingInv
    <2>2. CASE pc' = [pc EXCEPT !["consensus"] = "clear_queue"]
      <3>1. TaskInv'
        BY <1>2, <1>3, <2>2, Basics DEF TaskInv, Class
      <3>2. CheckingInv'
        BY <1>2, <2>2, Basics DEF CheckingInv, TaskInv
      <3> QED BY <3>1, <3>2
    <2> QED BY <1>2, <2>1, <2>2
  <1>6. BoundInv'
    BY <1>2, Basics DEF BoundInv
  <1>7. SeenInv' /\ QueueInv' /\ ReadyInv' /\ ProposerInv'
    BY <1>2 DEF SeenInv, QueueInv, ReadyInv, ProposerInv, proposerVars
  <1> QED BY <1>4, <1>5, <1>6, <1>7

LEMMA RefuseKeeps ==
    ASSUME StageInv, NEW n \in 0..Len(uncommitted), Refuse(n)
    PROVE  StageInv'
  <1> USE DEF StageInv
  <1> DEFINE B == BlockOf(n)
             s == SetToSeq(B)
  <1>1. /\ B \in SUBSET ID /\ IsFiniteSet(B) /\ B # {} /\ B \subseteq UNION ToSet(uncommitted)
    <2>1. /\ B \in SUBSET ID /\ IsFiniteSet(B) /\ B = (UNION ToSet(First(uncommitted, n))) \ Ledger
          /\ ToSet(uncommitted) = ToSet(First(uncommitted, n)) \cup ToSet(Rest(uncommitted, n))
      BY BlockFacts
    <2>2. B # {}
      BY DEF Refuse
    <2> HIDE DEF B
    <2> QED BY <2>1, <2>2
  <1> HIDE DEF B
  <1>2. s \in Seq(B) /\ ToSet(s) \subseteq B /\ NoDups(s) /\ s # << >>
    BY <1>1, SetToSeqFacts
  <1>3. s \in Seq(ID)
    BY <1>1, <1>2, SeqMonotonic
  <1> HIDE DEF s
  <1>4. /\ pc["consensus"] = "idle" /\ todo' = [todo EXCEPT !["consensus"] = s]
        /\ pc' = [pc EXCEPT !["consensus"] = "sending"]
        /\ UNCHANGED <<seen, queue, checking, ready, proposerVars, storageVars, owed>>
        /\ Fault
    BY DEF Refuse, s, B
  <1>5. /\ todo' \in [Task -> Seq(ID)] /\ todo'["consensus"] = s /\ pc'["consensus"] = "sending"
        /\ pc' \in [Task -> {"idle", "enqueue", "sending", "clear_queue", "clear_worker"} \cup Class]
        /\ \A d \in Task \ {"consensus"} : todo'[d] = todo[d] /\ pc'[d] = pc[d]
    BY <1>3, <1>4, Basics DEF TaskInv
  <1>6. TaskInv'
    <2>1. "sending" \notin Class
      BY DEF Class
    <2> QED BY <1>2, <1>5, <2>1 DEF TaskInv
  <1>7. CheckingInv'
    BY <1>4, <1>5, Basics DEF CheckingInv
  <1>8. CommitInv'
    BY <1>1, <1>2, <1>4, <1>5 DEF CommitInv, storageVars, Ledger
  <1>9. BoundInv'
    BY <1>4, Basics DEF BoundInv, Fault
  <1>10. SeenInv' /\ QueueInv' /\ ReadyInv' /\ ProposerInv'
    BY <1>4 DEF SeenInv, QueueInv, ReadyInv, ProposerInv, proposerVars
  <1> QED BY <1>6, <1>7, <1>8, <1>9, <1>10

LEMMA ClearKeeps ==
    ASSUME StageInv, ClearQueue \/ ClearWorker
    PROVE  StageInv'
  <1> USE DEF StageInv
  <1>1. /\ pc["consensus"] \in {"clear_queue", "clear_worker"}
        /\ \E p \in {"clear_worker", "idle"} : pc' = [pc EXCEPT !["consensus"] = p]
        /\ UNCHANGED <<seen, todo, checking, proposerVars, storageVars, bounds>>
        /\ owed' \subseteq owed
    BY DEF ClearQueue, ClearWorker
  <1>2. TaskInv'
    BY <1>1, Basics DEF TaskInv, Class
  <1>3. CheckingInv'
    BY <1>1, Basics DEF CheckingInv, TaskInv
  <1>4. CommitInv' /\ SeenInv' /\ ProposerInv' /\ BoundInv'
    BY <1>1 DEF CommitInv, SeenInv, ProposerInv, BoundInv, storageVars, Ledger, proposerVars, bounds
  <1>5. QueueInv'
    <2>1. CASE UNCHANGED queue
      BY <2>1 DEF QueueInv
    <2>2. CASE queue' = [queue EXCEPT !["solutions_queue"] = << >>]
      BY <2>2, EmptyFacts, Basics DEF QueueInv, Queues
    <2> QED BY <2>1, <2>2 DEF ClearQueue, ClearWorker
  <1>6. ReadyInv'
    <2>1. CASE UNCHANGED ready
      BY <2>1 DEF ReadyInv
    <2>2. CASE ready' = Without(ready, Solution)
      BY <2>2, WithoutFacts DEF ReadyInv
    <2> QED BY <2>1, <2>2 DEF ClearQueue, ClearWorker
  <1> QED BY <1>2, <1>3, <1>4, <1>5, <1>6

LEMMA CollectKeeps ==
    ASSUME StageInv, CollectGarbage
    PROVE  StageInv'
  <1> USE DEF StageInv
  <1>1. /\ committed # << >> /\ committed' = Tail(committed)
        /\ UNCHANGED <<consensusVars, checking, ready, proposerVars, uncommitted, ledger, owed,
                       bounds>>
    BY DEF CollectGarbage
  <1>2. committed' \in Seq(SUBSET ID) /\ ToSet(committed') \subseteq ToSet(committed)
    BY <1>1, TailFacts DEF CommitInv
  <1>3. CommitInv'
    BY <1>1, <1>2 DEF CommitInv, Ledger, consensusVars
  <1>4. /\ SeenInv' /\ QueueInv' /\ TaskInv' /\ CheckingInv' /\ ReadyInv' /\ ProposerInv'
        /\ BoundInv'
    BY <1>1 DEF SeenInv, QueueInv, TaskInv, CheckingInv, ReadyInv, ProposerInv, BoundInv,
                consensusVars, proposerVars, bounds
  <1> QED BY <1>3, <1>4

\* Every step keeps what each task, handler and stage relies on.
LEMMA StageStep == StageInv /\ [Next]_vars => StageInv'
  <1> SUFFICES ASSUME StageInv, [Next]_vars PROVE StageInv'
    OBVIOUS
  <1>1. ASSUME NEW c \in Client, Enqueue(c) \/ \E t \in ID : Submit(c, t) PROVE StageInv'
    BY <1>1, EnqueueKeeps, SubmitKeeps
  <1>2. ASSUME NEW task \in Task, Process(task) PROVE StageInv'
    BY <1>2, ProcessKeeps
  <1>3. ASSUME NEW class \in Class, Handler(class) PROVE StageInv'
    BY <1>3, ReceiveKeeps, CheckedKeeps, CheckFailsKeeps DEF Handler
  <1>4. ASSUME Proposer PROVE StageInv'
    BY <1>4, StartKeeps, RemoveFrontKeeps, SelectKeeps, SkipKeeps, StoreKeeps DEF Proposer
  <1>5. ASSUME NextBlock PROVE StageInv'
    <2>1. PICK n \in 1..Len(uncommitted) : Advance(n, FALSE)
      BY <1>5 DEF NextBlock
    <2>2. n \in 0..Len(uncommitted)
      OBVIOUS
    <2> QED BY <2>1, <2>2, AdvanceStage
  <1>6. ASSUME NEW n \in 0..Len(uncommitted), Advance(n, TRUE) \/ Refuse(n) PROVE StageInv'
    BY <1>6, AdvanceStage, RefuseKeeps
  <1>7. ASSUME UNCHANGED vars PROVE StageInv'
    BY <1>7 DEF vars, StageInv, SeenInv, QueueInv, TaskInv, CheckingInv, ReadyInv, ProposerInv,
                CommitInv, BoundInv, Ledger, consensusVars, proposerVars, storageVars, bounds
  <1> QED BY <1>1, <1>2, <1>3, <1>4, <1>5, <1>6, <1>7, StoreFailsKeeps, SigningFailsKeeps,
             ClearKeeps, CollectKeeps
          DEF Next

\* Every variable keeps its type, for every capacity, limit and number of clients: the
\* caches of consensus stay within their capacities and the batch within its limits
\* (consensus/src/lib.rs:150, primary.rs:506).
THEOREM MempoolTypes == Spec => []TypeOK
  <1>1. Spec => []StageInv
    BY StageInit, StageStep, PTL DEF Spec
  <1> QED BY <1>1, StageTypes, PTL

-----------------------------------------------------------------------------
(* Where the transmissions are.  Each step moves at most a few of them, from *)
(* one place to the next.  Two properties follow together: as long as no     *)
(* batch is full while there is more to drain, what is owed is held;         *)
(* as long as consensus remembers what it has seen, nothing is at two places.*)

Sender == Task \ {"consensus"}
Hands(task) == ToSet(todo[task])
Confirmed == Stored \cup Ledger
Held == Queued \cup Sending \cup ToSet(ready) \cup Proposing \cup Confirmed

\* No transmission is popped beyond the limit of the batch.
BatchHasRoom == stage = "drain" /\ ready # << >> => Len(batch) < BatchLimit

\* The seen set does not forget.
Remembers == \A c \in Class : ToSet(seen[c]) \subseteq ToSet(seen'[c])

\* The five places of OnePlace, and the places within two of them.
Apart ==
    /\ Queued \cap Sending = {} /\ Queued \cap ToSet(ready) = {}
    /\ Queued \cap Proposing = {} /\ Queued \cap Confirmed = {}
    /\ Sending \cap ToSet(ready) = {} /\ Sending \cap Proposing = {}
    /\ Sending \cap Confirmed = {}
    /\ ToSet(ready) \cap Proposing = {} /\ ToSet(ready) \cap Confirmed = {}
    /\ Proposing \cap Confirmed = {}

ApartWithin ==
    /\ ToSet(popped) \cap ToSet(batch) = {}
    /\ \A a, b \in Sender : a # b => Hands(a) \cap Hands(b) = {}

SeenAll == \A t \in Held : t \in ToSet(seen[ClassOf(t)])

OneInv == Apart /\ ApartWithin /\ SeenAll

LEMMA ApartPlaces == Apart => OnePlace
  <1> SUFFICES ASSUME Apart,
                      NEW i \in 1..5, NEW j \in 1..5, i # j
               PROVE  <<Queued, Sending, ToSet(ready), Proposing, Confirmed>>[i]
                        \cap <<Queued, Sending, ToSet(ready), Proposing, Confirmed>>[j] = {}
    BY DEF OnePlace, Confirmed
  <1> DEFINE places == <<Queued, Sending, ToSet(ready), Proposing, Confirmed>>
  <1>1. /\ places[1] = Queued /\ places[2] = Sending /\ places[3] = ToSet(ready)
        /\ places[4] = Proposing /\ places[5] = Confirmed
    OBVIOUS
  <1> HIDE DEF places
  <1>2. /\ places[1] \cap places[2] = {} /\ places[1] \cap places[3] = {}
        /\ places[1] \cap places[4] = {} /\ places[1] \cap places[5] = {}
        /\ places[2] \cap places[3] = {} /\ places[2] \cap places[4] = {}
        /\ places[2] \cap places[5] = {} /\ places[3] \cap places[4] = {}
        /\ places[3] \cap places[5] = {} /\ places[4] \cap places[5] = {}
    BY <1>1 DEF Apart
  <1>3. i \in {1, 2, 3, 4, 5} /\ j \in {1, 2, 3, 4, 5}
    OBVIOUS
  <1>4. places[i] \cap places[j] = {}
    BY <1>2, <1>3
  <1> QED BY <1>4 DEF places

\* What one task has in hand, and the others.
LEMMA SendingParts ==
    ASSUME NEW c \in Sender, \A d \in Sender \ {c} : todo'[d] = todo[d]
    PROVE  LET O == UNION {Hands(d) : d \in Sender \ {c}}
           IN  /\ Sending = O \cup Hands(c) /\ Sending' = O \cup Hands(c)'
               /\ ApartWithin => O \cap Hands(c) = {}
               /\ ApartWithin /\ O \cap Hands(c)' = {}
                  => \A a, b \in Sender : a # b => Hands(a)' \cap Hands(b)' = {}
  <1> DEFINE O == UNION {Hands(d) : d \in Sender \ {c}}
  <1>1. Sending = O \cup Hands(c)
    BY DEF Sending, Sender, Hands
  <1>2. \A d \in Sender \ {c} : Hands(d)' = Hands(d)
    BY DEF Hands
  <1>3. Sending' = O \cup Hands(c)'
    <2>1. Sending' = UNION {Hands(d)' : d \in Sender}
      BY DEF Sending, Sender, Hands
    <2> QED BY <1>2, <2>1
  <1>4. ApartWithin => O \cap Hands(c) = {}
    BY DEF ApartWithin
  <1>5. ASSUME ApartWithin, O \cap Hands(c)' = {}, NEW a \in Sender, NEW b \in Sender, a # b
        PROVE  Hands(a)' \cap Hands(b)' = {}
    <2>1. CASE a = c
      <3>1. Hands(b) \subseteq O /\ Hands(b)' = Hands(b)
        BY <1>2, <1>5, <2>1
      <3> QED BY <1>5, <2>1, <3>1
    <2>2. CASE b = c
      <3>1. Hands(a) \subseteq O /\ Hands(a)' = Hands(a)
        BY <1>2, <1>5, <2>2
      <3> QED BY <1>5, <2>2, <3>1
    <2>3. CASE a # c /\ b # c
      <3>1. Hands(a)' = Hands(a) /\ Hands(b)' = Hands(b)
        BY <1>2, <2>3
      <3> QED BY <1>5, <3>1 DEF ApartWithin
    <2> QED BY <2>1, <2>2, <2>3
  <1> QED BY <1>1, <1>3, <1>4, <1>5

\* The consensus task is not a sender, and what is not touched stays where it is.
LEMMA SamePlaces ==
    /\ UNCHANGED queue => Queued' = Queued
    /\ UNCHANGED ready => ToSet(ready)' = ToSet(ready)
    /\ (\A d \in Sender : todo'[d] = todo[d]) =>
          Sending' = Sending /\ \A d \in Sender : Hands(d)' = Hands(d)
    /\ UNCHANGED <<popped, batch>> => Proposing' = Proposing
    /\ UNCHANGED storageVars => Confirmed' = Confirmed /\ Stored' = Stored /\ Ledger' = Ledger
  <1>1. UNCHANGED queue => Queued' = Queued
    BY DEF Queued
  <1>2. ASSUME \A d \in Sender : todo'[d] = todo[d]
        PROVE  Sending' = Sending /\ \A d \in Sender : Hands(d)' = Hands(d)
    BY <1>2 DEF Sending, Sender, Hands
  <1>3. UNCHANGED <<popped, batch>> => Proposing' = Proposing
    BY DEF Proposing
  <1>4. UNCHANGED storageVars => Confirmed' = Confirmed /\ Stored' = Stored /\ Ledger' = Ledger
    BY DEF Confirmed, Stored, Ledger, storageVars
  <1>5. UNCHANGED ready => ToSet(ready)' = ToSet(ready)
    OBVIOUS
  <1> QED BY <1>1, <1>2, <1>3, <1>4, <1>5

\* While nothing new appears, what the seen set remembers still covers it.
LEMMA SeenKept ==
    ASSUME SeenAll, Remembers, Held' \subseteq Held
    PROVE  SeenAll'
  <1> SUFFICES ASSUME NEW t \in Held' PROVE t \in ToSet(seen'[ClassOf(t)])
    BY DEF SeenAll
  <1>1. t \in ToSet(seen[ClassOf(t)]) /\ ClassOf(t) \in Class
    BY DEF SeenAll, ClassOf, Class
  <1> QED BY <1>1 DEF Remembers

\* What a step has to show.
PlacesKept ==
    /\ OwedIsHeld /\ BatchHasRoom => OwedIsHeld'
    /\ OneInv /\ Remembers => OneInv'

LEMMA SubmitPlaces ==
    ASSUME StageInv, NEW c \in Client, NEW t \in ID, Submit(c, t)
    PROVE  PlacesKept
  <1> USE DEF StageInv
  <1>0. c \in Sender /\ c \in Task /\ pc[c] = "idle"
    BY Basics DEF Sender, Submit
  <1>1. /\ Queued' = Queued /\ ToSet(ready)' = ToSet(ready) /\ Proposing' = Proposing
        /\ Confirmed' = Confirmed /\ Stored' = Stored /\ Ledger' = Ledger
        /\ UNCHANGED <<owed, popped, batch>>
    BY SamePlaces DEF Submit, proposerVars
  <1>2. CASE t \in ToSet(seen[ClassOf(t)])
    <2>1. Sending' = Sending /\ \A d \in Sender : Hands(d)' = Hands(d)
      BY <1>2, SamePlaces DEF Submit
    <2>2. Held' = Held
      BY <1>1, <2>1 DEF Held
    <2>3. OwedIsHeld => OwedIsHeld'
      BY <1>1, <2>1 DEF OwedIsHeld
    <2>4. OneInv /\ Remembers => OneInv'
      BY <1>1, <2>1, <2>2, SeenKept DEF OneInv, Apart, ApartWithin
    <2> QED BY <2>3, <2>4 DEF PlacesKept
  <1>3. CASE t \notin ToSet(seen[ClassOf(t)])
    <2>1. todo' = [todo EXCEPT ![c] = <<t>>] /\ todo[c] = << >>
      BY <1>0, <1>3 DEF Submit, TaskInv
    <2>2. Hands(c) = {} /\ Hands(c)' = {t} /\ \A d \in Sender \ {c} : todo'[d] = todo[d]
      <3>1. todo'[c] = <<t>>
        BY <1>0, <2>1 DEF TaskInv
      <3> QED BY <2>1, <3>1, EmptyFacts, SingleFacts DEF Hands, TaskInv
    <2> DEFINE O == UNION {Hands(d) : d \in Sender \ {c}}
    <2>3. /\ Sending = O /\ Sending' = O \cup {t}
          /\ ApartWithin /\ O \cap {t} = {}
             => \A a, b \in Sender : a # b => Hands(a)' \cap Hands(b)' = {}
      BY <1>0, <2>2, SendingParts
    <2> HIDE DEF O
    <2>4. Held' = Held \cup {t}
      BY <1>1, <2>3 DEF Held
    <2>5. OwedIsHeld => OwedIsHeld'
      BY <1>1, <2>3 DEF OwedIsHeld
    <2>6. ASSUME OneInv, Remembers PROVE OneInv'
      <3>1. t \notin Held
        BY <1>3, <2>6 DEF OneInv, SeenAll
      <3>2. Apart'
        BY <1>1, <2>3, <2>6, <3>1 DEF OneInv, Apart, Held
      <3>3. ApartWithin'
        BY <1>1, <2>3, <2>6, <3>1 DEF OneInv, ApartWithin, Held
      <3>4. t \in ToSet(seen'[ClassOf(t)])
        <4> DEFINE k == ClassOf(t)
        <4>1. k \in Class /\ seen[k] \in Seq(ID) /\ Len(seen[k]) <= SeenCapacity
              /\ seen'[k] = Put(seen[k], t, SeenCapacity)
          BY Basics DEF SeenInv, Submit
        <4> HIDE DEF k
        <4>2. t \in ToSet(Put(seen[k], t, SeenCapacity))
          BY <4>1, Basics, PutFacts
        <4> QED BY <4>1, <4>2 DEF k
      <3>5. SeenAll'
        <4> SUFFICES ASSUME NEW x \in Held' PROVE x \in ToSet(seen'[ClassOf(x)])
          BY DEF SeenAll
        <4>1. CASE x = t
          BY <3>4, <4>1
        <4>2. CASE x \in Held
          <5>1. x \in ToSet(seen[ClassOf(x)]) /\ ClassOf(x) \in Class
            BY <2>6, <4>2 DEF OneInv, SeenAll, ClassOf, Class
          <5> QED BY <2>6, <5>1 DEF Remembers
        <4> QED BY <2>4, <4>1, <4>2
      <3> QED BY <3>2, <3>3, <3>5 DEF OneInv
    <2> QED BY <2>5, <2>6 DEF PlacesKept
  <1> QED BY <1>2, <1>3

LEMMA EnqueuePlaces ==
    ASSUME StageInv, NEW c \in Client, Enqueue(c)
    PROVE  PlacesKept
  <1> USE DEF StageInv
  <1> DEFINE t == Head(todo[c])
             k == QueueOf(t)
             p == Put(queue[k], t, QueueCapacity)
             e == Evicted(queue[k], t, QueueCapacity)
  <1>0. c \in Sender /\ c \in Task /\ pc[c] = "enqueue" /\ todo[c] \in Seq(ID) /\ todo[c] # << >>
        /\ Len(todo[c]) = 1
    BY Basics DEF Sender, Enqueue, TaskInv
  <1>1. t \in ID /\ k \in Queues /\ Hands(c) = {t}
    <2>1. /\ t \in ID /\ Hands(c) = ToSet(Tail(todo[c])) \cup {t} /\ Tail(todo[c]) \in Seq(ID)
          /\ Len(Tail(todo[c])) = 0
      BY <1>0, TailFacts DEF Hands
    <2>2. Tail(todo[c]) = << >>
      BY <2>1, EmptySeq
    <2> HIDE DEF t
    <2> QED BY <2>1, <2>2, EmptyFacts, Basics
  <1>2. /\ todo' = [todo EXCEPT ![c] = << >>]
        /\ \/ t \in Ledger /\ UNCHANGED <<queue, owed>>
           \/ queue' = [queue EXCEPT ![k] = p] /\ owed' = (owed \cup {t}) \ e
        /\ UNCHANGED <<seen, ready, proposerVars, storageVars>>
    BY DEF Enqueue
  <1> HIDE DEF t, k
  <1>3. queue[k] \in Seq(ID) /\ Len(queue[k]) <= QueueCapacity /\ NoDups(queue[k])
    BY <1>1 DEF QueueInv
  <1>4. ToSet(p) = (ToSet(queue[k]) \ e) \cup {t} /\ t \notin e
    BY <1>1, <1>3, Basics, PutFacts
  <1> HIDE DEF p, e
  <1>5. Hands(c)' = {} /\ \A d \in Sender \ {c} : todo'[d] = todo[d]
    BY <1>0, <1>2, EmptyFacts DEF Hands, TaskInv
  <1> DEFINE O == UNION {Hands(d) : d \in Sender \ {c}}
  <1>6. /\ Sending = O \cup {t} /\ Sending' = O
        /\ ApartWithin => O \cap {t} = {}
        /\ ApartWithin => \A a, b \in Sender : a # b => Hands(a)' \cap Hands(b)' = {}
    BY <1>0, <1>1, <1>5, SendingParts
  <1> HIDE DEF O
  <1>7. /\ ToSet(ready)' = ToSet(ready) /\ Proposing' = Proposing /\ Confirmed' = Confirmed
        /\ Stored' = Stored /\ Ledger' = Ledger /\ UNCHANGED <<popped, batch>>
    BY <1>2, SamePlaces DEF proposerVars
  <1>8. \/ t \in Ledger /\ Queued' = Queued /\ owed' = owed
        \/ /\ Queued \ e \subseteq Queued' /\ t \in Queued' /\ Queued' \subseteq Queued \cup {t}
           /\ owed' = (owed \cup {t}) \ e
    <2>1. CASE t \in Ledger /\ UNCHANGED <<queue, owed>>
      BY <2>1, SamePlaces
    <2>2. CASE queue' = [queue EXCEPT ![k] = p] /\ owed' = (owed \cup {t}) \ e
      <3>1. DOMAIN queue = Queues /\ DOMAIN queue' = Queues /\ queue'[k] = p
            /\ \A j \in Queues \ {k} : queue'[j] = queue[j]
        BY <1>1, <2>2 DEF QueueInv
      <3>2. /\ Queued = UNION {ToSet(queue[j]) : j \in Queues}
            /\ Queued' = UNION {ToSet(queue'[j]) : j \in Queues}
        BY <3>1 DEF Queued
      <3>3. ASSUME NEW x \in Queued, x \notin e PROVE x \in Queued'
        <4>1. PICK j \in Queues : x \in ToSet(queue[j])
          BY <3>2, <3>3
        <4>2. x \in ToSet(queue'[j])
          BY <1>4, <3>1, <3>3, <4>1
        <4> QED BY <3>2, <4>2
      <3>4. t \in Queued'
        BY <1>1, <1>4, <3>1, <3>2
      <3>5. ASSUME NEW x \in Queued' PROVE x \in Queued \cup {t}
        <4>1. PICK j \in Queues : x \in ToSet(queue'[j])
          BY <3>2, <3>5
        <4>2. x \in ToSet(queue[j]) \cup {t}
          BY <1>4, <3>1, <4>1
        <4> QED BY <3>2, <4>2
      <3> QED BY <2>2, <3>3, <3>4, <3>5
    <2> QED BY <1>2, <2>1, <2>2
  <1>9. OwedIsHeld => OwedIsHeld'
    BY <1>6, <1>7, <1>8 DEF OwedIsHeld
  <1>10. ASSUME OneInv, Remembers PROVE OneInv'
    <2>1. Queued' \subseteq Queued \cup {t}
      BY <1>8
    <2>2. t \in Sending /\ t \notin Sending' /\ Sending' \subseteq Sending
      BY <1>6, <1>10 DEF OneInv
    <2>3. Apart'
      BY <1>7, <1>10, <2>1, <2>2 DEF OneInv, Apart
    <2>4. ApartWithin'
      BY <1>6, <1>7, <1>10 DEF OneInv, ApartWithin
    <2>5. Held' \subseteq Held
      BY <1>7, <2>1, <2>2 DEF Held
    <2> QED BY <1>10, <2>3, <2>4, <2>5, SeenKept DEF OneInv
  <1> QED BY <1>9, <1>10 DEF PlacesKept

LEMMA ProcessPlaces ==
    ASSUME StageInv, NEW task \in Task, Process(task)
    PROVE  PlacesKept
  <1> USE DEF StageInv
  <1> DEFINE taken == Taken(pc[task])
             T == ToSet(taken)
  <1>1. /\ pc[task] \in Class /\ todo' = [todo EXCEPT ![task] = taken]
        /\ queue' = [k \in DOMAIN queue |-> Without(queue[k], T)]
        /\ UNCHANGED <<seen, ready, proposerVars, storageVars, owed>>
    BY DEF Process, Taken
  <1>2. task \in Sender /\ todo[task] = << >>
    <2>1. pc[task] \notin {"enqueue", "sending"}
      BY <1>1 DEF Class
    <2> QED BY <1>1, <2>1 DEF TaskInv, Sender
  <1>3. T \subseteq Queued
    <2>1. DOMAIN queue = Queues
      BY DEF QueueInv
    <2> QED BY <1>1, <2>1, TakenFacts DEF Queued
  <1>4. Queued' = Queued \ T
    <2>1. DOMAIN queue = Queues /\ DOMAIN queue' = Queues
      BY <1>1 DEF QueueInv
    <2>2. ASSUME NEW k \in Queues PROVE ToSet(queue'[k]) = ToSet(queue[k]) \ T
      <3>1. queue[k] \in Seq(ID) /\ queue'[k] = Without(queue[k], T)
        BY <1>1, <2>1 DEF QueueInv
      <3> HIDE DEF T
      <3> QED BY <3>1, WithoutFacts
    <2>3. /\ Queued = UNION {ToSet(queue[j]) : j \in Queues}
          /\ Queued' = UNION {ToSet(queue'[j]) : j \in Queues}
      BY <2>1 DEF Queued
    <2> HIDE DEF T
    <2>4. ASSUME NEW x \in Queued' PROVE x \in Queued \ T
      <3>1. PICK j \in Queues : x \in ToSet(queue'[j])
        BY <2>3, <2>4
      <3> QED BY <2>2, <2>3, <3>1
    <2>5. ASSUME NEW x \in Queued, x \notin T PROVE x \in Queued'
      <3>1. PICK j \in Queues : x \in ToSet(queue[j])
        BY <2>3, <2>5
      <3> QED BY <2>2, <2>3, <2>5, <3>1
    <2> QED BY <2>4, <2>5
  <1>5. Hands(task) = {} /\ Hands(task)' = T /\ \A d \in Sender \ {task} : todo'[d] = todo[d]
    BY <1>1, <1>2, EmptyFacts DEF Hands, TaskInv, Sender
  <1> HIDE DEF T
  <1> DEFINE O == UNION {Hands(d) : d \in Sender \ {task}}
  <1>6. /\ Sending = O /\ Sending' = O \cup T
        /\ ApartWithin /\ O \cap T = {}
           => \A a, b \in Sender : a # b => Hands(a)' \cap Hands(b)' = {}
    BY <1>2, <1>5, SendingParts
  <1> HIDE DEF O
  <1>7. /\ ToSet(ready)' = ToSet(ready) /\ Proposing' = Proposing /\ Confirmed' = Confirmed
        /\ Stored' = Stored /\ Ledger' = Ledger /\ UNCHANGED <<popped, batch, owed>>
    BY <1>1, SamePlaces DEF proposerVars
  <1>8. OwedIsHeld => OwedIsHeld'
    BY <1>4, <1>6, <1>7 DEF OwedIsHeld
  <1>9. ASSUME OneInv, Remembers PROVE OneInv'
    <2>1. Apart'
      BY <1>3, <1>4, <1>6, <1>7, <1>9 DEF OneInv, Apart
    <2>2. O \cap T = {}
      BY <1>3, <1>6, <1>9 DEF OneInv, Apart
    <2>3. ApartWithin'
      BY <1>6, <1>7, <1>9, <2>2 DEF OneInv, ApartWithin
    <2>4. Held' \subseteq Held
      BY <1>3, <1>4, <1>6, <1>7 DEF Held
    <2> QED BY <1>9, <2>1, <2>3, <2>4, SeenKept DEF OneInv
  <1> QED BY <1>8, <1>9 DEF PlacesKept


\* A reply takes the head of what the task has in hand from it.
LEMMA ReplyPlaces ==
    ASSUME TaskInv, NEW task \in Task, pc[task] = "sending", Reply(task), NEW t,
           t = Head(todo[task])
    PROVE  /\ Sending \subseteq Sending' \cup {t} /\ Sending' \subseteq Sending
           /\ task # "consensus" => t \in Sending
           /\ ApartWithin => \A a, b \in Sender : a # b => Hands(a)' \cap Hands(b)' = {}
           /\ ApartWithin /\ task # "consensus" => t \notin Sending'
  <1>1. /\ Hands(task) = Hands(task)' \cup {t} /\ t \notin Hands(task)'
        /\ \A d \in Task \ {task} : todo'[d] = todo[d]
    BY ReplyFacts DEF Hands
  <1>2. CASE task = "consensus"
    <2>1. \A d \in Sender : todo'[d] = todo[d]
      BY <1>1, <1>2 DEF Sender
    <2>2. Sending' = Sending /\ \A d \in Sender : Hands(d)' = Hands(d)
      BY <2>1, SamePlaces
    <2> QED BY <1>2, <2>2 DEF ApartWithin
  <1>3. CASE task # "consensus"
    <2>1. task \in Sender /\ \A d \in Sender \ {task} : todo'[d] = todo[d]
      BY <1>1, <1>3 DEF Sender
    <2> DEFINE O == UNION {Hands(d) : d \in Sender \ {task}}
    <2>2. /\ Sending = O \cup Hands(task) /\ Sending' = O \cup Hands(task)'
          /\ ApartWithin => O \cap Hands(task) = {}
          /\ ApartWithin /\ O \cap Hands(task)' = {}
             => \A a, b \in Sender : a # b => Hands(a)' \cap Hands(b)' = {}
      BY <2>1, SendingParts
    <2> HIDE DEF O
    <2> QED BY <1>1, <2>2
  <1> QED BY <1>2, <1>3

LEMMA ReceivePlaces ==
    ASSUME StageInv, NEW class \in Class, Receive(class)
    PROVE  PlacesKept
  <1> USE DEF StageInv
  <1>1. PICK task \in Task :
           /\ pc[task] = "sending"
           /\ \/ ContainsTransmission(Head(todo[task])) /\ Reply(task)
              \/ UNCHANGED todo
    BY DEF Receive
  <1>2. /\ Queued' = Queued /\ ToSet(ready)' = ToSet(ready) /\ Proposing' = Proposing
        /\ Confirmed' = Confirmed /\ Stored' = Stored /\ Ledger' = Ledger
        /\ UNCHANGED <<owed, popped, batch>>
    BY SamePlaces DEF Receive, proposerVars
  <1>3. PICK t : t = Head(todo[task])
    OBVIOUS
  <1>4. /\ Sending' \subseteq Sending
        /\ Sending \subseteq Sending' \cup ToSet(ready) \cup Stored \cup Ledger
        /\ ApartWithin => \A a, b \in Sender : a # b => Hands(a)' \cap Hands(b)' = {}
    <2>1. CASE ContainsTransmission(t) /\ Reply(task)
      BY <1>1, <1>3, <2>1, ReplyPlaces DEF ContainsTransmission
    <2>2. CASE UNCHANGED todo
      BY <2>2, SamePlaces DEF ApartWithin
    <2> QED BY <1>1, <1>3, <2>1, <2>2
  <1>5. OwedIsHeld => OwedIsHeld'
    BY <1>2, <1>4 DEF OwedIsHeld
  <1>6. Held' \subseteq Held
    BY <1>2, <1>4 DEF Held
  <1>7. OneInv /\ Remembers => OneInv'
    BY <1>2, <1>4, <1>6, SeenKept DEF OneInv, Apart, ApartWithin
  <1> QED BY <1>5, <1>7 DEF PlacesKept

LEMMA CheckedPlaces ==
    ASSUME StageInv, NEW class \in Class, Checked(class)
    PROVE  PlacesKept
  <1> USE DEF StageInv
  <1>1. PICK task, t : task = checking[class] /\ t = Head(todo[task])
    OBVIOUS
  <1>2. task \in Task /\ task # "consensus" /\ pc[task] = "sending" /\ t \in ID
    BY <1>1, CheckEnds DEF Checked
  <1>3. Reply(task) /\ ready' = Insert(t)
    BY <1>1 DEF Checked
  <1>4. /\ Queued' = Queued /\ Proposing' = Proposing /\ Confirmed' = Confirmed
        /\ Stored' = Stored /\ Ledger' = Ledger /\ UNCHANGED <<owed, popped, batch>>
    BY SamePlaces DEF Checked, proposerVars
  <1>5. ToSet(ready)' = ToSet(ready) \cup {t}
    BY <1>2, <1>3, InsertFacts
  <1>6. /\ Sending \subseteq Sending' \cup {t} /\ Sending' \subseteq Sending /\ t \in Sending
        /\ ApartWithin => \A a, b \in Sender : a # b => Hands(a)' \cap Hands(b)' = {}
        /\ ApartWithin => t \notin Sending'
    BY <1>1, <1>2, <1>3, ReplyPlaces
  <1>7. OwedIsHeld => OwedIsHeld'
    BY <1>4, <1>5, <1>6 DEF OwedIsHeld
  <1>8. Held' \subseteq Held
    BY <1>4, <1>5, <1>6 DEF Held
  <1>9. OneInv /\ Remembers => OneInv'
    BY <1>4, <1>5, <1>6, <1>8, SeenKept DEF OneInv, Apart, ApartWithin
  <1> QED BY <1>7, <1>9 DEF PlacesKept

LEMMA CheckFailsPlaces ==
    ASSUME StageInv, NEW class \in Class, CheckFails(class)
    PROVE  PlacesKept
  <1> USE DEF StageInv
  <1>1. PICK task, t : task = checking[class] /\ t = Head(todo[task])
    OBVIOUS
  <1>2. task \in Task /\ task # "consensus" /\ pc[task] = "sending"
    BY <1>1, CheckEnds DEF CheckFails
  <1>3. Reply(task) /\ owed' = owed \ {t}
    BY <1>1 DEF CheckFails
  <1>4. /\ Queued' = Queued /\ Proposing' = Proposing /\ Confirmed' = Confirmed
        /\ ToSet(ready)' = ToSet(ready)
        /\ Stored' = Stored /\ Ledger' = Ledger /\ UNCHANGED <<popped, batch>>
    BY SamePlaces DEF CheckFails, proposerVars
  <1>5. /\ Sending \subseteq Sending' \cup {t} /\ Sending' \subseteq Sending
        /\ ApartWithin => \A a, b \in Sender : a # b => Hands(a)' \cap Hands(b)' = {}
    BY <1>1, <1>2, <1>3, ReplyPlaces
  <1>6. OwedIsHeld => OwedIsHeld'
    BY <1>3, <1>4, <1>5 DEF OwedIsHeld
  <1>7. Held' \subseteq Held
    BY <1>4, <1>5 DEF Held
  <1>8. OneInv /\ Remembers => OneInv'
    BY <1>4, <1>5, <1>7, SeenKept DEF OneInv, Apart, ApartWithin
  <1> QED BY <1>6, <1>8 DEF PlacesKept

\* The proposer and the consensus task leave what the senders have in hand alone.
LEMMA HandsFrame ==
    ASSUME Proposing' \cup ToSet(ready)' \cup Queued' \cup Confirmed' \subseteq Held,
           \A d \in Sender : todo'[d] = todo[d],
           OneInv, Remembers, Apart', ToSet(popped)' \cap ToSet(batch)' = {}
    PROVE  OneInv'
  <1>1. Sending' = Sending /\ \A d \in Sender : Hands(d)' = Hands(d)
    BY SamePlaces
  <1>2. ApartWithin'
    BY <1>1 DEF OneInv, ApartWithin
  <1>3. Held' \subseteq Held
    BY <1>1 DEF Held
  <1> QED BY <1>2, <1>3, SeenKept DEF OneInv

LEMMA StartPlaces ==
    ASSUME StageInv, StartBatch \/ NothingReady
    PROVE  PlacesKept
  <1>1. /\ Queued' = Queued /\ Proposing' = Proposing /\ Confirmed' = Confirmed
        /\ ToSet(ready)' = ToSet(ready) /\ Sending' = Sending
        /\ Stored' = Stored /\ Ledger' = Ledger /\ UNCHANGED <<popped, batch, owed, todo>>
    BY SamePlaces DEF StartBatch, NothingReady, consensusVars
  <1>2. OwedIsHeld => OwedIsHeld'
    BY <1>1 DEF OwedIsHeld
  <1>3. ASSUME OneInv, Remembers PROVE OneInv'
    <2>1. Apart' /\ ToSet(popped)' \cap ToSet(batch)' = {}
      BY <1>1, <1>3 DEF OneInv, Apart, ApartWithin
    <2> QED BY <1>1, <1>3, <2>1, HandsFrame DEF Held
  <1> QED BY <1>2, <1>3 DEF PlacesKept

LEMMA RemoveFrontPlaces ==
    ASSUME StageInv, RemoveFront
    PROVE  PlacesKept
  <1> USE DEF StageInv
  <1>1. PICK t : t = Head(ready)
    OBVIOUS
  <1>2. /\ t \in ID /\ ToSet(ready) = ToSet(ready)' \cup {t} /\ t \notin ToSet(ready)'
    BY <1>1, TailFacts DEF RemoveFront, ReadyInv
  <1>3. /\ Queued' = Queued /\ Confirmed' = Confirmed /\ Sending' = Sending
        /\ Stored' = Stored /\ Ledger' = Ledger /\ UNCHANGED <<batch, owed, todo>>
        /\ stage = "drain" /\ ready # << >>
    BY SamePlaces DEF RemoveFront, consensusVars
  <1>4. popped = << >> /\ Proposing = ToSet(batch)
    <2>1. popped = << >>
      BY <1>3 DEF ProposerInv
    <2> QED BY <2>1, EmptyFacts DEF Proposing
  <1>5. \/ Len(batch) >= BatchLimit /\ UNCHANGED popped
        \/ t \in Ledger \cup Stored /\ UNCHANGED popped
        \/ popped' = <<t>>
    BY <1>1 DEF RemoveFront
  <1>6. \/ Len(batch) >= BatchLimit /\ ToSet(popped)' = {}
        \/ t \in Ledger \cup Stored /\ ToSet(popped)' = {}
        \/ ToSet(popped)' = {t}
    BY <1>2, <1>4, <1>5, EmptyFacts, SingleFacts
  <1>7. Proposing' = ToSet(popped)' \cup ToSet(batch)
    BY <1>3 DEF Proposing
  <1>8. OwedIsHeld /\ BatchHasRoom => OwedIsHeld'
    <2>1. BatchHasRoom => ~(Len(batch) >= BatchLimit)
      <3>1. Len(batch) \in Nat
        BY DEF ProposerInv
      <3> QED BY <1>3, <3>1, Basics DEF BatchHasRoom
    <2> QED BY <1>2, <1>3, <1>4, <1>6, <1>7, <2>1 DEF OwedIsHeld
  <1>9. ASSUME OneInv, Remembers PROVE OneInv'
    <2>1. ToSet(popped)' \subseteq {t} /\ t \notin ToSet(batch)
      BY <1>2, <1>4, <1>6, <1>9 DEF OneInv, Apart
    <2>2. ToSet(popped)' \cap ToSet(batch)' = {}
      BY <1>3, <2>1
    <2>3. Apart'
      BY <1>2, <1>3, <1>4, <1>7, <1>9, <2>1 DEF OneInv, Apart
    <2>4. Proposing' \cup ToSet(ready)' \cup Queued' \cup Confirmed' \subseteq Held
      BY <1>2, <1>3, <1>4, <1>7, <2>1 DEF Held
    <2> QED BY <1>3, <1>9, <2>2, <2>3, <2>4, HandsFrame
  <1> QED BY <1>8, <1>9 DEF PlacesKept

LEMMA SelectPlaces ==
    ASSUME StageInv, Select
    PROVE  PlacesKept
  <1> USE DEF StageInv
  <1>1. PICK t : t = Head(popped)
    OBVIOUS
  <1>2. /\ t \in ID /\ ToSet(popped) = {t} /\ popped' = << >>
        /\ \/ ready' = InsertFront(t) /\ UNCHANGED batch
           \/ ToSet(batch') = ToSet(batch) \cup {t} /\ UNCHANGED ready
    BY <1>1, SelectFacts
  <1>3. /\ Queued' = Queued /\ Confirmed' = Confirmed /\ Sending' = Sending
        /\ Stored' = Stored /\ Ledger' = Ledger /\ UNCHANGED <<owed, todo>>
    BY SamePlaces DEF Select, consensusVars
  <1>4. Proposing = {t} \cup ToSet(batch) /\ Proposing' = ToSet(batch)' /\ ToSet(popped)' = {}
    BY <1>2, EmptyFacts DEF Proposing
  <1>5. \/ ToSet(ready)' = ToSet(ready) \cup {t} /\ ToSet(batch)' = ToSet(batch)
        \/ ToSet(ready)' = ToSet(ready) /\ ToSet(batch)' = ToSet(batch) \cup {t}
    BY <1>2, InsertFacts
  <1>6. OwedIsHeld => OwedIsHeld'
    BY <1>3, <1>4, <1>5 DEF OwedIsHeld
  <1>7. ASSUME OneInv, Remembers PROVE OneInv'
    <2>1. t \notin ToSet(batch)
      BY <1>2, <1>7 DEF OneInv, ApartWithin
    <2>2. ToSet(popped)' \cap ToSet(batch)' = {}
      BY <1>4
    <2>3. Apart'
      BY <1>3, <1>4, <1>5, <1>7, <2>1 DEF OneInv, Apart
    <2>4. Proposing' \cup ToSet(ready)' \cup Queued' \cup Confirmed' \subseteq Held
      BY <1>3, <1>4, <1>5 DEF Held
    <2> QED BY <1>3, <1>7, <2>2, <2>3, <2>4, HandsFrame
  <1> QED BY <1>6, <1>7 DEF PlacesKept

LEMMA SkipPlaces ==
    ASSUME StageInv, Skip
    PROVE  PlacesKept
  <1> USE DEF StageInv
  <1>1. PICK t : t = Head(popped)
    OBVIOUS
  <1>2. ToSet(popped) = {t}
    <2>1. popped \in Seq(ID) /\ popped # << >> /\ Len(popped) = 1
      BY DEF Skip, ProposerInv
    <2>2. /\ ToSet(popped) = ToSet(Tail(popped)) \cup {t} /\ Tail(popped) \in Seq(ID)
          /\ Len(Tail(popped)) = 0
      BY <1>1, <2>1, TailFacts
    <2>3. Tail(popped) = << >>
      BY <2>2, EmptySeq
    <2> QED BY <2>2, <2>3, EmptyFacts
  <1>3. /\ Queued' = Queued /\ Confirmed' = Confirmed /\ Sending' = Sending
        /\ ToSet(ready)' = ToSet(ready)
        /\ Stored' = Stored /\ Ledger' = Ledger /\ UNCHANGED <<batch, todo>>
        /\ owed' = owed \ {t} /\ popped' = << >>
    BY <1>1, SamePlaces DEF Skip, consensusVars
  <1>4. Proposing = {t} \cup ToSet(batch) /\ Proposing' = ToSet(batch) /\ ToSet(popped)' = {}
    BY <1>2, <1>3, EmptyFacts DEF Proposing
  <1>5. OwedIsHeld => OwedIsHeld'
    BY <1>3, <1>4 DEF OwedIsHeld
  <1>6. ASSUME OneInv, Remembers PROVE OneInv'
    <2>1. ToSet(popped)' \cap ToSet(batch)' = {}
      BY <1>4
    <2>2. Apart'
      BY <1>3, <1>4, <1>6 DEF OneInv, Apart
    <2>3. Proposing' \cup ToSet(ready)' \cup Queued' \cup Confirmed' \subseteq Held
      BY <1>3, <1>4 DEF Held
    <2> QED BY <1>3, <1>6, <2>1, <2>2, <2>3, HandsFrame
  <1> QED BY <1>5, <1>6 DEF PlacesKept

LEMMA StorePlaces ==
    ASSUME StageInv, Store
    PROVE  PlacesKept
  <1> USE DEF StageInv
  <1>1. /\ Queued' = Queued /\ Sending' = Sending /\ ToSet(ready)' = ToSet(ready)
        /\ UNCHANGED <<popped, todo, owed, ledger, committed>> /\ batch' = << >>
        /\ stage = "store"
    BY SamePlaces DEF Store, EndBatch, consensusVars
  <1>2. popped = << >> /\ Proposing = ToSet(batch) /\ Proposing' = {} /\ ToSet(popped)' = {}
    <2>1. popped = << >>
      BY <1>1 DEF ProposerInv
    <2> QED BY <1>1, <2>1, EmptyFacts DEF Proposing
  <1>3. Ledger' = Ledger /\ Stored' = Stored \cup ToSet(batch)
    <2>1. Ledger' = Ledger
      BY <1>1 DEF Ledger
    <2>2. CASE batch = << >>
      <3>1. ToSet(batch) = {} /\ UNCHANGED uncommitted
        BY <2>2, EmptyFacts DEF Store
      <3> QED BY <1>1, <2>1, <3>1 DEF Stored
    <2>3. CASE batch # << >>
      <3> DEFINE B == ToSet(batch)
                 S == SUBSET ID
      <3>1. uncommitted' = Append(uncommitted, B) /\ uncommitted \in Seq(S) /\ B \in S
        BY <2>3, ToSetFacts DEF Store, CommitInv, ProposerInv
      <3> HIDE DEF B, S
      <3>2. ToSet(uncommitted') = ToSet(uncommitted) \cup {B}
        BY <3>1, AppendFacts
      <3>3. Stored' = UNION (ToSet(uncommitted) \cup {B} \cup ToSet(committed))
        BY <1>1, <3>2 DEF Stored
      <3>4. UNION (ToSet(uncommitted) \cup {B} \cup ToSet(committed))
               = (UNION (ToSet(uncommitted) \cup ToSet(committed))) \cup B
        OBVIOUS
      <3> QED BY <2>1, <3>3, <3>4 DEF Stored, B
    <2> QED BY <2>1, <2>2, <2>3
  <1>4. Confirmed' = Confirmed \cup ToSet(batch)
    BY <1>3 DEF Confirmed
  <1>5. OwedIsHeld => OwedIsHeld'
    BY <1>1, <1>2, <1>3 DEF OwedIsHeld
  <1>6. ASSUME OneInv, Remembers PROVE OneInv'
    <2>1. ToSet(popped)' \cap ToSet(batch)' = {}
      BY <1>2
    <2>2. Apart'
      BY <1>1, <1>2, <1>4, <1>6 DEF OneInv, Apart
    <2>3. Proposing' \cup ToSet(ready)' \cup Queued' \cup Confirmed' \subseteq Held
      BY <1>1, <1>2, <1>4 DEF Held
    <2> QED BY <1>1, <1>6, <2>1, <2>2, <2>3, HandsFrame
  <1> QED BY <1>5, <1>6 DEF PlacesKept

LEMMA StoreFailsPlaces ==
    ASSUME StageInv, StoreFails
    PROVE  PlacesKept
  <1> USE DEF StageInv
  <1>1. /\ Queued' = Queued /\ Sending' = Sending
        /\ Confirmed' = Confirmed /\ Stored' = Stored /\ Ledger' = Ledger
        /\ UNCHANGED <<popped, todo, owed>> /\ batch' = << >> /\ stage = "store"
    BY SamePlaces DEF StoreFails, EndBatch, consensusVars
  <1>2. popped = << >> /\ Proposing = ToSet(batch) /\ Proposing' = {} /\ ToSet(popped)' = {}
    <2>1. popped = << >>
      BY <1>1 DEF ProposerInv
    <2> QED BY <1>1, <2>1, EmptyFacts DEF Proposing
  <1>3. ToSet(ready)' = ToSet(ready) \cup {t \in ToSet(batch) : ~ContainsTransmission(t)}
    BY StoreFailsFacts
  <1>4. /\ ToSet(ready) \subseteq ToSet(ready)' /\ ToSet(ready)' \subseteq ToSet(ready) \cup ToSet(batch)
        /\ ToSet(batch) \subseteq ToSet(ready)' \cup Stored \cup Ledger
    BY <1>3 DEF ContainsTransmission
  <1>5. OwedIsHeld => OwedIsHeld'
    BY <1>1, <1>2, <1>4 DEF OwedIsHeld
  <1>6. ASSUME OneInv, Remembers PROVE OneInv'
    <2>1. ToSet(popped)' \cap ToSet(batch)' = {}
      BY <1>2
    <2>2. Apart'
      BY <1>1, <1>2, <1>4, <1>6 DEF OneInv, Apart
    <2>3. Proposing' \cup ToSet(ready)' \cup Queued' \cup Confirmed' \subseteq Held
      BY <1>1, <1>2, <1>4 DEF Held
    <2> QED BY <1>1, <1>6, <2>1, <2>2, <2>3, HandsFrame
  <1> QED BY <1>5, <1>6 DEF PlacesKept

LEMMA SigningFailsPlaces ==
    ASSUME StageInv, SigningFails
    PROVE  PlacesKept
  <1> USE DEF StageInv
  <1>1. /\ Queued' = Queued /\ Sending' = Sending /\ ToSet(ready)' = ToSet(ready)
        /\ Confirmed' = Confirmed /\ Stored' = Stored /\ Ledger' = Ledger
        /\ UNCHANGED <<popped, todo>> /\ owed' = owed \ ToSet(batch)
        /\ batch' = << >> /\ stage = "store"
    BY SamePlaces DEF SigningFails, EndBatch, consensusVars
  <1>2. popped = << >> /\ Proposing = ToSet(batch) /\ Proposing' = {} /\ ToSet(popped)' = {}
    <2>1. popped = << >>
      BY <1>1 DEF ProposerInv
    <2> QED BY <1>1, <2>1, EmptyFacts DEF Proposing
  <1>3. OwedIsHeld => OwedIsHeld'
    BY <1>1, <1>2 DEF OwedIsHeld
  <1>4. ASSUME OneInv, Remembers PROVE OneInv'
    <2>1. ToSet(popped)' \cap ToSet(batch)' = {}
      BY <1>2
    <2>2. Apart'
      BY <1>1, <1>2, <1>4 DEF OneInv, Apart
    <2>3. Proposing' \cup ToSet(ready)' \cup Queued' \cup Confirmed' \subseteq Held
      BY <1>1, <1>2 DEF Held
    <2> QED BY <1>1, <1>4, <2>1, <2>2, <2>3, HandsFrame
  <1> QED BY <1>3, <1>4 DEF PlacesKept


LEMMA AdvancePlaces ==
    ASSUME StageInv, NEW n \in 0..Len(uncommitted), NEW epoch \in BOOLEAN, Advance(n, epoch)
    PROVE  PlacesKept
  <1> USE DEF StageInv
  <1>1. /\ Queued' = Queued /\ Sending' = Sending /\ ToSet(ready)' = ToSet(ready)
        /\ Proposing' = Proposing /\ UNCHANGED <<popped, batch, todo, owed>>
    BY SamePlaces DEF Advance, proposerVars
  <1>2. Stored' = Stored /\ Ledger' = Ledger \cup BlockOf(n)
    BY AdvanceFacts DEF Stored
  <1>3. BlockOf(n) \subseteq Stored
    <2>1. /\ BlockOf(n) = (UNION ToSet(First(uncommitted, n))) \ Ledger
          /\ ToSet(uncommitted) = ToSet(First(uncommitted, n)) \cup ToSet(Rest(uncommitted, n))
      BY BlockFacts
    <2> QED BY <2>1 DEF Stored
  <1>4. Confirmed' = Confirmed
    BY <1>2, <1>3 DEF Confirmed
  <1>5. OwedIsHeld => OwedIsHeld'
    BY <1>1, <1>2 DEF OwedIsHeld
  <1>6. ASSUME OneInv, Remembers PROVE OneInv'
    <2>1. Apart' /\ ToSet(popped)' \cap ToSet(batch)' = {}
      BY <1>1, <1>4, <1>6 DEF OneInv, Apart, ApartWithin
    <2> QED BY <1>1, <1>4, <1>6, <2>1, HandsFrame DEF Held
  <1> QED BY <1>5, <1>6 DEF PlacesKept

LEMMA RefusePlaces ==
    ASSUME StageInv, NEW n \in 0..Len(uncommitted), Refuse(n)
    PROVE  PlacesKept
  <1> USE DEF StageInv
  <1>1. \A d \in Sender : todo'[d] = todo[d]
    BY DEF Refuse, Sender, TaskInv
  <1>2. /\ Queued' = Queued /\ Sending' = Sending /\ ToSet(ready)' = ToSet(ready)
        /\ Proposing' = Proposing /\ Confirmed' = Confirmed
        /\ Stored' = Stored /\ Ledger' = Ledger /\ UNCHANGED <<popped, batch, owed>>
    BY <1>1, SamePlaces DEF Refuse, proposerVars
  <1>3. OwedIsHeld => OwedIsHeld'
    BY <1>2 DEF OwedIsHeld
  <1>4. ASSUME OneInv, Remembers PROVE OneInv'
    <2>1. Apart' /\ ToSet(popped)' \cap ToSet(batch)' = {}
      BY <1>2, <1>4 DEF OneInv, Apart, ApartWithin
    <2> QED BY <1>1, <1>2, <1>4, <2>1, HandsFrame DEF Held
  <1> QED BY <1>3, <1>4 DEF PlacesKept

\* A new epoch drops the solutions that wait, in the queue and in the worker.
LEMMA ClearPlaces ==
    ASSUME StageInv, ClearQueue \/ ClearWorker
    PROVE  PlacesKept
  <1> USE DEF StageInv
  <1>1. /\ Sending' = Sending /\ Proposing' = Proposing /\ Confirmed' = Confirmed
        /\ Stored' = Stored /\ Ledger' = Ledger /\ UNCHANGED <<popped, batch, todo>>
    BY SamePlaces DEF ClearQueue, ClearWorker, proposerVars
  <1>2. /\ Queued' \subseteq Queued /\ ToSet(ready)' \subseteq ToSet(ready)
        /\ owed' \subseteq owed
        /\ owed' \cap (Queued \cup ToSet(ready)) \subseteq Queued' \cup ToSet(ready)'
    <2>1. CASE ClearQueue
      <3> DEFINE s == ToSet(queue["solutions_queue"])
      <3>1. /\ queue' = [queue EXCEPT !["solutions_queue"] = << >>] /\ owed' = owed \ s
            /\ UNCHANGED ready
        BY <2>1 DEF ClearQueue
      <3>2. /\ DOMAIN queue = Queues /\ DOMAIN queue' = Queues
            /\ queue'["solutions_queue"] = << >>
            /\ \A k \in Queues \ {"solutions_queue"} : queue'[k] = queue[k]
        BY <3>1 DEF QueueInv, Queues
      <3>3. ToSet(queue'["solutions_queue"]) = {}
        BY <3>2, EmptyFacts
      <3>4. Queued' \subseteq Queued /\ Queued \subseteq Queued' \cup s
        BY <3>2, <3>3 DEF Queued
      <3> QED BY <3>1, <3>4
    <2>2. CASE ClearWorker
      <3>1. ToSet(ready)' = ToSet(ready) \ Solution
        BY <2>2, WithoutFacts DEF ClearWorker, ReadyInv
      <3>2. Queued' = Queued /\ owed' = owed \ (Solution \cap ToSet(ready))
        BY <2>2, SamePlaces DEF ClearWorker
      <3> QED BY <3>1, <3>2
    <2> QED BY <2>1, <2>2
  <1>3. OwedIsHeld => OwedIsHeld'
    BY <1>1, <1>2 DEF OwedIsHeld
  <1>4. ASSUME OneInv, Remembers PROVE OneInv'
    <2>1. Apart' /\ ToSet(popped)' \cap ToSet(batch)' = {}
      BY <1>1, <1>2, <1>4 DEF OneInv, Apart, ApartWithin
    <2>2. Proposing' \cup ToSet(ready)' \cup Queued' \cup Confirmed' \subseteq Held
      BY <1>1, <1>2 DEF Held
    <2> QED BY <1>1, <1>4, <2>1, <2>2, HandsFrame
  <1> QED BY <1>3, <1>4 DEF PlacesKept

\* A batch that is collected is in the ledger.
LEMMA CollectPlaces ==
    ASSUME StageInv, CollectGarbage
    PROVE  PlacesKept
  <1> USE DEF StageInv
  <1>1. /\ Queued' = Queued /\ Sending' = Sending /\ ToSet(ready)' = ToSet(ready)
        /\ Proposing' = Proposing
        /\ UNCHANGED <<popped, batch, todo, owed, uncommitted, ledger>>
    BY SamePlaces DEF CollectGarbage, consensusVars, proposerVars
  <1>2. /\ committed \in Seq(SUBSET ID) /\ committed # << >> /\ committed' = Tail(committed)
        /\ UNION ToSet(committed) \subseteq Ledger
    BY DEF CollectGarbage, CommitInv
  <1>3. ToSet(committed') \subseteq ToSet(committed)
    BY <1>2, TailFacts
  <1>4. Ledger' = Ledger /\ Stored' \subseteq Stored /\ Stored \subseteq Stored' \cup Ledger
    BY <1>1, <1>2, <1>3 DEF Stored, Ledger
  <1>5. Confirmed' = Confirmed
    BY <1>4 DEF Confirmed
  <1>6. OwedIsHeld => OwedIsHeld'
    BY <1>1, <1>4 DEF OwedIsHeld
  <1>7. ASSUME OneInv, Remembers PROVE OneInv'
    <2>1. Apart' /\ ToSet(popped)' \cap ToSet(batch)' = {}
      BY <1>1, <1>5, <1>7 DEF OneInv, Apart, ApartWithin
    <2> QED BY <1>1, <1>5, <1>7, <2>1, HandsFrame DEF Held
  <1> QED BY <1>6, <1>7 DEF PlacesKept

LEMMA StutterPlaces ==
    ASSUME UNCHANGED vars
    PROVE  /\ OwedIsHeld => OwedIsHeld'
           /\ OneInv => OneInv'
  <1>1. /\ Queued' = Queued /\ Sending' = Sending /\ ToSet(ready)' = ToSet(ready)
        /\ Proposing' = Proposing /\ Confirmed' = Confirmed /\ Stored' = Stored
        /\ Ledger' = Ledger /\ UNCHANGED <<popped, batch, todo, owed, seen>>
    BY SamePlaces DEF vars, consensusVars, proposerVars
  <1>2. OwedIsHeld => OwedIsHeld'
    BY <1>1 DEF OwedIsHeld
  <1>3. ASSUME OneInv PROVE OneInv'
    <2>1. Apart' /\ ToSet(popped)' \cap ToSet(batch)' = {} /\ Remembers
      BY <1>1, <1>3 DEF OneInv, Apart, ApartWithin, Remembers
    <2> QED BY <1>1, <1>3, <2>1, HandsFrame DEF Held
  <1> QED BY <1>2, <1>3

\* Every step moves transmissions from one place to the next.
LEMMA PlacesStep == StageInv /\ Next => PlacesKept
  <1> SUFFICES ASSUME StageInv, Next PROVE PlacesKept
    OBVIOUS
  <1>1. ASSUME NEW c \in Client, Enqueue(c) \/ \E t \in ID : Submit(c, t) PROVE PlacesKept
    BY <1>1, EnqueuePlaces, SubmitPlaces
  <1>2. ASSUME NEW task \in Task, Process(task) PROVE PlacesKept
    BY <1>2, ProcessPlaces
  <1>3. ASSUME NEW class \in Class, Handler(class) PROVE PlacesKept
    BY <1>3, ReceivePlaces, CheckedPlaces, CheckFailsPlaces DEF Handler
  <1>4. ASSUME Proposer PROVE PlacesKept
    BY <1>4, StartPlaces, RemoveFrontPlaces, SelectPlaces, SkipPlaces, StorePlaces DEF Proposer
  <1>5. ASSUME NextBlock PROVE PlacesKept
    <2>1. PICK n \in 1..Len(uncommitted) : Advance(n, FALSE)
      BY <1>5 DEF NextBlock
    <2>2. n \in 0..Len(uncommitted)
      OBVIOUS
    <2> QED BY <2>1, <2>2, AdvancePlaces
  <1>6. ASSUME NEW n \in 0..Len(uncommitted), Advance(n, TRUE) \/ Refuse(n) PROVE PlacesKept
    BY <1>6, AdvancePlaces, RefusePlaces
  <1> QED BY <1>1, <1>2, <1>3, <1>4, <1>5, <1>6, StoreFailsPlaces, SigningFailsPlaces,
             ClearPlaces, CollectPlaces
          DEF Next

LEMMA PlacesInit == Init => OwedIsHeld /\ OneInv
  <1> SUFFICES ASSUME Init PROVE OwedIsHeld /\ OneInv
    OBVIOUS
  <1>1. /\ Queued = {} /\ Sending = {} /\ \A d \in Sender : Hands(d) = {}
        /\ ToSet(ready) = {} /\ Proposing = {} /\ ToSet(popped) = {} /\ owed = {}
    BY EmptyFacts DEF Init, Queued, Sending, Sender, Hands, Proposing
  <1>2. Confirmed = {}
    BY EmptyFacts DEF Init, Confirmed, Stored, Ledger
  <1>3. Apart /\ ApartWithin /\ SeenAll
    BY <1>1, <1>2 DEF Apart, ApartWithin, SeenAll, Held
  <1> QED BY <1>1, <1>3 DEF OwedIsHeld, OneInv

\* What consensus has queued is on its way to a block, or there, until a step that drops has
\* dropped it: for every capacity and limit, with any number of clients, failed batches,
\* refused blocks and epochs, in a behaviour in which no batch meets its limit while
\* transmissions are ready.  Two of the losses are not meant by the code.  The loss of a batch
\* that cannot be signed (primary.rs:699 and :702) is one of the steps that drop, and
\* OwedIsHeld allows for it; the transmission popped beyond the limit of a batch
\* (primary.rs:506, run mempool_batch_limit) is excluded by BatchHasRoom.  There is no third.
THEOREM NothingLost == Spec /\ []BatchHasRoom => []OwedIsHeld
  <1>1. Spec => []StageInv
    BY StageInit, StageStep, PTL DEF Spec
  <1>2. StageInv /\ BatchHasRoom /\ OwedIsHeld /\ [Next]_vars => OwedIsHeld'
    BY PlacesStep, StutterPlaces DEF PlacesKept
  <1> QED BY <1>1, <1>2, PlacesInit, PTL DEF Spec

\* In a behaviour in which the seen sets evict nothing (consensus/src/lib.rs:331), a
\* transmission is at one place at a time, whatever fails and is sent back.
THEOREM OnlyOnePlace == Spec /\ [][Remembers]_vars => []OnePlace
  <1>1. Spec => []StageInv
    BY StageInit, StageStep, PTL DEF Spec
  <1>2. StageInv /\ OneInv /\ [Next]_vars /\ [Remembers]_vars => OneInv'
    BY PlacesStep, StutterPlaces DEF PlacesKept
  <1>3. OneInv => OnePlace
    BY ApartPlaces DEF OneInv
  <1> QED BY <1>1, <1>2, <1>3, PlacesInit, PTL DEF Spec
=============================================================================
