----------------------------- MODULE ReadyProofs -----------------------------
(***************************************************************************)
(* Proofs about Ready: the logical index agrees with the VecDeque after    *)
(* any sequence of operations, so `get` and `contains` are exact, for any  *)
(* sets of IDs and payloads.                                               *)
(***************************************************************************)
EXTENDS Ready, TLAPS

\* A prepended sequence: its length and its entries (VecDeque::push_front).
LEMMA PrependFacts ==
    ASSUME NEW S, NEW s \in Seq(S), NEW e \in S
    PROVE  /\ <<e>> \o s \in Seq(S)
           /\ Len(<<e>> \o s) = Len(s) + 1
           /\ (<<e>> \o s)[1] = e
           /\ \A i \in 2..(Len(s) + 1) : (<<e>> \o s)[i] = s[i - 1]
  OBVIOUS

\* The tail of a non-empty sequence (VecDeque::pop_front).
LEMMA TailFacts ==
    ASSUME NEW S, NEW s \in Seq(S), s # << >>
    PROVE  /\ Tail(s) \in Seq(S)
           /\ Len(Tail(s)) = Len(s) - 1
           /\ Len(s) \in Nat \ {0}
           /\ Head(s) = s[1]
           /\ \A i \in 1..(Len(s) - 1) : Tail(s)[i] = s[i + 1]
  OBVIOUS

\* An entry occurs once: two positions with one ID are the same position.
LEMMA UniqueIds ==
    ASSUME IndexInv, NEW i \in 1..Len(transmissions), NEW j \in 1..Len(transmissions),
           transmissions[i].id = transmissions[j].id
    PROVE  i = j
  BY DEF IndexInv, TypeOK, EntriesIndexed

LEMMA InitIndexInv == Init => IndexInv
  BY DEF Init, IndexInv, TypeOK, EntriesIndexed, NoStaleIndex

LEMMA InsertIndexInv ==
    ASSUME IndexInv, NEW e \in Entry, Insert(e)
    PROVE  IndexInv'
  <1> USE DEF IndexInv
  <1>1. TypeOK'
    BY DEF TypeOK, Insert, WithIndex, Entry
  <1>2. EntriesIndexed'
    BY DEF TypeOK, Insert, WithIndex, EntriesIndexed, Contains, Entry
  <1>3. NoStaleIndex'
    BY DEF TypeOK, Insert, WithIndex, NoStaleIndex, Contains, Entry
  <1> QED BY <1>1, <1>2, <1>3

LEMMA InsertFrontIndexInv ==
    ASSUME IndexInv, NEW e \in Entry, InsertFront(e)
    PROVE  IndexInv'
  <1> USE DEF IndexInv
  <1>0. /\ transmissions \in Seq(Entry)
        /\ transmissions' = <<e>> \o transmissions
    BY DEF TypeOK, InsertFront
  <1>a. /\ transmissions' \in Seq(Entry)
        /\ Len(transmissions') = Len(transmissions) + 1
        /\ transmissions'[1] = e
        /\ \A i \in 2..(Len(transmissions) + 1) : transmissions'[i] = transmissions[i - 1]
    BY <1>0, PrependFacts
  <1>1. TypeOK'
    BY <1>a DEF TypeOK, InsertFront, WithIndex, Entry
  <1>2. EntriesIndexed'
    BY <1>a DEF TypeOK, InsertFront, WithIndex, EntriesIndexed, Contains, Entry
  <1>3. NoStaleIndex'
    <2> SUFFICES ASSUME NEW k \in DOMAIN transmission_ids'
                 PROVE  \E i \in 1..Len(transmissions') : transmissions'[i].id = k
      BY DEF NoStaleIndex
    <2>1. CASE k = e.id
      BY <2>1, <1>a, <1>0
    <2>2. CASE k # e.id
      <3>1. PICK j \in 1..Len(transmissions) : transmissions[j].id = k
        BY <2>2 DEF InsertFront, WithIndex, NoStaleIndex
      <3> QED BY <3>1, <1>a, <1>0
    <2> QED BY <2>1, <2>2
  <1> QED BY <1>1, <1>2, <1>3

LEMMA RemoveFrontIndexInv ==
    ASSUME IndexInv, RemoveFront
    PROVE  IndexInv'
  <1> DEFINE s == transmissions
  <1>a. /\ s \in Seq(Entry) /\ s # << >>
        /\ transmissions' = Tail(s)
        /\ transmission_ids' = WithoutIndex(Head(s).id)
    BY DEF IndexInv, TypeOK, RemoveFront
  <1>b. /\ transmissions' \in Seq(Entry)
        /\ Len(transmissions') = Len(s) - 1
        /\ Len(s) \in Nat \ {0}
        /\ Head(s) = s[1]
        /\ \A i \in 1..(Len(s) - 1) : transmissions'[i] = s[i + 1]
    BY <1>a, TailFacts
  <1>c. \A i \in 1..(Len(s) - 1) : s[i + 1].id # s[1].id
    BY <1>b, UniqueIds
  <1>1. TypeOK'
    BY <1>a, <1>b DEF IndexInv, TypeOK, RemoveFront, WithoutIndex, Entry
  <1>2. EntriesIndexed'
    <2> SUFFICES ASSUME NEW i \in 1..(Len(s) - 1)
                 PROVE  /\ s[i + 1].id \in DOMAIN transmission_ids'
                        /\ transmission_ids'[s[i + 1].id] = i - 1 + offset'
      BY <1>b DEF EntriesIndexed, Contains
    <2>1. /\ i + 1 \in 1..Len(s)
          /\ s[i + 1].id \in DOMAIN transmission_ids
          /\ transmission_ids[s[i + 1].id] = i + offset
      BY <1>b DEF IndexInv, EntriesIndexed, Contains, TypeOK
    <2>2. s[i + 1].id # s[1].id
      BY <1>c
    <2>3. s[i + 1].id \in DOMAIN transmission_ids'
      BY <2>1, <2>2, <1>a, <1>b DEF WithoutIndex
    <2>4. offset' = offset + 1
      BY <2>3 DEF RemoveFront
    <2>5. transmission_ids'[s[i + 1].id] = transmission_ids[s[i + 1].id]
      BY <2>1, <2>2, <1>a, <1>b DEF WithoutIndex
    <2> QED BY <2>1, <2>3, <2>4, <2>5 DEF IndexInv, TypeOK
  <1>3. NoStaleIndex'
    <2> SUFFICES ASSUME NEW k \in DOMAIN transmission_ids'
                 PROVE  \E i \in 1..(Len(s) - 1) : s[i + 1].id = k
      BY <1>b DEF NoStaleIndex
    <2>1. k \in DOMAIN transmission_ids /\ k # s[1].id
      BY <1>a, <1>b DEF WithoutIndex
    <2>2. PICK j \in 1..Len(s) : s[j].id = k
      BY <2>1 DEF IndexInv, NoStaleIndex
    <2>3. j - 1 \in 1..(Len(s) - 1)
      BY <2>1, <2>2, <1>b
    <2> QED BY <2>2, <2>3
  <1> QED BY <1>1, <1>2, <1>3 DEF IndexInv

LEMMA ClearSolutionsIndexInv ==
    ASSUME IndexInv, ClearSolutions
    PROVE  IndexInv'
  <1> DEFINE s == transmissions
             t == transmissions'
  <1>0. s \in Seq(Entry)
    BY DEF IndexInv, TypeOK
  <1>n. PICK n \in 0..Len(s) : \E f \in [1..n -> 1..Len(s)] :
            KeepsOrder(f, s) /\ t = [i \in 1..n |-> s[f[i]]]
    BY DEF ClearSolutions
  <1>1. PICK f \in [1..n -> 1..Len(s)] :
            KeepsOrder(f, s) /\ t = [i \in 1..n |-> s[f[i]]]
    BY <1>n
  <1>2. /\ t \in Seq(Entry) /\ Len(t) = n
        /\ \A i \in 1..n : t[i] = s[f[i]]
    BY <1>0, <1>1
  <1>3. ASSUME NEW i \in 1..Len(t), NEW j \in 1..Len(t), t[i].id = t[j].id
        PROVE  i = j
    <2>1. f[i] = f[j]
      BY <1>1, <1>2, <1>3, UniqueIds
    <2> QED BY <1>0, <1>1, <1>2, <2>1 DEF KeepsOrder
  <1>4. \A i \in 1..Len(t) :
            /\ t[i].id \in DOMAIN Rebuilt(t)
            /\ Rebuilt(t)[t[i].id] = i - 1
    <2> SUFFICES ASSUME NEW i \in 1..Len(t)
                 PROVE  /\ t[i].id \in DOMAIN Rebuilt(t)
                        /\ Rebuilt(t)[t[i].id] = i - 1
      OBVIOUS
    <2> DEFINE Last(x) == /\ t[x].id = t[i].id
                          /\ \A j \in 1..Len(t) : t[j].id = t[i].id => j <= x
    <2>1. Last(i) /\ \A x \in 1..Len(t) : Last(x) => x = i
      BY <1>3, <1>2
    <2>2. (CHOOSE x \in 1..Len(t) : Last(x)) = i
      BY <2>1
    <2> QED BY <2>2 DEF Rebuilt
  <1>5. transmission_ids' = Rebuilt(t) /\ offset' = 0
    BY DEF ClearSolutions
  <1>6. EntriesIndexed'
    BY <1>4, <1>5, <1>2 DEF EntriesIndexed, Contains
  <1>7. NoStaleIndex'
    BY <1>5 DEF NoStaleIndex, Rebuilt
  <1>8. TypeOK'
    <2>1. \A k \in DOMAIN transmission_ids' :
             /\ k \in TransmissionID
             /\ transmission_ids'[k] \in Int
      <3> SUFFICES ASSUME NEW k \in DOMAIN transmission_ids'
                   PROVE  k \in TransmissionID /\ transmission_ids'[k] \in Int
        OBVIOUS
      <3>1. PICK i \in 1..Len(t) : t[i].id = k
        BY <1>5 DEF Rebuilt
      <3>2. t[i] \in Entry
        BY <1>2
      <3>3. k \in TransmissionID
        BY <3>1, <3>2 DEF Entry
      <3>4. transmission_ids'[k] = i - 1
        BY <3>1, <1>4, <1>5
      <3> QED BY <3>3, <3>4
    <2> QED BY <2>1, <1>2, <1>5 DEF TypeOK
  <1> QED BY <1>6, <1>7, <1>8 DEF IndexInv

\* The index of the ready queue agrees with its VecDeque in every reachable
\* state: types, one index per entry, no index left behind (ready.rs insert,
\* insert_front, remove_front, clear_solutions).
THEOREM IndexCorrect == Spec => []IndexInv
  <1>1. Init => IndexInv
    BY InitIndexInv
  <1>2. IndexInv /\ [Next]_vars => IndexInv'
    <2> SUFFICES ASSUME IndexInv, [Next]_vars PROVE IndexInv'
      OBVIOUS
    <2>1. ASSUME NEW e \in Entry, Insert(e) PROVE IndexInv'
      BY <2>1, InsertIndexInv
    <2>2. ASSUME NEW e \in Entry, InsertFront(e) PROVE IndexInv'
      BY <2>2, InsertFrontIndexInv
    <2>3. CASE RemoveFront
      BY <2>3, RemoveFrontIndexInv
    <2>4. CASE ClearSolutions
      BY <2>4, ClearSolutionsIndexInv
    <2>5. CASE UNCHANGED vars
      BY <2>5 DEF vars, IndexInv, TypeOK, EntriesIndexed, NoStaleIndex, Contains
    <2> QED BY <2>1, <2>2, <2>3, <2>4, <2>5 DEF Next
  <1> QED BY <1>1, <1>2, PTL DEF Spec

\* `get` is exact: the payload queued under the ID, None for every other ID
\* (ready.rs get, through the offset arithmetic).
THEOREM GetCorrect == Spec => []GetAnswersQueued
  <1>1. IndexInv => GetAnswersQueued
    <2> SUFFICES ASSUME IndexInv, NEW k \in TransmissionID
                 PROVE  IF \E i \in 1..Len(transmissions) : transmissions[i].id = k
                        THEN \E i \in 1..Len(transmissions) :
                                transmissions[i].id = k /\ Get(k) = transmissions[i].data
                        ELSE Get(k) = NoTransmission
      BY DEF GetAnswersQueued
    <2>1. CASE \E i \in 1..Len(transmissions) : transmissions[i].id = k
      <3>1. PICK i \in 1..Len(transmissions) : transmissions[i].id = k
        BY <2>1
      <3>2. Contains(k) /\ transmission_ids[k] - offset = i - 1
        BY <3>1 DEF IndexInv, TypeOK, EntriesIndexed
      <3>3. Len(transmissions) \in Nat
        BY DEF IndexInv, TypeOK
      <3>4. Get(k) = transmissions[i].data
        BY <3>2, <3>3 DEF Get
      <3> QED BY <3>1, <3>4
    <2>2. CASE ~\E i \in 1..Len(transmissions) : transmissions[i].id = k
      BY <2>2 DEF Get, Contains, IndexInv, NoStaleIndex
    <2> QED BY <2>1, <2>2
  <1> QED BY <1>1, IndexCorrect, PTL

\* A step of Ready is a step of the abstract queue or leaves it alone: the map
\* refuses exactly the queued IDs, and what clear_solutions retains is all the
\* transactions, in their order.
LEMMA RefinesStep ==
    ASSUME IndexInv, Next
    PROVE  Abstract!Next
  <1>a. \A id : Abstract!Queued(id) => Contains(id)
    BY DEF IndexInv, EntriesIndexed, Abstract!Queued
  <1>b. Abstract!Entry = Entry
    BY DEF Abstract!Entry, Entry
  <1>1. ASSUME NEW e \in Entry, Insert(e) PROVE Abstract!PushBack(e)
    BY <1>1, <1>a DEF Insert, Abstract!PushBack
  <1>2. ASSUME NEW e \in Entry, InsertFront(e) PROVE Abstract!PushFront(e)
    BY <1>2, <1>a DEF InsertFront, Abstract!PushFront
  <1>3. CASE RemoveFront
    BY <1>3 DEF RemoveFront, Abstract!Next, Abstract!PopFront
  <1>4. CASE ClearSolutions
    <2> DEFINE s == transmissions
               t == transmissions'
    <2>0. s \in Seq(Entry)
      BY DEF IndexInv, TypeOK
    <2>n. PICK n \in 0..Len(s) : \E f \in [1..n -> 1..Len(s)] :
              KeepsOrder(f, s) /\ t = [i \in 1..n |-> s[f[i]]]
      BY <1>4 DEF ClearSolutions
    <2>1. PICK f \in [1..n -> 1..Len(s)] :
              KeepsOrder(f, s) /\ t = [i \in 1..n |-> s[f[i]]]
      BY <2>n
    <2>2. /\ t \in Seq(Entry) /\ Len(t) = n
          /\ \A i \in 1..n : t[i] = s[f[i]]
      BY <2>0, <2>1
    <2>3. /\ \A i, j \in 1..n : i < j => f[i] < f[j]
          /\ \A i \in 1..n : f[i] \in 1..Len(s) /\ ~IsSolution(s[f[i]])
          /\ \A k \in 1..Len(s) : ~IsSolution(s[k]) => \E i \in 1..n : f[i] = k
      BY <2>1 DEF KeepsOrder
    <2>4. ASSUME NEW i \in 1..Len(t), NEW j \in 1..Len(t), i < j
          PROVE  \E k, l \in 1..Len(s) : k < l /\ s[k] = t[i] /\ s[l] = t[j]
      <3>1. f[i] \in 1..Len(s) /\ f[j] \in 1..Len(s) /\ f[i] < f[j]
        BY <2>2, <2>3, <2>4
      <3> QED BY <3>1, <2>2
    <2>5. {t[i] : i \in 1..Len(t)} =
             {e \in {s[i] : i \in 1..Len(s)} : Abstract!IsTransaction(e)}
      <3>1. ASSUME NEW i \in 1..Len(t)
            PROVE  /\ t[i] \in {s[k] : k \in 1..Len(s)}
                   /\ Abstract!IsTransaction(t[i])
        BY <2>2, <2>3 DEF Abstract!IsTransaction, IsSolution
      <3>2. ASSUME NEW k \in 1..Len(s), Abstract!IsTransaction(s[k])
            PROVE  s[k] \in {t[i] : i \in 1..Len(t)}
        <4>1. PICK i \in 1..n : f[i] = k
          BY <3>2, <2>3 DEF Abstract!IsTransaction, IsSolution
        <4>2. s[k] = t[i] /\ i \in 1..Len(t)
          BY <4>1, <2>2
        <4> QED BY <4>2
      <3> QED BY <3>1, <3>2
    <2> QED BY <2>2, <2>4, <2>5, <1>b DEF Abstract!Next, Abstract!DropSolutions
  <1> QED BY <1>1, <1>2, <1>3, <1>4, <1>b DEF Next, Abstract!Next

\* ready.rs implements the double-ended queue without duplicates, for any IDs
\* and payloads: every operation, seen through the VecDeque alone, is an
\* operation of the abstract queue.
THEOREM QueueImplemented == Spec => ImplementsQueue
  <1>1. Init => Abstract!Init
    BY DEF Init, Abstract!Init
  <1>2. IndexInv /\ [Next]_vars => [Abstract!Next]_transmissions
    BY RefinesStep DEF vars
  <1> QED BY <1>1, <1>2, IndexCorrect, PTL DEF Spec, ImplementsQueue, Abstract!Spec
=============================================================================
