-------------------------------- MODULE Ready --------------------------------
(***************************************************************************)
(* The ready queue of a worker, node/bft/src/helpers/ready.rs: a VecDeque  *)
(* of (transmission ID, transmission) pairs beside a hash map from each ID *)
(* to its *logical* index.  The logical index of an entry is its physical  *)
(* index plus `offset`; pushing or popping at the front moves the offset   *)
(* and leaves the map of every other entry alone.                          *)
(*                                                                         *)
(* Physical indices are 0-based in the code and 1-based in a TLA+          *)
(* sequence: entry k of the VecDeque is transmissions[k + 1].              *)
(***************************************************************************)
EXTENDS Integers, Sequences, FiniteSets

CONSTANTS TransmissionID,   \* the transmission IDs
          Transmission,     \* the transmission payloads
          Solution,         \* the payloads that are solutions
          NoTransmission,   \* `None`, the answer of get for an unknown ID
          MaxOffset         \* bound on |offset|; the code's i64 never wraps

ASSUME ReadyAssumption ==
    /\ Solution \subseteq Transmission
    /\ NoTransmission \notin Transmission
    /\ MaxOffset \in Nat

VARIABLES transmission_ids,  \* logical index of each queued ID
          transmissions,     \* the VecDeque, front first
          offset             \* logical index of the front entry

vars == <<transmission_ids, transmissions, offset>>

Entry == [id : TransmissionID, data : Transmission]

-----------------------------------------------------------------------------
(* Queries.                                                                *)

Contains(id) == id \in DOMAIN transmission_ids

\* `(index - self.offset) as usize` turns a negative difference into a huge
\* index, so VecDeque::get answers None outside 0..len-1.
Get(id) ==
    IF Contains(id) /\ transmission_ids[id] - offset \in 0..(Len(transmissions) - 1)
    THEN transmissions[transmission_ids[id] - offset + 1].data
    ELSE NoTransmission

IsSolution(e) == e.data \in Solution

-----------------------------------------------------------------------------
(* Helpers on the two containers.                                          *)

\* HashMap::insert of a new key.
WithIndex(id, index) ==
    [k \in DOMAIN transmission_ids \cup {id} |->
        IF k = id THEN index ELSE transmission_ids[k]]

\* HashMap::remove.
WithoutIndex(id) ==
    [k \in DOMAIN transmission_ids \ {id} |-> transmission_ids[k]]

\* f lists, in increasing order, the positions of s whose entry `retain` keeps.
KeepsOrder(f, s) ==
    /\ \A i, j \in DOMAIN f : i < j => f[i] < f[j]
    /\ {f[i] : i \in DOMAIN f} = {i \in 1..Len(s) : ~IsSolution(s[i])}

\* The index rebuilt by the loop of clear_solutions: the last entry of an ID wins.
Rebuilt(s) ==
    [k \in {s[i].id : i \in 1..Len(s)} |->
        (CHOOSE i \in 1..Len(s) :
            /\ s[i].id = k
            /\ \A j \in 1..Len(s) : s[j].id = k => j <= i) - 1]

-----------------------------------------------------------------------------
(* Operations.  An operation that finds nothing to do returns false or None *)
(* and is a stuttering step, so each action keeps only its effective branch. *)

Init ==
    /\ transmission_ids = [k \in {} |-> 0]
    /\ transmissions = << >>
    /\ offset = 0

\* insert: push_back, under logical index len + offset.
Insert(e) ==
    /\ ~Contains(e.id)
    /\ transmission_ids' = WithIndex(e.id, Len(transmissions) + offset)
    /\ transmissions' = Append(transmissions, e)
    /\ UNCHANGED offset

\* Mutant: the new front entry is indexed by the offset it had before.
InsertFrontOldOffset(e) ==
    /\ ~Contains(e.id)
    /\ offset > -MaxOffset
    /\ offset' = offset - 1
    /\ transmission_ids' = WithIndex(e.id, offset)
    /\ transmissions' = <<e>> \o transmissions

\* insert_front: the offset moves down and becomes the new entry's index.
InsertFront(e) ==
    /\ ~Contains(e.id)
    /\ offset > -MaxOffset
    /\ offset' = offset - 1
    /\ transmission_ids' = WithIndex(e.id, offset - 1)
    /\ transmissions' = <<e>> \o transmissions

\* Mutant: the popped ID stays in the map.
RemoveFrontKeepsId ==
    /\ transmissions # << >>
    /\ offset < MaxOffset
    /\ transmissions' = Tail(transmissions)
    /\ UNCHANGED transmission_ids
    /\ offset' = offset + 1

\* remove_front: the offset moves up, or restarts at 0 when the map is empty.
RemoveFront ==
    /\ transmissions # << >>
    /\ offset < MaxOffset
    /\ transmissions' = Tail(transmissions)
    /\ transmission_ids' = WithoutIndex(Head(transmissions).id)
    /\ offset' = IF DOMAIN transmission_ids' = {} THEN 0 ELSE offset + 1

\* Mutant: the index is rebuilt but the offset is not reset.
ClearSolutionsKeepsOffset ==
    /\ \E n \in 0..Len(transmissions) :
         \E f \in [1..n -> 1..Len(transmissions)] :
            /\ KeepsOrder(f, transmissions)
            /\ transmissions' = [i \in 1..n |-> transmissions[f[i]]]
    /\ transmission_ids' = Rebuilt(transmissions')
    /\ UNCHANGED offset

\* Mutant: solutions are dropped one pair at a time by swapping in the last
\* entry (swap_remove), which does not keep the order of the others.
SwapRemoveSolution ==
    /\ \E i \in 1..Len(transmissions) :
         /\ IsSolution(transmissions[i])
         /\ transmissions' =
              [j \in 1..(Len(transmissions) - 1) |->
                 IF j = i THEN transmissions[Len(transmissions)] ELSE transmissions[j]]
    /\ transmission_ids' = Rebuilt(transmissions')
    /\ offset' = 0

\* clear_solutions: retain the transactions, rebuild the index from 0.
ClearSolutions ==
    /\ \E n \in 0..Len(transmissions) :
         \E f \in [1..n -> 1..Len(transmissions)] :
            /\ KeepsOrder(f, transmissions)
            /\ transmissions' = [i \in 1..n |-> transmissions[f[i]]]
    /\ transmission_ids' = Rebuilt(transmissions')
    /\ offset' = 0

Next ==
    \/ \E e \in Entry : Insert(e) \/ InsertFront(e)
    \/ RemoveFront
    \/ ClearSolutions

Spec == Init /\ [][Next]_vars

-----------------------------------------------------------------------------
(* Properties.                                                             *)

\* The containers hold what the struct of ready.rs declares.
TypeOK ==
    /\ DOMAIN transmission_ids \subseteq TransmissionID
    /\ \A k \in DOMAIN transmission_ids : transmission_ids[k] \in Int
    /\ transmissions \in Seq(Entry)
    /\ offset \in Int

\* Every entry of the VecDeque is indexed by its physical index plus the offset.
EntriesIndexed ==
    \A i \in 1..Len(transmissions) :
        /\ Contains(transmissions[i].id)
        /\ transmission_ids[transmissions[i].id] = i - 1 + offset

\* The map holds no ID that left the VecDeque.
NoStaleIndex ==
    \A k \in DOMAIN transmission_ids :
        \E i \in 1..Len(transmissions) : transmissions[i].id = k

\* The index and the VecDeque of ready.rs never disagree, whatever sequence of
\* front and back operations led here: both directions of the map.
IndexInv == TypeOK /\ EntriesIndexed /\ NoStaleIndex

\* `get` returns the payload that was queued under the very ID asked for, and
\* None exactly for the IDs that are not queued (ready.rs `get`, whose index
\* arithmetic goes through the offset).
GetAnswersQueued ==
    \A k \in TransmissionID :
        IF \E i \in 1..Len(transmissions) : transmissions[i].id = k
        THEN \E i \in 1..Len(transmissions) :
                transmissions[i].id = k /\ Get(k) = transmissions[i].data
        ELSE Get(k) = NoTransmission

Abstract == INSTANCE ReadyQueue WITH queue <- transmissions

\* ready.rs implements the double-ended queue without duplicates: in particular
\* `contains`, which only looks at the map, refuses exactly the queued IDs, and
\* clear_solutions keeps the order of what it retains.
ImplementsQueue == Abstract!Spec
=============================================================================
