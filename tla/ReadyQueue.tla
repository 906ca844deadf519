----------------------------- MODULE ReadyQueue -----------------------------
(***************************************************************************)
(* What the ready queue of a worker promises: a double-ended queue of      *)
(* transmissions in which every transmission ID occurs at most once.  It   *)
(* says nothing about how an ID is found; the module Ready, which          *)
(* translates node/bft/src/helpers/ready.rs, implements it.                *)
(***************************************************************************)
EXTENDS Naturals, Sequences

CONSTANTS TransmissionID,   \* the transmission IDs
          Transmission,     \* the transmission payloads
          Solution          \* the payloads that are solutions

VARIABLE queue              \* the queued entries, front first

Entry == [id : TransmissionID, data : Transmission]

Queued(id) == \E i \in 1..Len(queue) : queue[i].id = id

IsTransaction(e) == e.data \notin Solution

Init == queue = << >>

PushBack(e) ==
    /\ ~Queued(e.id)
    /\ queue' = Append(queue, e)

PushFront(e) ==
    /\ ~Queued(e.id)
    /\ queue' = <<e>> \o queue

PopFront ==
    /\ queue # << >>
    /\ queue' = Tail(queue)

\* The entries that are left are the transactions, in the order they had.
DropSolutions ==
    /\ queue' \in Seq(Entry)
    /\ {queue'[i] : i \in 1..Len(queue')} =
         {e \in {queue[i] : i \in 1..Len(queue)} : IsTransaction(e)}
    /\ \A i, j \in 1..Len(queue') : i < j =>
         \E k, l \in 1..Len(queue) :
            k < l /\ queue[k] = queue'[i] /\ queue[l] = queue'[j]

Next ==
    \/ \E e \in Entry : PushBack(e) \/ PushFront(e)
    \/ PopFront
    \/ DropSolutions

Spec == Init /\ [][Next]_queue
=============================================================================
