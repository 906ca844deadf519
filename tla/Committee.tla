------------------------------ MODULE Committee ------------------------------
(***************************************************************************)
(* The development committee.  The chain runs one real validator, number   *)
(* 0, whose keys the primary holds, and forges the proposals and the       *)
(* signatures of the others; all of them have the same stake, so stake is  *)
(* counted in validators.  The thresholds are those of snarkVM's           *)
(* Committee, a dependency: N - f for a quorum, f + 1 for availability,    *)
(* with f the largest number of faulty validators such that 3f < N.        *)
(***************************************************************************)
EXTENDS Integers, FiniteSets

CONSTANT NumValidators      \* the size of the committee, 4 in the code

ASSUME CommitteeAssumption == NumValidators \in Nat \ {0}

Validator == 0..(NumValidators - 1)

\* The validator the primary runs as, which is also the leader of every round.
Self == 0

MaxFaulty == (NumValidators - 1) \div 3

QuorumThreshold == NumValidators - MaxFaulty

AvailabilityThreshold == MaxFaulty + 1

IsQuorum(S) == Cardinality(S) >= QuorumThreshold

IsAvailable(S) == Cardinality(S) >= AvailabilityThreshold
=============================================================================
