---------------------------- MODULE BlockLocators ----------------------------
(***************************************************************************)
(* The block locators, node/sync/src/block_locators.rs, and how the sync   *)
(* module builds them from the chain (get_block_locators,                  *)
(* node/bft/src/sync/mod.rs).  Pure operators.                             *)
(*                                                                         *)
(* An IndexMap from heights to hashes keeps the order of insertion, which  *)
(* the checks look at: it is a sequence of entries with distinct heights.  *)
(* A chain is a function from 0..h to hashes.                              *)
(***************************************************************************)
EXTENDS Integers, SequencesExt

CONSTANTS NumRecentBlocks,      \* NUM_RECENT_BLOCKS; RECENT_INTERVAL is 1
          CheckpointInterval,   \* CHECKPOINT_INTERVAL
          MaxHeight             \* u32::MAX

ASSUME LocatorsAssumption ==
    /\ NumRecentBlocks \in Nat \ {0}
    /\ CheckpointInterval \in Nat
    /\ NumRecentBlocks < CheckpointInterval
    /\ MaxHeight \in Nat

Entry(height, hash) == [height |-> height, hash |-> hash]

Heights(map) == {map[i].height : i \in DOMAIN map}

\* IndexMap::insert: a known key keeps its place.
IndexInsert(map, entry) ==
    IF entry.height \in Heights(map)
    THEN [i \in DOMAIN map |-> IF map[i].height = entry.height THEN entry ELSE map[i]]
    ELSE Append(map, entry)

HashAt(map, height) == map[CHOOSE i \in DOMAIN map : map[i].height = height].hash

LastHeight(map) == map[Len(map)].height

\* has_duplicates
HasDuplicates(map) == \E i, j \in DOMAIN map : i # j /\ map[i].hash = map[j].hash

MinOf(a, b) == IF a <= b THEN a ELSE b

SaturatingAdd(a, b) == MinOf(a + b, MaxHeight)

-----------------------------------------------------------------------------
(* The checks of received locators.                                        *)

\* check_recent_blocks
CheckRecentBlocks(recents) ==
    /\ recents # <<>>
    /\ Len(recents) <= NumRecentBlocks
    /\ Len(recents) < NumRecentBlocks => recents[1].height = 0
    /\ \A i \in 2..Len(recents) : recents[i].height = recents[i - 1].height + 1
    /\ LastHeight(recents) >= NumRecentBlocks => Len(recents) = NumRecentBlocks
    /\ ~HasDuplicates(recents)

\* check_block_checkpoints
CheckBlockCheckpoints(checkpoints) ==
    /\ checkpoints # <<>>
    /\ checkpoints[1].height = 0
    /\ \A i \in 2..Len(checkpoints) :
          checkpoints[i].height = checkpoints[i - 1].height + CheckpointInterval
    /\ ~HasDuplicates(checkpoints)

\* The last checkpoint is the last multiple of the interval up to the last recent block.
LastCheckpointFits(recents, checkpoints) ==
    LET last == LastHeight(checkpoints)
    IN  /\ last <= LastHeight(recents)
        /\ LastHeight(recents) < SaturatingAdd(last, CheckpointInterval)

\* The height both maps have, if the last recent blocks reach back to a checkpoint.
Overlaps(recents) == LastHeight(recents) % CheckpointInterval < NumRecentBlocks
Common(recents) == LastHeight(recents) - (LastHeight(recents) % CheckpointInterval)

\* The part of check_block_locators before the two lookups that are unwrapped.
LooksUp(recents, checkpoints) ==
    /\ CheckRecentBlocks(recents)
    /\ CheckBlockCheckpoints(checkpoints)
    /\ LastCheckpointFits(recents, checkpoints)
    /\ Overlaps(recents)

\* Mutant: the hashes of the common height are not compared.
CheckBlockLocatorsApart(recents, checkpoints) ==
    /\ CheckRecentBlocks(recents)
    /\ CheckBlockCheckpoints(checkpoints)
    /\ LastCheckpointFits(recents, checkpoints)

\* check_block_locators
CheckBlockLocators(recents, checkpoints) ==
    /\ CheckRecentBlocks(recents)
    /\ CheckBlockCheckpoints(checkpoints)
    /\ LastCheckpointFits(recents, checkpoints)
    /\ Overlaps(recents) => HashAt(recents, Common(recents))
                              = HashAt(checkpoints, Common(recents))

IsValid(locators) == CheckBlockLocators(locators.recents, locators.checkpoints)

Locators(recents, checkpoints) == [recents |-> recents, checkpoints |-> checkpoints]

\* new: the locators, or none of them where the check fails.
New(recents, checkpoints) == {locators \in {Locators(recents, checkpoints)} : IsValid(locators)}

Agree(old, new) ==
    \A i \in DOMAIN new, j \in DOMAIN old :
        new[i].height = old[j].height => new[i].hash = old[j].hash

\* check_consistent_block_locators
IsConsistentWith(old, new) ==
    /\ Agree(old.recents, new.recents)
    /\ Agree(old.checkpoints, new.checkpoints)

-----------------------------------------------------------------------------
(* get_block_locators, for a chain of latest height h.                     *)

FirstRecent(h) == IF h > NumRecentBlocks - 1 THEN h - (NumRecentBlocks - 1) ELSE 0

Recents(chain, h) ==
    [i \in 1..(h - FirstRecent(h) + 1) |->
        Entry(FirstRecent(h) + i - 1, chain[FirstRecent(h) + i - 1])]

\* Mutant: the documentation's reading, where multiples go up to the number of blocks.
CheckpointsPastTip(chain, h) ==
    [i \in 1..((h + 1) \div CheckpointInterval + 1) |->
        Entry((i - 1) * CheckpointInterval,
              chain[MinOf((i - 1) * CheckpointInterval, h)])]

Checkpoints(chain, h) ==
    [i \in 1..(h \div CheckpointInterval + 1) |->
        Entry((i - 1) * CheckpointInterval, chain[(i - 1) * CheckpointInterval])]

GetBlockLocators(chain, h) == New(Recents(chain, h), Checkpoints(chain, h))

-----------------------------------------------------------------------------
(* The byte format, with a count or an entry as the unit.                  *)

\* write_le
WriteLe(locators) ==
    <<Len(locators.recents)>> \o locators.recents
        \o <<Len(locators.checkpoints)>> \o locators.checkpoints

\* The entries read one after the other into a map.
ReadMap(entries) ==
    LET map[k \in 0..Len(entries)] ==
            IF k = 0 THEN <<>> ELSE IndexInsert(map[k - 1], entries[k])
    IN  map[Len(entries)]

\* Mutant: the maps are taken as they are read.
ReadLeUnchecked(words) ==
    LET num_recents == words[1]
        num_checkpoints == words[num_recents + 2]
    IN  {Locators(ReadMap(SubSeq(words, 2, num_recents + 1)),
                  ReadMap(SubSeq(words, num_recents + 3, num_recents + num_checkpoints + 2)))}

\* read_le, which ends in `new`: what is read may be refused.
ReadLe(words) ==
    LET num_recents == words[1]
        num_checkpoints == words[num_recents + 2]
    IN  New(ReadMap(SubSeq(words, 2, num_recents + 1)),
            ReadMap(SubSeq(words, num_recents + 3, num_recents + num_checkpoints + 2)))

-----------------------------------------------------------------------------
(* The reference: the locators of a validator with n blocks, as the code   *)
(* builds them.  The documentation of the structure gives the same recent  *)
(* blocks.  Its checkpoints are the multiples of the interval up to n      *)
(* (block_locators.rs:52); the last block has height n - 1, and where n is *)
(* a multiple the documentation names a block that does not exist.  The    *)
(* reference, like the code, has the multiples below n.                    *)

\* The recent entries are the last NumRecentBlocks blocks, or all of them; the
\* checkpoints are the multiples of the interval below n.
WellFormedFor(recents, checkpoints, n) ==
    LET first == IF n > NumRecentBlocks THEN n - NumRecentBlocks ELSE 0
    IN  /\ Len(recents) = n - first
        /\ \A i \in DOMAIN recents : recents[i].height = first + i - 1
        /\ Heights(checkpoints) = {k \in 0..(n - 1) : k % CheckpointInterval = 0}
        /\ \A i, j \in DOMAIN checkpoints :
              i < j => checkpoints[i].height < checkpoints[j].height
        /\ Agree(recents, checkpoints)
        /\ ~HasDuplicates(recents) /\ ~HasDuplicates(checkpoints)

WellFormed(recents, checkpoints, MaxBlocks) ==
    \E n \in 1..MaxBlocks : WellFormedFor(recents, checkpoints, n)
=============================================================================
