----------------------------- MODULE FileSearch -----------------------------
(***************************************************************************)
(* file_search_data of Robot/src/wp_utils.c: it reads a file block by      *)
(* block and notes where a target begins.  A block with no target makes    *)
(* it go back by the length of the target, which might lie over the end of *)
(* the block.  A file is the set of places where the target is: each of    *)
(* the targets is found by strstr when all of it is in the block.          *)
(***************************************************************************)
EXTENDS Naturals, Sequences, FiniteSets, SequencesExt

CONSTANTS
  BlockSize,   \* BLOCK_SIZE
  TargetLen,   \* strlen(target)
  MaxSize      \* bound on the size of the file

ASSUME SearchAssumption ==
  {BlockSize, TargetLen, MaxSize} \subseteq Nat \ {0} /\ TargetLen < BlockSize

VARIABLES
  size,     \* of the file
  places,   \* where the target begins in it
  pointer,  \* the file position
  buf,      \* the places found
  searching

searchVars == <<size, places, pointer, buf, searching>>

\* "The gap between two targets must be more than BLOCK_SIZE" (wp_utils.c:98).
Spaced(set) == \A p, q \in set : p < q => q - p > BlockSize

SearchInit ==
  /\ size \in 0 .. MaxSize
  /\ places \in {set \in SUBSET {p \in 0 .. MaxSize : p + TargetLen <= size} : Spaced(set)}
  /\ pointer = 0 /\ buf = <<>> /\ searching = TRUE

\* The first target that fread brings whole into the block.
Block == {p \in places : p >= pointer /\ p + TargetLen <= pointer + BlockSize}
FirstOf(set) == CHOOSE p \in set : \A q \in set : p <= q

\* A block that is not full has met the end of the file, and is not searched.
AtEnd == pointer + BlockSize > size

\* The place in the file of a target in the block.
PlaceOf(p) == (pointer + BlockSize) - BlockSize + (p - pointer)

\* fseek back by the length of the target.  A slip: it does not go back.
BackNone == 0
Back == TargetLen

SearchEnds ==
  /\ searching /\ AtEnd
  /\ searching' = FALSE /\ pointer' = size
  /\ UNCHANGED <<size, places, buf>>

SearchFinds ==
  /\ searching /\ ~AtEnd /\ Block # {}
  /\ buf' = Append(buf, PlaceOf(FirstOf(Block)))
  /\ pointer' = pointer + BlockSize
  /\ UNCHANGED <<size, places, searching>>

SearchGoesBack ==
  /\ searching /\ ~AtEnd /\ Block = {}
  /\ pointer' = pointer + BlockSize - Back
  /\ UNCHANGED <<size, places, buf, searching>>

SearchNext == SearchEnds \/ SearchFinds \/ SearchGoesBack

SearchSpec == SearchInit /\ [][SearchNext]_searchVars

-----------------------------------------------------------------------------
\* Every place that is noted is one of the target, and they come in order, none twice:
\* although blocks overlap after going back.
FoundInOrder ==
  /\ ToSet(buf) \subseteq places
  /\ \A i \in 1 .. Len(buf) - 1 : buf[i] < buf[i + 1]

\* When the search is over, every target is found that ends a block or more before the
\* end of the file, also one that lies over the end of a block.  What lies in the last
\* block may be missed, and a file shorter than a block is not searched.
FoundBeforeTheEnd ==
  ~searching => \A p \in places : p + TargetLen + BlockSize <= size => p \in ToSet(buf)

\* The inductive invariant behind both (MoodProofs): what was found lies before the file
\* position, and every target before it was found.
SearchInv ==
  /\ size \in Nat /\ places \subseteq {p \in Nat : p + TargetLen <= size} /\ Spaced(places)
  /\ pointer \in Nat /\ buf \in Seq(places)
  /\ searching => \A p \in places : p < pointer <=> p \in ToSet(buf)
  /\ FoundInOrder /\ FoundBeforeTheEnd
=============================================================================
