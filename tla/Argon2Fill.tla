----------------------------- MODULE Argon2Fill -----------------------------
(***************************************************************************)
(* How Argon2d fills the memory that becomes the cache: initializeMemory   *)
(* and the loops of fillMemory and fillSegment, with the data-dependent    *)
(* choice of a reference block by indexAlpha (internal/argon2d).           *)
(*                                                                         *)
(* A block is abstracted to the number of passes folded into it: 0 for the *)
(* zero block that make leaves, 1 from initializeMemory and the first pass *)
(* on.  What indexAlpha is given is any value a block may begin with.      *)
(***************************************************************************)
EXTENDS Integers

CONSTANTS
    passes,             \* timeCost, 3 for the cache
    lanes,              \* 1 for the cache
    segmentLength,      \* laneLength / SyncPoints, 65536 for the cache
    W                   \* 2^32: one more than the largest uint32

SyncPoints == 4
laneLength == SyncPoints * segmentLength
Blocks == 0 .. lanes * laneLength - 1

(* The number of blocks is a multiple of 4 * lanes, as that of Argon2dCache *)
(* is, and a uint32.                                                        *)
ASSUME SizesAssumption ==
    /\ passes \in Nat \ {0} /\ lanes \in Nat \ {0} /\ W \in Nat
    /\ segmentLength \in Nat /\ segmentLength >= 2
    /\ lanes * laneLength < W

VARIABLES
    pc,                     \* "init", "fill" or "done"
    pass, slice, lane,      \* the loops of fillMemory
    index,                  \* the loop of fillSegment
    memory                  \* memory[b]: the passes folded into block b

vars == <<pc, pass, slice, lane, index, memory>>

Init ==
    /\ pc = "init"
    /\ pass = 0 /\ slice = 0 /\ lane = 0 /\ index = 0
    /\ memory = [b \in Blocks |-> 0]

-----------------------------------------------------------------------------
U32(n) == n % W

referenceArea ==
    IF pass = 0 THEN U32(slice * segmentLength + index - 1)
    ELSE U32(laneLength - segmentLength + index - 1)

referenceAreaSize == IF referenceArea = 0 THEN 1 ELSE referenceArea

(* Mutant: later passes that start at the current segment, not after it. *)
startAtSegment ==
    IF pass # 0 /\ slice # SyncPoints - 1 THEN U32(slice * segmentLength) ELSE 0

startPosition ==
    IF pass # 0 /\ slice # SyncPoints - 1 THEN U32((slice + 1) * segmentLength) ELSE 0

(* Mutant: the mapping that is not inverted. *)
relativeNotInverted(J1) == (referenceAreaSize * ((J1 * J1) \div W)) \div W

(* The mapping of the low word J1, which favours recent blocks. *)
relativePosition(J1) ==
    (referenceAreaSize - 1) - (referenceAreaSize * ((J1 * J1) \div W)) \div W

indexAlpha(J1) == (startPosition + relativePosition(J1)) % laneLength

-----------------------------------------------------------------------------
currentIndex == slice * segmentLength + index
currOffset == lane * laneLength + currentIndex
prevOffset == IF currentIndex = 0 THEN lane * laneLength + laneLength - 1
              ELSE currOffset - 1
refOffset(J1) == lane * laneLength + indexAlpha(J1)

(* initializeMemory: the first two blocks of every lane. *)
InitializeMemory ==
    /\ pc = "init"
    /\ memory' = [b \in Blocks |->
                     IF \E l \in 0 .. lanes - 1 : b \in {l * laneLength, l * laneLength + 1}
                     THEN 1 ELSE memory[b]]
    /\ pc' = "fill"
    /\ UNCHANGED <<pass, slice, lane, index>>

Initialized == pass = 0 /\ slice = 0 /\ currentIndex < 2

Skip ==
    /\ pc = "fill" /\ index < segmentLength /\ Initialized
    /\ index' = index + 1
    /\ UNCHANGED <<pc, pass, slice, lane, memory>>

(* What mixing the previous and the reference block adds: nothing if they  *)
(* are the same block, whose XOR is zero, or if one is still blank.        *)
Mixing(prev, ref) == IF prev # ref /\ memory[prev] > 0 /\ memory[ref] > 0 THEN 1 ELSE 0

(* Mutant: XOR mode from the third pass on only. *)
CompressedLateXOR(prev, ref, curr) ==
    (IF pass > 1 THEN memory[curr] ELSE 0) + Mixing(prev, ref)

(* fillBlock: overwrites in the first pass, XORs in the later ones. *)
Compressed(prev, ref, curr) ==
    (IF pass # 0 THEN memory[curr] ELSE 0) + Mixing(prev, ref)

FillBlockFrom(ref) ==
    /\ pc = "fill" /\ index < segmentLength /\ ~Initialized
    /\ memory' = [memory EXCEPT ![currOffset] = Compressed(prevOffset, ref, currOffset)]
    /\ index' = index + 1
    /\ UNCHANGED <<pc, pass, slice, lane>>

FillBlock == \E J1 \in 0 .. W - 1 : FillBlockFrom(refOffset(J1))

(* The end of a segment: the next lane, slice or pass. *)
AtSegmentEnd == pc = "fill" /\ index = segmentLength

NextLane ==
    /\ AtSegmentEnd /\ lane + 1 < lanes
    /\ lane' = lane + 1 /\ index' = 0
    /\ UNCHANGED <<pc, pass, slice, memory>>

(* Mutant: one slice too many. *)
NextSliceInclusive ==
    /\ AtSegmentEnd /\ lane + 1 = lanes /\ slice + 1 <= SyncPoints
    /\ slice' = slice + 1 /\ lane' = 0 /\ index' = 0
    /\ UNCHANGED <<pc, pass, memory>>

NextSlice ==
    /\ AtSegmentEnd /\ lane + 1 = lanes /\ slice + 1 < SyncPoints
    /\ slice' = slice + 1 /\ lane' = 0 /\ index' = 0
    /\ UNCHANGED <<pc, pass, memory>>

NextPass ==
    /\ AtSegmentEnd /\ lane + 1 = lanes /\ slice + 1 = SyncPoints /\ pass + 1 < passes
    /\ pass' = pass + 1 /\ slice' = 0 /\ lane' = 0 /\ index' = 0
    /\ UNCHANGED <<pc, memory>>

Filled ==
    /\ AtSegmentEnd /\ lane + 1 = lanes /\ slice + 1 = SyncPoints /\ pass + 1 = passes
    /\ pc' = "done"
    /\ UNCHANGED <<pass, slice, lane, index, memory>>

Next ==
    \/ InitializeMemory \/ Skip \/ FillBlock
    \/ NextLane \/ NextSlice \/ NextPass \/ Filled

Spec == Init /\ [][Next]_vars

-----------------------------------------------------------------------------
(* Every variable in its range. *)
TypeOK ==
    /\ pc \in {"init", "fill", "done"}
    /\ pass \in 0 .. passes - 1 /\ slice \in 0 .. SyncPoints - 1
    /\ lane \in 0 .. lanes - 1 /\ index \in 0 .. segmentLength
    /\ memory \in [Blocks -> 0 .. passes]

AboutToFill == pc = "fill" /\ index < segmentLength /\ ~Initialized

(* Whatever value the previous block begins with, the reference block lies *)
(* in the lane, is neither the previous nor the current block, and was     *)
(* filled before: in the first pass earlier in the lane, later never in    *)
(* what is left of the segment, which would read the last pass too early   *)
(* (indexing.go:45-101).                                                   *)
ReferenceAllowed ==
    AboutToFill => \A J1 \in 0 .. W - 1 :
        LET r == indexAlpha(J1) IN
        /\ r < laneLength /\ lane * laneLength + r # prevOffset
        /\ pass = 0 => r < currentIndex
        /\ pass # 0 => r < currentIndex \/ r >= (slice + 1) * segmentLength

(* The two ends of the window: the largest value selects its oldest block, *)
(* zero the block before the previous one, so recent blocks are favoured   *)
(* and none of the window is out of reach (indexing.go:76-82).             *)
oldest == IF pass = 0 \/ slice = SyncPoints - 1 THEN 0 ELSE (slice + 1) * segmentLength
newest == IF currentIndex = 0 THEN laneLength - 2
          ELSE IF currentIndex = 1 THEN laneLength - 1
          ELSE currentIndex - 2

WindowReached ==
    AboutToFill /\ 2 * laneLength < W =>
        indexAlpha(0) = newest /\ indexAlpha(W - 1) = oldest

(* When filling ends, every block of every lane holds the mixing of every  *)
(* pass: none was skipped, overwritten, or mixed with itself or a blank    *)
(* block (core.go:25-88).                                                  *)
CacheComplete == pc = "done" => \A b \in Blocks : memory[b] = passes
=============================================================================
