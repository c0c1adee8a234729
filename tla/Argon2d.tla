------------------------------ MODULE Argon2d ------------------------------
(***************************************************************************)
(* Argon2d and Argon2dCache (internal/argon2d/argon2d.go): the filling of  *)
(* Argon2Fill with the wiring of Argon2Block, from the first blocks that   *)
(* Blake2bLong makes to the cache, or to a tag that finalizeHash makes.    *)
(*                                                                         *)
(* One word of one first block is watched: words[b] are the words of block *)
(* b that have come to depend on it.                                       *)
(***************************************************************************)
EXTENDS Argon2Fill, Argon2Block

CONSTANTS
    Watched,            \* the words of a block of which any is watched
    TagLengths          \* the lengths of a tag that are asked for

ASSUME WatchedAssumption == Watched \subseteq WordIndices /\ TagLengths \subseteq Nat

VARIABLES
    watched,            \* the block and the word that are watched
    words,              \* words[b]: the words of b that depend on it
    tagLength,          \* 0 for Argon2dCache, which makes no tag
    tag                 \* the words it is made of, and how Blake2bLong does

argonVars == <<vars, watched, words, tagLength, tag>>

FirstBlocks == {0, 1}

ArgonInit ==
    /\ Init
    /\ watched \in FirstBlocks \X Watched
    /\ words = [b \in Blocks |-> {}]
    /\ tagLength = 0 /\ tag = [final |-> {}, pieces |-> << >>]

(* initializeMemory, of which the watched word is one word of one block.     *)
(* FromBytes cannot fail here: Blake2bLong answers with a slice that it has *)
(* made of as many bytes as it is asked for.                                *)
ArgonInitialize ==
    /\ InitializeMemory
    /\ words' = [b \in Blocks |-> IF b = watched[1] THEN {watched[2]} ELSE words[b]]
    /\ UNCHANGED <<watched, tagLength, tag>>

ArgonFillBlock ==
    /\ pc = "fill" /\ index < segmentLength
    /\ \E ref \in {refOffset(J1) : J1 \in 0 .. W - 1} :
        /\ FillBlockFrom(ref)
        /\ words' = [words EXCEPT ![currOffset] =
                        fillBlock(words[prevOffset], words[ref], words[currOffset], pass # 0)]
    /\ UNCHANGED <<watched, tagLength, tag>>

ArgonLoops ==
    /\ Skip \/ NextLane \/ NextSlice \/ NextPass \/ Filled
    /\ UNCHANGED <<watched, words, tagLength, tag>>

(* finalizeHash, which Argon2d calls and Argon2dCache does not: the XOR of   *)
(* all blocks of the first lane is hashed.  Which length was asked for is    *)
(* chosen here, where it is used.                                            *)
FinalizeHash ==
    /\ pc = "done" /\ tagLength = 0
    /\ tagLength' \in TagLengths \ {0}
    /\ tag' = [final  |-> UNION {words[b] : b \in 0 .. laneLength - 1},
               pieces |-> Blake2bLong(tagLength')]
    /\ UNCHANGED <<vars, watched, words>>

ArgonNext == ArgonInitialize \/ ArgonFillBlock \/ ArgonLoops \/ FinalizeHash

ArgonSpec == ArgonInit /\ [][ArgonNext]_argonVars

-----------------------------------------------------------------------------
(* Every word of every block of the lane depends on every word of its two  *)
(* first blocks when it has been filled: the groups of the permutation      *)
(* leave no word of a block out of reach of another, and no pass loses what *)
(* the one before it mixed in (compression.go:25-112, g.go:50-64).          *)
Diffused ==
    pc = "done" =>
        \A b \in 0 .. laneLength - 1 : words[b] = WordIndices

(* The pieces of a tag, of whatever length, are those of RFC 9106, section  *)
(* 3.3, which "Argon2 spec section 3.1" in the comment of Blake2bLong       *)
(* stands for: r hashes of 64 bytes that give 32 each, and one of what is   *)
(* left, which is more than 32 and at most 64 (blake2b_long.go:37-104).     *)
(* And the watched word reaches every word of what is hashed: here the      *)
(* exclusive or of the whole first lane, as the code has it                 *)
(* (argon2d.go:155-176), where the RFC combines the last blocks of lanes.   *)
Specified(outlen) ==
    IF outlen <= 64 THEN <<Piece(outlen, outlen)>>
    ELSE LET r == (outlen + 31) \div 32 - 2
         IN  [k \in 1 .. r + 1 |->
                 IF k <= r THEN Piece(64, 32) ELSE Piece(outlen - 32 * r, outlen - 32 * r)]

TagAsSpecified ==
    tagLength > 0 => tag = [final |-> WordIndices, pieces |-> Specified(tagLength)]
=============================================================================
