----------------------------- MODULE ByteStream -----------------------------
(***************************************************************************)
(* What a byte generator promises: every seed begins a stream of bytes,    *)
(* and what is read is the next bytes of the stream, none of them twice    *)
(* and none left out.  A seed is replaced only when all that was made of   *)
(* its stream, blockBytes at a time, has been read.                        *)
(***************************************************************************)
EXTENDS Integers

CONSTANTS
    blockBytes,     \* how many bytes are made at a time
    ReadSizes       \* how many bytes are read at once

VARIABLES
    seed,       \* the seed of the stream
    next,       \* the index of the next byte of the stream
    out         \* the bytes read last, each with its seed and its index

streamVars == <<seed, next, out>>

Init == next = 0 /\ out = << >>

Read ==
    \E n \in ReadSizes :
        /\ out' = [k \in 1 .. n |-> [seed |-> seed, index |-> next + k - 1]]
        /\ next' = next + n
        /\ seed' = seed

Reseed ==
    /\ next % blockBytes = 0
    /\ next' = 0
    /\ out' = out

Next == Read \/ Reseed

Spec == Init /\ [][Next]_streamVars
=============================================================================
