--------------------------- MODULE ByteGenerators ---------------------------
(***************************************************************************)
(* The pseudo-random byte generators: blake2Generator, aesGenerator1R and  *)
(* aesGenerator4R (blake2_generator.go, aes_generator.go).  They differ in *)
(* the function that makes the next state, which is left uninterpreted: a  *)
(* state is the number of times it was applied to the state that the seed  *)
(* gave.  The seed itself is state 0, and pos keeps it from being read.    *)
(***************************************************************************)
EXTENDS Integers

CONSTANT stateBytes         \* 64

ASSUME StateAssumption == stateBytes \in Nat \ {0}

(* A new generator, and one after setState. *)
newGenerator(seed) == [seed |-> seed, state |-> 0, pos |-> stateBytes]

(* Mutant: the first byte of every state is passed over. *)
generateFromOne(g) == [seed |-> g.seed, state |-> g.state + 1, pos |-> 1]

generate(g) == [seed |-> g.seed, state |-> g.state + 1, pos |-> 0]

(* getByte: refill if necessary, take the byte at pos, go on to the next. *)
refilled(g) == IF g.pos >= stateBytes THEN generate(g) ELSE g
getByte(g) == [refilled(g) EXCEPT !.pos = @ + 1]
byteOf(g) == [seed |-> g.seed, state |-> refilled(g).state, pos |-> refilled(g).pos]

(* getBytes: the generator after n bytes, and the bytes. *)
after(g, n) ==
    LET taken[k \in 0 .. n] == IF k = 0 THEN g ELSE getByte(taken[k - 1])
    IN  taken

getBytes(g, n) == after(g, n)[n]
bytesOf(g, n) == [k \in 1 .. n |-> byteOf(after(g, n)[k - 1])]
=============================================================================
