----------------------------- MODULE Scratchpad -----------------------------
(***************************************************************************)
(* Addresses of the scratchpad of a virtual machine (memory.go, vm.go).    *)
(***************************************************************************)
EXTENDS Integers

CONSTANTS
    wordBytes,              \* 8: what a word takes in the scratchpad
    scratchpadL3Size        \* 2097152 bytes

ASSUME ScratchpadAssumption ==
    /\ wordBytes \in Nat \ {0}
    /\ scratchpadL3Size \in Nat /\ scratchpadL3Size >= wordBytes

(* Addresses of words of the scratchpad. *)
Addresses == {a \in 0 .. scratchpadL3Size - 1 : a % wordBytes = 0}

(* Where readMemory and writeMemory go for an address: into the scratchpad, *)
(* down to a word, and to the last word if it does not fit.                 *)
accessed(addr) ==
    LET inside  == addr % scratchpadL3Size
        aligned == inside - (inside % wordBytes)
    IN  IF aligned + wordBytes > scratchpadL3Size
        THEN scratchpadL3Size - wordBytes ELSE aligned
=============================================================================
