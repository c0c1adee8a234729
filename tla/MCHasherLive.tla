---------------------------- MODULE MCHasherLive ----------------------------
(* Hasher for the liveness run, where symmetry would be unsound: three      *)
(* goroutines, each with calls of its own, share one hasher.  Fewer calls   *)
(* for each keep the instance small; between them they make every call.     *)
EXTENDS HasherProperties

CONSTANTS
    Owners,                 \* goroutines that make a hasher, hash and close it
    Updaters,               \* goroutines that change its key
    Watchers                \* goroutines that ask whether it is ready

Calling(g) ==
    UNION {IF g \in Owners THEN {"new", "hash", "close"} ELSE {},
           IF g \in Updaters THEN {"update"} ELSE {},
           IF g \in Watchers THEN {"isready"} ELSE {}}

OwnCalls == \A g \in Goroutines : frame'[g].op \in Calling(g) \cup {"none"}

LiveSpec == Init /\ [][Next /\ OwnCalls]_vars /\ Fairness
=============================================================================
