------------------------------ MODULE RWMutex ------------------------------
(***************************************************************************)
(* The reader/writer lock the Hasher uses, sync.RWMutex of the Go runtime, *)
(* modelled from how randomx.go uses it and from the guarantees its        *)
(* package documents.  A lock is a record                                  *)
(*                                                                         *)
(*   writer  : the goroutine that has announced itself as the writer, from *)
(*             the moment Lock wins the inner mutex until Unlock, or NoG   *)
(*   readers : the goroutines that hold the lock for reading               *)
(*   waiting : the goroutines whose RLock found a writer announced         *)
(*                                                                         *)
(* A pending writer holds back new readers, and Unlock admits every reader *)
(* it held back before another writer can announce itself.                 *)
(***************************************************************************)
CONSTANTS
    Goroutines,     \* the callers
    NoG             \* no goroutine

ASSUME NoGNotGoroutine == NoG \notin Goroutines

Mutexes == [writer  : Goroutines \cup {NoG},
            readers : SUBSET Goroutines,
            waiting : SUBSET Goroutines]

UnlockedMutex == [writer |-> NoG, readers |-> {}, waiting |-> {}]

(* RLock: join the readers at once, or queue behind the announced writer. *)
RLockBy(m, g) ==
    IF m.writer = NoG
    THEN [m EXCEPT !.readers = m.readers \cup {g}]
    ELSE [m EXCEPT !.waiting = m.waiting \cup {g}]

RUnlockBy(m, g) == [m EXCEPT !.readers = m.readers \ {g}]

(* First half of Lock: win the inner mutex, which one writer holds at a    *)
(* time, and turn away the readers that come later.                        *)
CanAnnounce(m) == m.writer = NoG
AnnounceBy(m, g) == [m EXCEPT !.writer = g]

(* Second half of Lock: the readers that were inside have left. *)
Drained(m) == m.readers = {}

UnlockBy(m) ==
    [writer |-> NoG, readers |-> m.readers \cup m.waiting, waiting |-> {}]

(* The lock is held for writing by g. *)
HeldForWriting(m, g) == m.writer = g /\ m.readers = {}
=============================================================================
