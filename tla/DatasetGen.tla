----------------------------- MODULE DatasetGen -----------------------------
(***************************************************************************)
(* dataset.generate (dataset.go): the caller starts one goroutine for each *)
(* processor, gives each a range of items, and waits on a sync.WaitGroup   *)
(* until all have finished.  Every item is 64 bytes of one shared slice,   *)
(* computed by generateItem from the cache, which nobody writes meanwhile: *)
(* its contents are abstracted to whether they have been made.             *)
(***************************************************************************)
EXTENDS Integers

CONSTANTS
    datasetItems,       \* number of 64-byte items
    numWorkers          \* runtime.NumCPU()

ASSUME ItemsAssumption == datasetItems \in Nat
ASSUME WorkersAssumption == numWorkers \in Nat \ {0}

VARIABLES
    main,       \* where the caller of generate is
    w,          \* its loop variable: the workers started so far
    wg,         \* the counter of the WaitGroup
    worker,     \* worker[i]: where goroutine i is, its range and its item
    made        \* made[n]: item n has been written

vars == <<main, w, wg, worker, made>>

Items == 0 .. datasetItems - 1
WorkerIDs == 0 .. numWorkers - 1

Unstarted == [pc |-> "unstarted", item |-> 0, end |-> 0]

Init ==
    /\ main = "spawn"
    /\ w = 0
    /\ wg = 0
    /\ worker = [i \in WorkerIDs |-> Unstarted]
    /\ made = [n \in Items |-> FALSE]

-----------------------------------------------------------------------------
itemsPerWorker == datasetItems \div numWorkers

Start(i) == i * itemsPerWorker

(* Mutant: the last worker is not given the remainder. *)
EndNoRemainder(i) == Start(i) + itemsPerWorker

(* Mutant: an end that is taken for the last item of the range. *)
EndInclusive(i) ==
    IF i = numWorkers - 1 THEN datasetItems ELSE Start(i) + itemsPerWorker + 1

End(i) == IF i = numWorkers - 1 THEN datasetItems ELSE Start(i) + itemsPerWorker

(* Mutant: wg.Add left to the goroutine, which may run late. *)
SpawnUncounted ==
    /\ main = "spawn" /\ w < numWorkers
    /\ worker' = [worker EXCEPT ![w].pc = "started"]
    /\ w' = w + 1
    /\ UNCHANGED <<main, wg, made>>

(* wg.Add(1), then the go statement. *)
Spawn ==
    /\ main = "spawn" /\ w < numWorkers
    /\ wg' = wg + 1
    /\ worker' = [worker EXCEPT ![w].pc = "started"]
    /\ w' = w + 1
    /\ UNCHANGED <<main, made>>

SpawnedAll ==
    /\ main = "spawn" /\ w = numWorkers
    /\ main' = "wait"
    /\ UNCHANGED <<w, wg, worker, made>>

(* wg.Wait.  No worker sends on errChan: the select takes its default.     *)
Wait ==
    /\ main = "wait" /\ wg = 0
    /\ main' = "done"
    /\ UNCHANGED <<w, wg, worker, made>>

(* A goroutine begins: its range. *)
Begin(i) ==
    /\ worker[i].pc = "started"
    /\ worker' = [worker EXCEPT ![i] =
                     [pc |-> "loop", item |-> Start(i), end |-> End(i)]]
    /\ UNCHANGED <<main, w, wg, made>>

(* One turn of its loop: generateItem into data[item*64 : item*64+64]. *)
Generate(i) ==
    /\ worker[i].pc = "loop" /\ worker[i].item < worker[i].end
    /\ made' = [made EXCEPT ![worker[i].item] = TRUE]
    /\ worker' = [worker EXCEPT ![i].item = worker[i].item + 1]
    /\ UNCHANGED <<main, w, wg>>

(* The deferred wg.Done. *)
Done(i) ==
    /\ worker[i].pc = "loop" /\ worker[i].item >= worker[i].end
    /\ worker' = [worker EXCEPT ![i].pc = "done"]
    /\ wg' = wg - 1
    /\ UNCHANGED <<main, w, made>>

Worker(i) == Begin(i) \/ Generate(i) \/ Done(i)

Main == Spawn \/ SpawnedAll \/ Wait

Next == Main \/ \E i \in WorkerIDs : Worker(i)

Spec == Init /\ [][Next]_vars

(* The scheduler runs every runnable goroutine. *)
FairSpec == Spec /\ WF_vars(Main) /\ \A i \in WorkerIDs : WF_vars(Worker(i))

-----------------------------------------------------------------------------
(* Every variable in its range; wg.Done never takes the counter below zero, *)
(* which panics.                                                           *)
TypeOK ==
    /\ main \in {"spawn", "wait", "done"}
    /\ w \in 0 .. numWorkers
    /\ wg \in 0 .. numWorkers
    /\ worker \in [WorkerIDs -> [pc : {"unstarted", "started", "loop", "done"},
                                 item : Nat, end : Nat]]
    /\ made \in [Items -> BOOLEAN]

(* generate returns with every item of the dataset made, however the items *)
(* divide among the workers and whoever finishes last: none is left zero   *)
(* (dataset.go:48-71).                                                     *)
CompleteOnReturn == main = "done" => \A n \in Items : made[n]

(* No two workers have the same item ahead of them, and none goes beyond   *)
(* the slice: the 64-byte windows they write without a lock are disjoint   *)
(* (dataset.go:58-66).                                                     *)
DisjointWindows ==
    \A i \in WorkerIDs : worker[i].pc = "loop" =>
        /\ worker[i].end <= datasetItems
        /\ \A j \in WorkerIDs \ {i} : worker[j].pc = "loop" =>
              \/ worker[i].item >= worker[i].end
              \/ worker[j].item >= worker[j].end
              \/ worker[i].end <= worker[j].item
              \/ worker[j].end <= worker[i].item

(* After generate has returned no worker touches the dataset any more: the *)
(* caller hands it to hashes that read it without a lock, and to release.  *)
QuietAfterReturn == [][main = "done" => UNCHANGED made]_vars

(* generate returns: the counter comes down to zero for every split of the *)
(* items, an empty range included.                                         *)
Returns == <>(main = "done")
=============================================================================
