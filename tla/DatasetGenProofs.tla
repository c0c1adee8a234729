-------------------------- MODULE DatasetGenProofs --------------------------
(***************************************************************************)
(* The properties of DatasetGen for every number of items and processors.  *)
(***************************************************************************)
EXTENDS DatasetGen, FiniteSetTheorems, TLAPS

(* The workers that the WaitGroup counts. *)
Running == {i \in WorkerIDs : worker[i].pc \in {"started", "loop"}}

(* Why generate is complete: the counter is the number of workers at work, *)
(* and each has made the items of its range up to the one it is at.        *)
Counted == wg = Cardinality(Running)

Started ==
    /\ main # "spawn" => w = numWorkers
    /\ main = "done" => Running = {}
    /\ \A i \in WorkerIDs : worker[i].pc # "unstarted" <=> i < w

InRange(i) == Start(i) <= worker[i].item /\ worker[i].item <= End(i)

Ranges ==
    \A i \in WorkerIDs : worker[i].pc \in {"loop", "done"} =>
        /\ worker[i].end = End(i) /\ InRange(i)
        /\ worker[i].pc = "done" => worker[i].item = End(i)

Progress ==
    \A i \in WorkerIDs : worker[i].pc \in {"loop", "done"} =>
        \A n \in Items : Start(i) <= n /\ n < worker[i].item => made[n]

IInv == TypeOK /\ Counted /\ Started /\ Ranges /\ Progress

-----------------------------------------------------------------------------
(* The ranges the workers are given: within the dataset, one after the     *)
(* other, and leaving nothing out.                                         *)

LEMMA Quotient ==
    /\ itemsPerWorker \in Nat
    /\ itemsPerWorker * numWorkers <= datasetItems
    /\ datasetItems < itemsPerWorker * numWorkers + numWorkers
<1>. USE ItemsAssumption, WorkersAssumption DEF itemsPerWorker
<1>1. datasetItems = numWorkers * (datasetItems \div numWorkers) + (datasetItems % numWorkers)
  OBVIOUS
<1>2. datasetItems % numWorkers \in 0 .. numWorkers - 1
  OBVIOUS
<1>3. datasetItems \div numWorkers \in Nat
  OBVIOUS
<1>. QED  BY <1>1, <1>2, <1>3

LEMMA Monotone ==
    ASSUME NEW i \in Nat, NEW j \in Nat, i <= j, NEW q \in Nat
    PROVE  i * q \in Nat /\ j * q \in Nat /\ i * q <= j * q
<1>1. PICK k \in Nat : j = i + k
  <2>. WITNESS j - i \in Nat
  <2>. QED  OBVIOUS
<1>2. j * q = i * q + k * q
  BY <1>1
<1>. QED  BY <1>2

LEMMA RangeBounds ==
    ASSUME NEW i \in WorkerIDs
    PROVE  /\ Start(i) \in Nat /\ End(i) \in Nat
           /\ Start(i) <= End(i) /\ End(i) <= datasetItems
<1>. USE ItemsAssumption, WorkersAssumption, Quotient
<1>1. i \in Nat /\ i <= numWorkers /\ i + 1 <= numWorkers
  BY DEF WorkerIDs
<1>2. i * itemsPerWorker <= numWorkers * itemsPerWorker /\ i * itemsPerWorker \in Nat
  BY <1>1, Monotone
<1>3. (i + 1) * itemsPerWorker <= numWorkers * itemsPerWorker
  BY <1>1, Monotone
<1>4. (i + 1) * itemsPerWorker = i * itemsPerWorker + itemsPerWorker
  BY <1>1
<1>. QED  BY <1>1, <1>2, <1>3, <1>4 DEF Start, End

LEMMA RangesInOrder ==
    ASSUME NEW i \in WorkerIDs, NEW j \in WorkerIDs, i < j
    PROVE  End(i) <= Start(j)
<1>. USE ItemsAssumption, WorkersAssumption, Quotient
<1>1. i \in Nat /\ j \in Nat /\ i + 1 <= j /\ i # numWorkers - 1
  BY DEF WorkerIDs
<1>2. (i + 1) * itemsPerWorker <= j * itemsPerWorker
  BY <1>1, Monotone
<1>3. (i + 1) * itemsPerWorker = i * itemsPerWorker + itemsPerWorker
  BY <1>1
<1>. QED  BY <1>1, <1>2, <1>3 DEF Start, End

LEMMA EveryItemHasAWorker ==
    ASSUME NEW n \in Items
    PROVE  \E i \in WorkerIDs : Start(i) <= n /\ n < End(i)
<1>. USE ItemsAssumption, WorkersAssumption, Quotient
<1>. DEFINE last == numWorkers - 1
<1>0. last \in WorkerIDs /\ n \in Nat /\ n < datasetItems
  BY DEF WorkerIDs, Items
<1>1. CASE Start(last) <= n
  BY <1>0, <1>1 DEF End
<1>2. CASE ~(Start(last) <= n)
  <2>1. last * itemsPerWorker \in Nat /\ n < last * itemsPerWorker
    BY <1>0, <1>2, Monotone DEF Start, WorkerIDs
  <2>2. itemsPerWorker # 0
    BY <2>1, <1>0
  <2>. DEFINE i == n \div itemsPerWorker
  <2>3. i \in Nat /\ n = itemsPerWorker * i + (n % itemsPerWorker)
        /\ n % itemsPerWorker \in 0 .. itemsPerWorker - 1
    BY <1>0, <2>2
  <2>4. i * itemsPerWorker \in Nat /\ i * itemsPerWorker <= n
        /\ n < i * itemsPerWorker + itemsPerWorker
    BY <2>3, <1>0
  <2>5. i < last
    <3>1. SUFFICES ASSUME last <= i PROVE FALSE
      BY <1>0, <2>3
    <3>2. last * itemsPerWorker <= i * itemsPerWorker
      BY <3>1, <1>0, <2>3, Monotone DEF WorkerIDs
    <3>. QED  BY <3>2, <2>1, <2>4, <1>0
  <2>6. i \in WorkerIDs /\ i # last
    BY <2>5, <2>3 DEF WorkerIDs
  <2>. QED  BY <2>4, <2>6 DEF Start, End
<1>. QED  BY <1>1, <1>2

-----------------------------------------------------------------------------
(* The counter.                                                            *)

LEMMA RunningFinite ==
    /\ IsFiniteSet(WorkerIDs) /\ Cardinality(WorkerIDs) = numWorkers
    /\ \A S \in SUBSET WorkerIDs :
          IsFiniteSet(S) /\ Cardinality(S) \in 0 .. numWorkers
<1>. USE WorkersAssumption
<1>1. IsFiniteSet(WorkerIDs) /\ Cardinality(WorkerIDs) = numWorkers
  BY FS_Interval DEF WorkerIDs
<1>2. ASSUME NEW S \in SUBSET WorkerIDs
      PROVE  IsFiniteSet(S) /\ Cardinality(S) \in 0 .. numWorkers
  <2>1. IsFiniteSet(S) /\ Cardinality(S) <= Cardinality(WorkerIDs)
    BY <1>1, FS_Subset
  <2>2. Cardinality(S) \in Nat
    BY <2>1, FS_CardinalityType
  <2>. QED  BY <1>1, <2>1, <2>2
<1>. QED  BY <1>1, <1>2

-----------------------------------------------------------------------------
LEMMA InitInvariant == Init => IInv
<1>. SUFFICES ASSUME Init PROVE IInv
  OBVIOUS
<1>. USE ItemsAssumption, WorkersAssumption DEF Init
<1>1. TypeOK
  BY DEF TypeOK, Unstarted
<1>2. Running = {}
  BY DEF Running, Unstarted
<1>3. Counted
  BY <1>2, FS_EmptySet DEF Counted
<1>4. Started
  BY DEF Started, Unstarted, WorkerIDs
<1>5. Ranges /\ Progress
  BY DEF Ranges, Progress, Unstarted
<1>. QED  BY <1>1, <1>3, <1>4, <1>5 DEF IInv

LEMMA SpawnInvariant == IInv /\ Spawn => IInv'
<1>. SUFFICES ASSUME IInv, Spawn PROVE IInv'
  OBVIOUS
<1>. USE ItemsAssumption, WorkersAssumption
<1>1. w \in WorkerIDs /\ w \in Nat /\ w < numWorkers /\ worker[w].pc = "unstarted"
  BY DEF IInv, TypeOK, Started, WorkerIDs, Spawn
<1>2. worker' = [worker EXCEPT ![w] = [worker[w] EXCEPT !.pc = "started"]]
  BY DEF Spawn
<1>3. \A i \in WorkerIDs : i # w => worker'[i] = worker[i]
  BY <1>2 DEF IInv, TypeOK
<1>4. worker'[w].pc = "started"
  BY <1>1, <1>2 DEF IInv, TypeOK
<1>5. Running' = Running \cup {w}
  BY <1>1, <1>3, <1>4 DEF Running
<1>6. wg' = Cardinality(Running')
  <2>1. w \notin Running /\ Running \in SUBSET WorkerIDs
    BY <1>1 DEF Running
  <2>2. Cardinality(Running \cup {w}) = Cardinality(Running) + 1
    BY <2>1, RunningFinite, FS_AddElement
  <2>. QED  BY <1>5, <2>2 DEF Spawn, IInv, Counted
<1>7. wg' \in 0 .. numWorkers
  BY <1>6, RunningFinite DEF Running
<1>8. TypeOK'
  <2>1. worker[w] \in [pc : {"unstarted", "started", "loop", "done"},
                       item : Nat, end : Nat]
    BY <1>1 DEF IInv, TypeOK
  <2>2. [worker[w] EXCEPT !.pc = "started"]
            \in [pc : {"unstarted", "started", "loop", "done"}, item : Nat, end : Nat]
    BY <2>1
  <2>. QED  BY <1>1, <1>2, <1>7, <2>2 DEF IInv, TypeOK, Spawn
<1>9. Started'
  BY <1>1, <1>3, <1>4 DEF IInv, Started, Spawn, WorkerIDs
<1>10. Ranges' /\ Progress'
  BY <1>3, <1>4 DEF IInv, Ranges, Progress, InRange, Spawn, Items, WorkerIDs, Start,
     End, itemsPerWorker
<1>. QED  BY <1>6, <1>8, <1>9, <1>10 DEF IInv, Counted

LEMMA WaitInvariant == IInv /\ (SpawnedAll \/ Wait) => IInv'
<1>. SUFFICES ASSUME IInv, SpawnedAll \/ Wait PROVE IInv'
  OBVIOUS
<1>1. UNCHANGED <<w, wg, worker, made>> /\ main' \in {"wait", "done"}
  BY DEF SpawnedAll, Wait
<1>2. Running' = Running
  BY <1>1 DEF Running
<1>3. main' = "done" => Running = {}
  <2>1. SUFFICES ASSUME Wait PROVE Running = {}
    BY DEF SpawnedAll
  <2>2. Cardinality(Running) = 0
    BY <2>1 DEF Wait, IInv, Counted
  <2>. QED  BY <2>2, RunningFinite, FS_EmptySet DEF Running
<1>4. Started'
  BY <1>1, <1>2, <1>3 DEF IInv, Started, SpawnedAll, Wait
<1>. QED  BY <1>1, <1>2, <1>4 DEF IInv, TypeOK, Counted, Ranges, InRange, Progress

LEMMA BeginInvariant ==
    ASSUME NEW i \in WorkerIDs, IInv, Begin(i)
    PROVE  IInv'
<1>. USE ItemsAssumption, WorkersAssumption
<1>. DEFINE r == [pc |-> "loop", item |-> Start(i), end |-> End(i)]
<1>1. worker' = [worker EXCEPT ![i] = r] /\ worker[i].pc = "started"
      /\ UNCHANGED <<main, w, wg, made>>
  BY DEF Begin
<1>2. Start(i) \in Nat /\ End(i) \in Nat /\ Start(i) <= End(i)
  BY RangeBounds
<1>3. worker'[i].pc = "loop" /\ worker'[i].item = Start(i) /\ worker'[i].end = End(i)
  BY <1>1 DEF IInv, TypeOK
<1>4. \A j \in WorkerIDs : j # i => worker'[j] = worker[j]
  BY <1>1 DEF IInv, TypeOK
<1>5. Running' = Running
  BY <1>1, <1>3, <1>4 DEF Running
<1>6. TypeOK'
  BY <1>1, <1>2 DEF IInv, TypeOK
<1>7. Started'
  BY <1>1, <1>3, <1>4, <1>5 DEF IInv, Started
<1>8. Ranges'
  <2>. SUFFICES ASSUME NEW j \in WorkerIDs, worker'[j].pc \in {"loop", "done"}
                PROVE  /\ worker'[j].end = End(j)
                       /\ Start(j) <= worker'[j].item /\ worker'[j].item <= End(j)
                       /\ worker'[j].pc = "done" => worker'[j].item = End(j)
    BY DEF Ranges, InRange
  <2>1. CASE j = i
    BY <2>1, <1>2, <1>3
  <2>2. CASE j # i
    BY <2>2, <1>4 DEF IInv, Ranges, InRange
  <2>. QED  BY <2>1, <2>2
<1>9. Progress'
  <2>. SUFFICES ASSUME NEW j \in WorkerIDs, worker'[j].pc \in {"loop", "done"},
                       NEW n \in Items, Start(j) <= n, n < worker'[j].item
                PROVE  made'[n]
    BY DEF Progress
  <2>1. CASE j = i
    BY <2>1, <1>2, <1>3 DEF Items
  <2>2. CASE j # i
    BY <2>2, <1>1, <1>4 DEF IInv, Progress
  <2>. QED  BY <2>1, <2>2
<1>. QED  BY <1>1, <1>5, <1>6, <1>7, <1>8, <1>9 DEF IInv, Counted

LEMMA GenerateInvariant ==
    ASSUME NEW i \in WorkerIDs, IInv, Generate(i)
    PROVE  IInv'
<1>. USE ItemsAssumption, WorkersAssumption
<1>. DEFINE n0 == worker[i].item
<1>1. /\ worker' = [worker EXCEPT ![i] = [worker[i] EXCEPT !.item = n0 + 1]]
      /\ made' = [made EXCEPT ![n0] = TRUE]
      /\ worker[i].pc = "loop" /\ n0 < worker[i].end /\ UNCHANGED <<main, w, wg>>
  BY DEF Generate
<1>2. /\ worker[i] \in [pc : {"unstarted", "started", "loop", "done"},
                       item : Nat, end : Nat]
      /\ worker[i].end = End(i) /\ Start(i) <= n0 /\ n0 \in Nat
  BY <1>1 DEF IInv, TypeOK, Ranges, InRange
<1>3. n0 \in Items /\ Start(i) \in Nat /\ End(i) \in Nat
  BY <1>1, <1>2, RangeBounds DEF Items
<1>4. worker'[i].pc = "loop" /\ worker'[i].item = n0 + 1 /\ worker'[i].end = End(i)
  BY <1>1, <1>2 DEF IInv, TypeOK
<1>5. \A j \in WorkerIDs : j # i => worker'[j] = worker[j]
  BY <1>1 DEF IInv, TypeOK
<1>6. Running' = Running
  BY <1>1, <1>4, <1>5 DEF Running
<1>7. TypeOK'
  <2>1. [worker[i] EXCEPT !.item = n0 + 1]
            \in [pc : {"unstarted", "started", "loop", "done"}, item : Nat, end : Nat]
    BY <1>2
  <2>. QED  BY <1>1, <1>3, <2>1 DEF IInv, TypeOK
<1>8. Started'
  BY <1>1, <1>4, <1>5, <1>6 DEF IInv, Started
<1>9. Ranges'
  <2>. SUFFICES ASSUME NEW j \in WorkerIDs, worker'[j].pc \in {"loop", "done"}
                PROVE  /\ worker'[j].end = End(j)
                       /\ Start(j) <= worker'[j].item /\ worker'[j].item <= End(j)
                       /\ worker'[j].pc = "done" => worker'[j].item = End(j)
    BY DEF Ranges, InRange
  <2>1. CASE j = i
    BY <2>1, <1>1, <1>2, <1>3, <1>4
  <2>2. CASE j # i
    BY <2>2, <1>5 DEF IInv, Ranges, InRange
  <2>. QED  BY <2>1, <2>2
<1>10. Progress'
  <2>. SUFFICES ASSUME NEW j \in WorkerIDs, worker'[j].pc \in {"loop", "done"},
                       NEW n \in Items, Start(j) <= n, n < worker'[j].item
                PROVE  made'[n]
    BY DEF Progress
  <2>0. made'[n] = IF n = n0 THEN TRUE ELSE made[n]
    BY <1>1, <1>3 DEF IInv, TypeOK
  <2>1. CASE j = i
    <3>1. n = n0 \/ n < n0
      BY <2>1, <1>2, <1>4 DEF Items
    <3>2. n < n0 => made[n]
      BY <2>1, <1>1 DEF IInv, Progress
    <3>. QED  BY <2>0, <3>1, <3>2
  <2>2. CASE j # i
    <3>1. made[n]
      BY <2>2, <1>5 DEF IInv, Progress
    <3>. QED  BY <2>0, <3>1
  <2>. QED  BY <2>1, <2>2
<1>. QED  BY <1>1, <1>6, <1>7, <1>8, <1>9, <1>10 DEF IInv, Counted

LEMMA DoneInvariant ==
    ASSUME NEW i \in WorkerIDs, IInv, Done(i)
    PROVE  IInv'
<1>. USE ItemsAssumption, WorkersAssumption
<1>1. /\ worker' = [worker EXCEPT ![i] = [worker[i] EXCEPT !.pc = "done"]]
      /\ wg' = wg - 1 /\ worker[i].pc = "loop" /\ worker[i].item >= worker[i].end
      /\ UNCHANGED <<main, w, made>>
  BY DEF Done
<1>2. /\ worker[i] \in [pc : {"unstarted", "started", "loop", "done"},
                       item : Nat, end : Nat]
      /\ worker[i].end = End(i) /\ Start(i) <= worker[i].item
      /\ worker[i].item = End(i) /\ End(i) \in Nat
  BY <1>1, RangeBounds DEF IInv, TypeOK, Ranges, InRange
<1>4. worker'[i].pc = "done" /\ worker'[i].item = worker[i].item
      /\ worker'[i].end = worker[i].end
  BY <1>1, <1>2 DEF IInv, TypeOK
<1>5. \A j \in WorkerIDs : j # i => worker'[j] = worker[j]
  BY <1>1 DEF IInv, TypeOK
<1>6. Running' = Running \ {i} /\ i \in Running
  BY <1>1, <1>4, <1>5 DEF Running
<1>7. wg' = Cardinality(Running')
  <2>1. Cardinality(Running \ {i}) = Cardinality(Running) - 1
    BY <1>6, RunningFinite, FS_RemoveElement DEF Running
  <2>. QED  BY <1>1, <1>6, <2>1 DEF IInv, Counted
<1>8. wg' \in 0 .. numWorkers
  BY <1>7, RunningFinite DEF Running
<1>9. TypeOK'
  <2>1. [worker[i] EXCEPT !.pc = "done"]
            \in [pc : {"unstarted", "started", "loop", "done"}, item : Nat, end : Nat]
    BY <1>2
  <2>. QED  BY <1>1, <1>8, <2>1 DEF IInv, TypeOK
<1>10. Started'
  BY <1>1, <1>4, <1>5, <1>6 DEF IInv, Started
<1>11. Ranges'
  <2>. SUFFICES ASSUME NEW j \in WorkerIDs, worker'[j].pc \in {"loop", "done"}
                PROVE  /\ worker'[j].end = End(j)
                       /\ Start(j) <= worker'[j].item /\ worker'[j].item <= End(j)
                       /\ worker'[j].pc = "done" => worker'[j].item = End(j)
    BY DEF Ranges, InRange
  <2>1. CASE j = i
    BY <2>1, <1>2, <1>4
  <2>2. CASE j # i
    BY <2>2, <1>5 DEF IInv, Ranges, InRange
  <2>. QED  BY <2>1, <2>2
<1>12. Progress'
  <2>. SUFFICES ASSUME NEW j \in WorkerIDs, worker'[j].pc \in {"loop", "done"},
                       NEW n \in Items, Start(j) <= n, n < worker'[j].item
                PROVE  made'[n]
    BY DEF Progress
  <2>1. worker[j].pc \in {"loop", "done"} /\ worker'[j].item = worker[j].item
    BY <1>1, <1>4, <1>5
  <2>. QED  BY <1>1, <2>1 DEF IInv, Progress
<1>. QED  BY <1>7, <1>9, <1>10, <1>11, <1>12 DEF IInv, Counted

LEMMA NextInvariant == IInv /\ [Next]_vars => IInv'
<1>. SUFFICES ASSUME IInv, [Next]_vars PROVE IInv'
  OBVIOUS
<1>1. CASE Main
  BY <1>1, SpawnInvariant, WaitInvariant DEF Main
<1>2. ASSUME NEW i \in WorkerIDs, Worker(i) PROVE IInv'
  BY <1>2, BeginInvariant, GenerateInvariant, DoneInvariant DEF Worker
<1>3. CASE UNCHANGED vars
  BY <1>3 DEF vars, IInv, TypeOK, Counted, Started, Ranges, InRange, Progress, Running
<1>. QED  BY <1>1, <1>2, <1>3 DEF Next

THEOREM Invariant == Spec => []IInv
<1>. QED  BY InitInvariant, NextInvariant, PTL DEF Spec

-----------------------------------------------------------------------------
LEMMA InvariantComplete == IInv => CompleteOnReturn
<1>. SUFFICES ASSUME IInv, main = "done", NEW n \in Items PROVE made[n]
  BY DEF CompleteOnReturn
<1>1. PICK i \in WorkerIDs : Start(i) <= n /\ n < End(i)
  BY EveryItemHasAWorker
<1>2. worker[i].pc = "done"
  <2>1. i < w /\ Running = {}
    BY WorkersAssumption DEF IInv, Started, WorkerIDs
  <2>2. worker[i].pc \notin {"unstarted", "started", "loop"}
    BY <2>1 DEF IInv, Started, Running
  <2>. QED  BY <2>2 DEF IInv, TypeOK
<1>. QED  BY <1>1, <1>2 DEF IInv, Ranges, Progress

LEMMA InvariantDisjoint == IInv => DisjointWindows
<1>. SUFFICES ASSUME IInv PROVE DisjointWindows
  OBVIOUS
<1>. SUFFICES ASSUME NEW i \in WorkerIDs, worker[i].pc = "loop"
              PROVE  /\ worker[i].end <= datasetItems
                     /\ \A j \in WorkerIDs \ {i} : worker[j].pc = "loop" =>
                           \/ worker[i].end <= worker[j].item
                           \/ worker[j].end <= worker[i].item
  BY DEF DisjointWindows
<1>1. worker[i].end = End(i) /\ InRange(i)
  BY DEF IInv, Ranges
<1>2. worker[i].end <= datasetItems
  BY <1>1, RangeBounds
<1>3. ASSUME NEW j \in WorkerIDs \ {i}, worker[j].pc = "loop"
      PROVE  worker[i].end <= worker[j].item \/ worker[j].end <= worker[i].item
  <2>1. worker[j].end = End(j) /\ InRange(j)
    BY <1>3 DEF IInv, Ranges
  <2>2. worker[i].item \in Nat /\ worker[j].item \in Nat
    BY DEF IInv, TypeOK
  <2>3. i < j \/ j < i
    BY DEF WorkerIDs
  <2>4. End(i) <= Start(j) \/ End(j) <= Start(i)
    BY <2>3, RangesInOrder
  <2>. QED  BY <1>1, <2>1, <2>2, <2>4, RangeBounds DEF InRange
<1>. QED  BY <1>2, <1>3

(* However many items and processors there are, generate returns only with *)
(* the whole dataset made (dataset.go:48-71).                              *)
THEOREM Complete == Spec => []CompleteOnReturn
<1>. QED  BY Invariant, InvariantComplete, PTL

(* The workers of any split write disjoint parts of the slice, and none    *)
(* goes beyond it (dataset.go:58-66).                                      *)
THEOREM Disjoint == Spec => []DisjointWindows
<1>. QED  BY Invariant, InvariantDisjoint, PTL

(* The counter of the WaitGroup stays between zero and the number of       *)
(* workers, and every variable in its range (dataset.go:50-56).            *)
THEOREM TypeCorrect == Spec => []TypeOK
<1>1. IInv => TypeOK
  BY DEF IInv
<1>. QED  BY <1>1, Invariant, PTL

(* Nothing of the dataset changes once generate has returned: the caller   *)
(* may hand it to readers that take no lock of its own (dataset.go:71).    *)
THEOREM Quiet == Spec => QuietAfterReturn
<1>1. IInv /\ [Next]_vars => [main = "done" => UNCHANGED made]_vars
  <2>. SUFFICES ASSUME IInv, Next, main = "done" PROVE UNCHANGED made
    OBVIOUS
  <2>1. ASSUME NEW i \in WorkerIDs PROVE ~Generate(i)
    BY DEF IInv, Started, Running, Generate
  <2>. QED  BY <2>1 DEF Next, Main, Worker, Spawn, SpawnedAll, Wait, Begin, Done
<1>. QED  BY <1>1, Invariant, PTL DEF Spec, QuietAfterReturn
=============================================================================
