---------------------------- MODULE HasherProofs ----------------------------
(***************************************************************************)
(* The safety properties of Hasher, for any number of goroutines, hashers, *)
(* keys, inputs, addresses and machines.  IInv is inductive:               *)
(*                                                                         *)
(*  - first the parts that do not depend on what caches, datasets and      *)
(*    machines hold: types, with ControlOK, which they need (where a       *)
(*    goroutine is says which of its locals are set); the lock of a hasher *)
(*    excludes; a machine serves one hash; a hasher exists for the calls   *)
(*    on it.  Between them, what each action changes, field by field: the  *)
(*    facts from which the other parts are proved;                         *)
(*  - then the memory parts, from the lock and the types;                  *)
(*  - then those about updates and hashes in progress.                     *)
(*                                                                         *)
(* Last, that Hasher implements HasherAPI: a step that gives a call its    *)
(* answer is the effect of that call, a call and a return are an           *)
(* invocation and a return, and of every other step callers see nothing.   *)
(***************************************************************************)
EXTENDS HasherInvariant, TLAPS

-----------------------------------------------------------------------------
(* Editing a field of a frame, a hasher or a machine gives another one and *)
(* leaves the other fields alone.                                          *)
LEMMA OutcomesTyped ==
  /\ NoOut \in Outcomes /\ OK \in Outcomes /\ Failed \in Outcomes
  /\ Panicked \in Outcomes /\ Ready \in Outcomes /\ NotReady \in Outcomes
  BY DEF NoOut, OK, Failed, Panicked, Ready, NotReady, Outcomes, Tags

LEMMA NoFrameTyped == NoFrame \in Frames
  BY ProgramsAssumption DEF NoFrame, Frames, Ops, Tags, Outcomes, NoOut

LEMMA ArgsTyped ==
  ASSUME NEW op \in Ops, NEW h \in Hashers
  PROVE  /\ \A k \in Keys \cup {NoKey}, m \in Modes :
                [NoFrame EXCEPT !.op = op, !.h = h, !.key = k, !.mode = m] \in Frames
         /\ \A k \in Keys \cup {NoKey} :
                [NoFrame EXCEPT !.op = op, !.h = h, !.key = k] \in Frames
         /\ \A i \in Inputs : [NoFrame EXCEPT !.op = op, !.h = h, !.input = i] \in Frames
         /\ [NoFrame EXCEPT !.op = op, !.h = h] \in Frames
<1> DEFINE f == NoFrame
<1>1. f \in Frames
  BY NoFrameTyped
<1> HIDE DEF f
<1>2. \A k \in Keys \cup {NoKey}, m \in Modes :
          [f EXCEPT !.op = op, !.h = h, !.key = k, !.mode = m] \in Frames
  BY <1>1 DEF Frames
<1>3. \A k \in Keys \cup {NoKey} : [f EXCEPT !.op = op, !.h = h, !.key = k] \in Frames
  BY <1>1 DEF Frames
<1>4. \A i \in Inputs : [f EXCEPT !.op = op, !.h = h, !.input = i] \in Frames
  BY <1>1 DEF Frames
<1>5. [f EXCEPT !.op = op, !.h = h] \in Frames
  BY <1>1 DEF Frames
<1> QED
  BY <1>2, <1>3, <1>4, <1>5 DEF f

OutEdited(e, f, x) ==
    /\ e \in Frames
    /\ e.out = x
    /\ e.op = f.op /\ e.h = f.h /\ e.key = f.key /\ e.mode = f.mode /\ e.input = f.input
    /\ e.vm = f.vm /\ e.left = f.left /\ e.c = f.c /\ e.d = f.d

ModeEdited(e, f, x) ==
    /\ e \in Frames
    /\ e.mode = x
    /\ e.op = f.op /\ e.h = f.h /\ e.key = f.key /\ e.input = f.input /\ e.vm = f.vm
    /\ e.left = f.left /\ e.c = f.c /\ e.d = f.d /\ e.out = f.out

VMEdited(e, f, x) ==
    /\ e \in Frames
    /\ e.vm = x
    /\ e.op = f.op /\ e.h = f.h /\ e.key = f.key /\ e.mode = f.mode /\ e.input = f.input
    /\ e.left = f.left /\ e.c = f.c /\ e.d = f.d /\ e.out = f.out

LeftEdited(e, f, x) ==
    /\ e \in Frames
    /\ e.left = x
    /\ e.op = f.op /\ e.h = f.h /\ e.key = f.key /\ e.mode = f.mode /\ e.input = f.input
    /\ e.vm = f.vm /\ e.c = f.c /\ e.d = f.d /\ e.out = f.out

CacheEdited(e, f, x) ==
    /\ e \in Frames
    /\ e.c = x
    /\ e.op = f.op /\ e.h = f.h /\ e.key = f.key /\ e.mode = f.mode /\ e.input = f.input
    /\ e.vm = f.vm /\ e.left = f.left /\ e.d = f.d /\ e.out = f.out

DatasetEdited(e, f, x) ==
    /\ e \in Frames
    /\ e.d = x
    /\ e.op = f.op /\ e.h = f.h /\ e.key = f.key /\ e.mode = f.mode /\ e.input = f.input
    /\ e.vm = f.vm /\ e.left = f.left /\ e.c = f.c /\ e.out = f.out

DropEdited(e, f, x) ==
    /\ e \in Frames
    /\ e.c = NoAddr /\ e.out = x
    /\ e.op = f.op /\ e.h = f.h /\ e.key = f.key /\ e.mode = f.mode /\ e.input = f.input
    /\ e.vm = f.vm /\ e.left = f.left /\ e.d = f.d

HandOverEdited(e, f, x) ==
    /\ e \in Frames
    /\ e.c = NoAddr /\ e.d = NoAddr /\ e.out = x
    /\ e.op = f.op /\ e.h = f.h /\ e.key = f.key /\ e.mode = f.mode /\ e.input = f.input
    /\ e.vm = f.vm /\ e.left = f.left

LEMMA EditOut ==
  ASSUME NEW f \in Frames, NEW x \in Outcomes
  PROVE  OutEdited([f EXCEPT !.out = x], f, x)
  BY DEF Frames, OutEdited

LEMMA EditMode ==
  ASSUME NEW f \in Frames, NEW x \in {"light", "fast"}
  PROVE  ModeEdited([f EXCEPT !.mode = x], f, x)
  BY DEF Frames, ModeEdited

LEMMA EditVM ==
  ASSUME NEW f \in Frames, NEW x \in VMs \cup {NoVM}
  PROVE  VMEdited([f EXCEPT !.vm = x], f, x)
  BY DEF Frames, VMEdited

LEMMA EditLeft ==
  ASSUME NEW f \in Frames, NEW x \in 0..Programs
  PROVE  LeftEdited([f EXCEPT !.left = x], f, x)
  BY DEF Frames, LeftEdited

LEMMA EditCache ==
  ASSUME NEW f \in Frames, NEW x \in Addrs \cup {NoAddr}
  PROVE  CacheEdited([f EXCEPT !.c = x], f, x)
  BY DEF Frames, CacheEdited

LEMMA EditDataset ==
  ASSUME NEW f \in Frames, NEW x \in Addrs \cup {NoAddr}
  PROVE  DatasetEdited([f EXCEPT !.d = x], f, x)
  BY DEF Frames, DatasetEdited

LEMMA EditDrop ==
  ASSUME NEW f \in Frames, NEW x \in Outcomes
  PROVE  DropEdited([f EXCEPT !.c = NoAddr, !.out = x], f, x)
  BY DEF Frames, DropEdited

LEMMA EditHandOver ==
  ASSUME NEW f \in Frames, NEW x \in Outcomes
  PROVE  HandOverEdited([f EXCEPT !.c = NoAddr, !.d = NoAddr, !.out = x], f, x)
  BY DEF Frames, HandOverEdited

LEMMA StructEdits ==
  ASSUME NEW s \in HasherStructs
  PROVE  /\ \A a, b \in Addrs \cup {NoAddr}, k \in Keys \cup {NoKey} :
                [s EXCEPT !.cache = a, !.ds = b, !.stored = k, !.aliased = FALSE]
                    \in HasherStructs
         /\ \A a, b \in Addrs \cup {NoAddr} :
                [s EXCEPT !.closed = TRUE, !.ds = b, !.cache = a] \in HasherStructs
         /\ \A k \in Keys \cup {NoKey} : [s EXCEPT !.stored = k] \in HasherStructs
<1>1. \A a, b \in Addrs \cup {NoAddr}, k \in Keys \cup {NoKey} :
                [s EXCEPT !.cache = a, !.ds = b, !.stored = k, !.aliased = FALSE]
                    \in HasherStructs
  BY DEF HasherStructs
<1>2. \A a, b \in Addrs \cup {NoAddr} :
                [s EXCEPT !.closed = TRUE, !.ds = b, !.cache = a] \in HasherStructs
  BY DEF HasherStructs
<1>3. \A k \in Keys \cup {NoKey} : [s EXCEPT !.stored = k] \in HasherStructs
  BY DEF HasherStructs
<1> QED
  BY <1>1, <1>2, <1>3

LEMMA VMEdits ==
  ASSUME NEW m \in VMStructs
  PROVE  /\ [m EXCEPT !.regs = {}, !.mem = {}] \in VMStructs
         /\ \A a, b \in Addrs \cup {NoAddr} : [m EXCEPT !.ds = a, !.c = b] \in VMStructs
         /\ \A i \in Data : [m EXCEPT !.mem = {i}, !.gen = {i}] \in VMStructs
         /\ \A all \in SUBSET Data :
                [m EXCEPT !.regs = all, !.mem = all, !.gen = all] \in VMStructs
<1>1. [m EXCEPT !.regs = {}, !.mem = {}] \in VMStructs
  BY DEF VMStructs
<1>2. \A a, b \in Addrs \cup {NoAddr} : [m EXCEPT !.ds = a, !.c = b] \in VMStructs
  BY DEF VMStructs
<1>3. \A i \in Data : [m EXCEPT !.mem = {i}, !.gen = {i}] \in VMStructs
  BY DEF VMStructs
<1>4. \A all \in SUBSET Data :
                [m EXCEPT !.regs = all, !.mem = all, !.gen = all] \in VMStructs
  BY DEF VMStructs
<1> QED
  BY <1>1, <1>2, <1>3, <1>4

LEMMA LockEdits ==
  ASSUME NEW m \in Mutexes, NEW g \in Goroutines
  PROVE  /\ RLockBy(m, g) \in Mutexes /\ RUnlockBy(m, g) \in Mutexes
         /\ AnnounceBy(m, g) \in Mutexes /\ UnlockBy(m) \in Mutexes
  BY DEF Mutexes, RLockBy, RUnlockBy, AnnounceBy, UnlockBy

-----------------------------------------------------------------------------
LEMMA TypeInit == Init => TypeOK
<1> SUFFICES ASSUME Init
             PROVE  TypeOK
  OBVIOUS
<1>1. pc \in [Goroutines -> Labels]
  BY DEF Init, Labels
<1>2. frame \in [Goroutines -> Frames]
  BY NoFrameTyped DEF Init
<1>3. hasher \in [Hashers -> HasherStructs]
  BY DEF Init, AbsentHasher, HasherStructs
<1>4. mu \in [Hashers -> Mutexes]
  BY DEF Init, UnlockedMutex, Mutexes
<1>5. vms \in [VMs -> VMStructs]
  BY DEF Init, NewVM, VMStructs
<1>6. /\ caches \in [Addrs -> Keys \cup {NoKey}]
      /\ datasets \in [Addrs -> Keys \cup {NoKey}]
      /\ pool \in SUBSET VMs
  BY DEF Init
<1> QED
  BY <1>1, <1>2, <1>3, <1>4, <1>5, <1>6 DEF TypeOK


LEMMA IdleControl == Control("idle", NoFrame)
  BY DEF Control, OpLabels, NoFrame, NoOut, WithVM, WithCache, WithBoth, Answered, BuildLabels

LEMMA ControlInit == Init => ControlOK
  BY IdleControl DEF Init, ControlOK

(* A goroutine that moves to a label its new frame fits keeps both types.  *)
LEMMA MoveKeepsControl ==
  ASSUME TypeOK, ControlOK, NEW g \in Goroutines, NEW l \in Labels, NEW e \in Frames,
         pc' = [pc EXCEPT ![g] = l], frame' = [frame EXCEPT ![g] = e], Control(l, e)
  PROVE  /\ pc' \in [Goroutines -> Labels] /\ frame' \in [Goroutines -> Frames]
         /\ ControlOK'
<1>1. pc' \in [Goroutines -> Labels] /\ frame' \in [Goroutines -> Frames]
  BY DEF TypeOK
<1>2. ASSUME NEW o \in Goroutines
      PROVE  Control(pc'[o], frame'[o])
  <2>1. CASE o = g
    BY <2>1 DEF TypeOK
  <2>2. CASE o # g
    BY <2>2 DEF TypeOK, ControlOK
  <2> QED
    BY <2>1, <2>2
<1> QED
  BY <1>1, <1>2 DEF ControlOK, Control

LEMMA TypeCalls ==
  ASSUME TypeOK, ControlOK, NEW g \in Goroutines, Calls(g)
  PROVE  TypeOK' /\ ControlOK'
<1> DEFINE Fits(l, e) == l \in Labels /\ e \in Frames /\ Control(l, e)
<1>1. \A e, l : Call(g, e, l) /\ Fits(l, e) => TypeOK' /\ ControlOK'
  BY MoveKeepsControl DEF Call, Goto, Locals, TypeOK, heapVars, vmVars
<1>2. ASSUME NEW h \in Hashers, NEW k \in Keys \cup {NoKey}, NEW m \in Modes
      PROVE  Fits("validate", [NoFrame EXCEPT !.op = "new", !.h = h, !.key = k, !.mode = m])
  BY ArgsTyped DEF Labels, Ops, Control, OpLabels, NoFrame, NoOut, WithVM, WithCache,
     WithBoth, Answered, BuildLabels
<1>3. ASSUME NEW h \in Hashers, NEW i \in Inputs
      PROVE  Fits("rlock", [NoFrame EXCEPT !.op = "hash", !.h = h, !.input = i])
  BY ArgsTyped DEF Labels, Ops, Control, OpLabels, NoFrame, NoOut, WithVM, WithCache,
     WithBoth, Answered, BuildLabels
<1>4. ASSUME NEW h \in Hashers, NEW k \in Keys \cup {NoKey}
      PROVE  Fits("checkkey", [NoFrame EXCEPT !.op = "update", !.h = h, !.key = k])
  BY ArgsTyped DEF Labels, Ops, Control, OpLabels, NoFrame, NoOut, WithVM, WithCache,
     WithBoth, Answered, BuildLabels
<1>5. ASSUME NEW h \in Hashers
      PROVE  /\ Fits("lock", [NoFrame EXCEPT !.op = "close", !.h = h])
             /\ Fits("rlock", [NoFrame EXCEPT !.op = "isready", !.h = h])
  BY ArgsTyped DEF Labels, Ops, Control, OpLabels, NoFrame, NoOut, WithVM, WithCache,
     WithBoth, Answered, BuildLabels
<1> HIDE DEF Fits
<1>6. CASE CallNew(g)
  BY <1>1, <1>2, <1>6 DEF CallNew
<1>7. CASE CallHash(g)
  BY <1>1, <1>3, <1>7 DEF CallHash
<1>8. CASE CallUpdateCacheKey(g)
  BY <1>1, <1>4, <1>8 DEF CallUpdateCacheKey
<1>9. CASE CallClose(g)
  BY <1>1, <1>5, <1>9 DEF CallClose
<1>10. CASE CallIsReady(g)
  BY <1>1, <1>5, <1>10 DEF CallIsReady
<1> QED
  BY <1>6, <1>7, <1>8, <1>9, <1>10 DEF Calls

LEMMA TypeReturn ==
  ASSUME TypeOK, ControlOK, NEW g \in Goroutines, Return(g)
  PROVE  TypeOK' /\ ControlOK'
<1>1. NoFrame \in Frames /\ "idle" \in Labels
  BY NoFrameTyped DEF Labels
<1> QED
  BY <1>1, IdleControl, MoveKeepsControl DEF Return, Goto, Locals, TypeOK, heapVars, vmVars

LEMMA TypeLocking ==
  ASSUME TypeOK, ControlOK, NEW g \in Goroutines, Locking(g)
  PROVE  TypeOK' /\ ControlOK'
<1> DEFINE f == frame[g]
<1>1. f \in Frames /\ Control(pc[g], f) /\ frame = [frame EXCEPT ![g] = f]
  BY DEF TypeOK, ControlOK
<1>2. UNCHANGED <<frame, hasher, caches, datasets, vms, pool>>
  BY DEF Locking, RLock, RLocked, RUnlock, LockAnnounce, Locked, Unlock, heapVars, vmVars
<1>3. mu' \in [Hashers -> Mutexes]
  <2>1. \A h \in Hashers : mu[h] \in Mutexes
    BY DEF TypeOK
  <2>2. CASE RLock(g)
    BY <2>1, <2>2, LockEdits DEF RLock, TypeOK
  <2>3. CASE RLocked(g)
    BY <2>3 DEF RLocked, TypeOK
  <2>4. CASE RUnlock(g)
    BY <2>1, <2>4, LockEdits DEF RUnlock, TypeOK
  <2>5. CASE LockAnnounce(g)
    BY <2>1, <2>5, LockEdits DEF LockAnnounce, TypeOK
  <2>6. CASE Locked(g)
    BY <2>6 DEF Locked, TypeOK
  <2>7. CASE Unlock(g)
    BY <2>1, <2>7, LockEdits DEF Unlock, TypeOK
  <2> QED
    BY <2>2, <2>3, <2>4, <2>5, <2>6, <2>7 DEF Locking
<1>4. f.op \in Ops
  BY DEF TypeOK, Frames
<1>5. \E l \in Labels : pc' = [pc EXCEPT ![g] = l] /\ Control(l, f)
  <2>2. CASE RLock(g)
    <3>1. Control("rwait", f)
      BY <1>1, <1>4, <2>2
         DEF RLock, Goto, Ops, Control, OpLabels, WithVM, WithCache, WithBoth,
             Answered, BuildLabels
    <3>2. "rwait" \in Labels
      BY DEF Labels
    <3> QED
      BY <2>2, <3>1, <3>2 DEF RLock, Goto
  <2>3. CASE RLocked(g)
    <3>1. Control(WithReadLock(g), f)
      BY <1>1, <1>4, <2>3
         DEF RLocked, Goto, WithReadLock, Ops, Control, OpLabels, WithVM, WithCache, WithBoth,
             Answered, BuildLabels
    <3>2. WithReadLock(g) \in Labels
      BY DEF Labels, WithReadLock
    <3> QED
      BY <2>3, <3>1, <3>2 DEF RLocked, Goto
  <2>4. CASE RUnlock(g)
    <3>1. Control("return", f)
      BY <1>1, <1>4, <2>4
         DEF RUnlock, Goto, Ops, Control, OpLabels, WithVM, WithCache, WithBoth,
             Answered, BuildLabels
    <3>2. "return" \in Labels
      BY DEF Labels
    <3> QED
      BY <2>4, <3>1, <3>2 DEF RUnlock, Goto
  <2>5. CASE LockAnnounce(g)
    <3>1. Control("drain", f)
      BY <1>1, <1>4, <2>5
         DEF LockAnnounce, Goto, Ops, Control, OpLabels, WithVM, WithCache, WithBoth,
             Answered, BuildLabels
    <3>2. "drain" \in Labels
      BY DEF Labels
    <3> QED
      BY <2>5, <3>1, <3>2 DEF LockAnnounce, Goto
  <2>6. CASE Locked(g)
    <3>1. Control(WithWriteLock(g), f)
      BY <1>1, <1>4, <2>6
         DEF Locked, Goto, WithWriteLock, Ops, Control, OpLabels, WithVM, WithCache, WithBoth,
             Answered, BuildLabels
    <3>2. WithWriteLock(g) \in Labels
      BY DEF Labels, WithWriteLock
    <3> QED
      BY <2>6, <3>1, <3>2 DEF Locked, Goto
  <2>7. CASE Unlock(g)
    <3>1. Control("return", f)
      BY <1>1, <1>4, <2>7
         DEF Unlock, Goto, Ops, Control, OpLabels, WithVM, WithCache, WithBoth,
             Answered, BuildLabels
    <3>2. "return" \in Labels
      BY DEF Labels
    <3> QED
      BY <2>7, <3>1, <3>2 DEF Unlock, Goto
  <2> QED
    BY <2>2, <2>3, <2>4, <2>5, <2>6, <2>7 DEF Locking
<1>6. frame' = [frame EXCEPT ![g] = f]
  BY <1>1, <1>2
<1> QED
  BY <1>1, <1>2, <1>3, <1>5, <1>6, MoveKeepsControl DEF TypeOK

LEMMA InitTyped ==
  ASSUME NEW m \in VMStructs, NEW ds \in Addrs \cup {NoAddr}, NEW c \in Addrs \cup {NoAddr},
         NEW i \in Data
  PROVE  Initialize(InitVM(m, ds, c), i) \in VMStructs
<1>1. [m EXCEPT !.ds = ds, !.c = c] \in VMStructs
  BY VMEdits
<1>2. InitVM(m, ds, c) \in VMStructs
  BY <1>1, VMEdits DEF InitVM, Reset
<1> QED
  BY <1>2, VMEdits DEF Initialize

LEMMA ProgramTyped ==
  ASSUME TypeOK, NEW m \in VMStructs
  PROVE  ProgramRun(m) \in VMStructs
<1>1. DatasetItem(m) \in SUBSET Data
  BY DEF DatasetItem, TypeOK, VMStructs, Data
<1>2. m.regs \cup m.mem \cup m.gen \cup DatasetItem(m) \in SUBSET Data
  BY <1>1 DEF VMStructs
<1> QED
  BY <1>2, VMEdits DEF ProgramRun

LEMMA TypeBuilding ==
  ASSUME TypeOK, ControlOK, NEW g \in Goroutines, Building(g)
  PROVE  TypeOK' /\ ControlOK'
<1> DEFINE f == frame[g]
<1>1. f \in Frames /\ Control(pc[g], f) /\ frame = [frame EXCEPT ![g] = f]
  BY DEF TypeOK, ControlOK
<1>2. /\ f.op \in Ops /\ f.key \in Keys \cup {NoKey} /\ f.c \in Addrs \cup {NoAddr} /\ f.d \in Addrs \cup {NoAddr}
      /\ f.vm \in VMs \cup {NoVM} /\ f.left \in 0..Programs
      /\ f.mode \in Modes \cup {"light", "fast"} /\ f.h \in Hashers \cup {NoHasher}
  BY <1>1 DEF Frames
<1> HIDE DEF f
<1>3. CASE NewAccept(g)
  <2> DEFINE l == "buildcache"
  <2>1. l \in Labels /\ f \in Frames
    BY <1>1, <1>2, <1>3 DEF Labels, ValidConfig
  <2>2. Control(l, f)
    BY <1>1, <1>2, <1>3
       DEF NewAccept, Goto, ValidConfig, f,
           Ops, Control, OpLabels, WithVM, WithCache, WithBoth,
           Answered, BuildLabels
  <2>3. pc' = [pc EXCEPT ![g] = l] /\ frame' = [frame EXCEPT ![g] = f]
    BY <1>1, <1>2, <1>3 DEF NewAccept, Goto, Locals, Answer, f
  <2> QED
    BY <1>3, <2>1, <2>2, <2>3, MoveKeepsControl
       DEF NewAccept, TypeOK, heapVars, vmVars
<1>4. CASE NewReject(g)
  <2> DEFINE l == "return"
         e == [f EXCEPT !.out = Failed]
  <2>1. OutEdited(e, f, Failed)
    BY <1>1, <1>2, <1>4, EditOut, OutcomesTyped
  <2> HIDE DEF e
  <2>2. l \in Labels /\ e \in Frames
    BY <1>1, <1>2, <1>4, <2>1 DEF Labels, OutEdited
  <2>3. Control(l, e)
    BY <1>1, <1>2, <1>4, <2>1
       DEF NewReject, Goto, f, NoOut, Failed, OutEdited,
           Ops, Control, OpLabels, WithVM, WithCache, WithBoth,
           Answered, BuildLabels
  <2>4. pc' = [pc EXCEPT ![g] = l] /\ frame' = [frame EXCEPT ![g] = e]
    BY <1>1, <1>2, <1>4, <2>1 DEF NewReject, Goto, Locals, Answer, f, e
  <2> QED
    BY <1>4, <2>2, <2>3, <2>4, MoveKeepsControl
       DEF NewReject, TypeOK, heapVars, vmVars
<1>5. CASE NewPublish(g)
  <2> DEFINE l == "return"
         e == [f EXCEPT !.c = NoAddr, !.d = NoAddr, !.out = OK]
  <2>1. HandOverEdited(e, f, OK)
    BY <1>1, <1>2, <1>5, EditHandOver, OutcomesTyped
  <2> HIDE DEF e
  <2>2. l \in Labels /\ e \in Frames
    BY <1>1, <1>2, <1>5, <2>1 DEF Labels, HandOverEdited
  <2>3. Control(l, e)
    BY <1>1, <1>2, <1>5, <2>1
       DEF NewPublish, Goto, f, NoOut, OK, HandOverEdited,
           Ops, Control, OpLabels, WithVM, WithCache, WithBoth,
           Answered, BuildLabels
  <2>4. pc' = [pc EXCEPT ![g] = l] /\ frame' = [frame EXCEPT ![g] = e]
    BY <1>1, <1>2, <1>5, <2>1 DEF NewPublish, Goto, Locals, Answer, f, e
  <2>5. hasher' \in [Hashers -> HasherStructs]
    BY <1>1, <1>2, <1>5, <2>1, StructEdits
       DEF NewPublish, Goto, f, TypeOK, HasherStructs, Control, BuildLabels, WithCache
  <2> QED
    BY <1>5, <2>2, <2>3, <2>4, <2>5, MoveKeepsControl
       DEF NewPublish, TypeOK, heapVars, vmVars
<1>6. CASE NewCache(g)
  <2>1. PICK a \in Addrs :
            /\ caches' = [caches EXCEPT ![a] = f.key]
            /\ frame' = [frame EXCEPT ![g] = [f EXCEPT !.c = a]]
    BY <1>6 DEF NewCache, FreshAddrs, Least, Locals, f
  <2> DEFINE l == IF f.mode = "fast" THEN "builddataset" ELSE AfterBuild(g)
         e == [f EXCEPT !.c = a]
  <2>2. CacheEdited(e, f, a)
    BY <1>1, <1>2, <1>6, <2>1, EditCache
  <2> HIDE DEF e
  <2>3. l \in Labels /\ e \in Frames
    BY <1>1, <1>2, <1>6, <2>1, <2>2 DEF Labels, AfterBuild, CacheEdited
  <2>4. Control(l, e)
    BY <1>1, <1>2, <1>6, <2>1, <2>2, NoneAssumption
       DEF NewCache, Goto, AfterBuild, f, CacheEdited,
           Ops, Control, OpLabels, WithVM, WithCache, WithBoth,
           Answered, BuildLabels
  <2>5. pc' = [pc EXCEPT ![g] = l] /\ frame' = [frame EXCEPT ![g] = e]
    BY <1>1, <1>2, <1>6, <2>1, <2>2 DEF NewCache, Goto, Locals, Answer, f, e
  <2>6. /\ caches' \in [Addrs -> Keys \cup {NoKey}]
        /\ datasets' \in [Addrs -> Keys \cup {NoKey}]
    BY <1>1, <1>2, <1>6, <2>1, <2>2 DEF NewCache, f, Release, TypeOK
  <2> QED
    BY <1>6, <2>3, <2>4, <2>5, <2>6, MoveKeepsControl
       DEF NewCache, TypeOK, heapVars, vmVars
<1>7. CASE NewCacheFails(g)
  <2> DEFINE l == AfterError(g)
         e == [f EXCEPT !.out = Failed]
  <2>1. OutEdited(e, f, Failed)
    BY <1>1, <1>2, <1>7, EditOut, OutcomesTyped
  <2> HIDE DEF e
  <2>2. l \in Labels /\ e \in Frames
    BY <1>1, <1>2, <1>7, <2>1 DEF Labels, AfterError, OutEdited
  <2>3. Control(l, e)
    BY <1>1, <1>2, <1>7, <2>1
       DEF NewCacheFails, Goto, AfterError, f, NoOut, Failed, OutEdited,
           Ops, Control, OpLabels, WithVM, WithCache, WithBoth,
           Answered, BuildLabels
  <2>4. pc' = [pc EXCEPT ![g] = l] /\ frame' = [frame EXCEPT ![g] = e]
    BY <1>1, <1>2, <1>7, <2>1 DEF NewCacheFails, Goto, Locals, Answer, f, e
  <2> QED
    BY <1>7, <2>2, <2>3, <2>4, MoveKeepsControl
       DEF NewCacheFails, TypeOK, heapVars, vmVars
<1>8. CASE NewDataset(g)
  <2> DEFINE l == AfterBuild(g)
         e == [f EXCEPT !.d = f.c]
  <2>1. DatasetEdited(e, f, f.c)
    BY <1>1, <1>2, <1>8, EditDataset
  <2> HIDE DEF e
  <2>2. l \in Labels /\ e \in Frames
    BY <1>1, <1>2, <1>8, <2>1 DEF Labels, AfterBuild, DatasetEdited
  <2>3. Control(l, e)
    BY <1>1, <1>2, <1>8, <2>1, NoneAssumption
       DEF NewDataset, Goto, AfterBuild, f, DatasetEdited,
           Ops, Control, OpLabels, WithVM, WithCache, WithBoth,
           Answered, BuildLabels
  <2>4. pc' = [pc EXCEPT ![g] = l] /\ frame' = [frame EXCEPT ![g] = e]
    BY <1>1, <1>2, <1>8, <2>1 DEF NewDataset, Goto, Locals, Answer, f, e
  <2>5. /\ caches' \in [Addrs -> Keys \cup {NoKey}]
        /\ datasets' \in [Addrs -> Keys \cup {NoKey}]
    BY <1>1, <1>2, <1>8, <2>1 DEF NewDataset, f, Release, TypeOK
  <2> QED
    BY <1>8, <2>2, <2>3, <2>4, <2>5, MoveKeepsControl
       DEF NewDataset, TypeOK, heapVars, vmVars
<1>9. CASE NewDatasetFails(g)
  <2> DEFINE l == AfterError(g)
         e == [f EXCEPT !.c = NoAddr, !.out = Failed]
  <2>1. DropEdited(e, f, Failed)
    BY <1>1, <1>2, <1>9, EditDrop, OutcomesTyped
  <2> HIDE DEF e
  <2>2. l \in Labels /\ e \in Frames
    BY <1>1, <1>2, <1>9, <2>1 DEF Labels, AfterError, DropEdited
  <2>3. Control(l, e)
    BY <1>1, <1>2, <1>9, <2>1
       DEF NewDatasetFails, Goto, AfterError, f, NoOut, Failed, DropEdited,
           Ops, Control, OpLabels, WithVM, WithCache, WithBoth,
           Answered, BuildLabels
  <2>4. pc' = [pc EXCEPT ![g] = l] /\ frame' = [frame EXCEPT ![g] = e]
    BY <1>1, <1>2, <1>9, <2>1 DEF NewDatasetFails, Goto, Locals, Answer, f, e
  <2>5. /\ caches' \in [Addrs -> Keys \cup {NoKey}]
        /\ datasets' \in [Addrs -> Keys \cup {NoKey}]
    BY <1>1, <1>2, <1>9, <2>1 DEF NewDatasetFails, f, Release, TypeOK
  <2> QED
    BY <1>9, <2>2, <2>3, <2>4, <2>5, MoveKeepsControl
       DEF NewDatasetFails, TypeOK, heapVars, vmVars
<1> QED
  BY <1>3, <1>4, <1>5, <1>6, <1>7, <1>8, <1>9 DEF Building

LEMMA TypeUpdating ==
  ASSUME TypeOK, ControlOK, NEW g \in Goroutines, Updating(g)
  PROVE  TypeOK' /\ ControlOK'
<1> DEFINE f == frame[g]
<1>1. f \in Frames /\ Control(pc[g], f) /\ frame = [frame EXCEPT ![g] = f]
  BY DEF TypeOK, ControlOK
<1>2. /\ f.op \in Ops /\ f.key \in Keys \cup {NoKey} /\ f.c \in Addrs \cup {NoAddr} /\ f.d \in Addrs \cup {NoAddr}
      /\ f.vm \in VMs \cup {NoVM} /\ f.left \in 0..Programs
      /\ f.mode \in Modes \cup {"light", "fast"} /\ f.h \in Hashers \cup {NoHasher}
  BY <1>1 DEF Frames
<1> HIDE DEF f
<1>3. CASE UpdateAccept(g)
  <2> DEFINE l == "lock"
  <2>1. l \in Labels /\ f \in Frames
    BY <1>1, <1>2, <1>3 DEF Labels
  <2>2. Control(l, f)
    BY <1>1, <1>2, <1>3
       DEF UpdateAccept, Goto, f,
           Ops, Control, OpLabels, WithVM, WithCache, WithBoth,
           Answered, BuildLabels
  <2>3. pc' = [pc EXCEPT ![g] = l] /\ frame' = [frame EXCEPT ![g] = f]
    BY <1>1, <1>2, <1>3 DEF UpdateAccept, Goto, Locals, Answer, f
  <2> QED
    BY <1>3, <2>1, <2>2, <2>3, MoveKeepsControl
       DEF UpdateAccept, TypeOK, heapVars, vmVars
<1>4. CASE UpdateReject(g)
  <2> DEFINE l == "return"
         e == [f EXCEPT !.out = Failed]
  <2>1. OutEdited(e, f, Failed)
    BY <1>1, <1>2, <1>4, EditOut, OutcomesTyped
  <2> HIDE DEF e
  <2>2. l \in Labels /\ e \in Frames
    BY <1>1, <1>2, <1>4, <2>1 DEF Labels, OutEdited
  <2>3. Control(l, e)
    BY <1>1, <1>2, <1>4, <2>1
       DEF UpdateReject, Goto, f, NoOut, Failed, OutEdited,
           Ops, Control, OpLabels, WithVM, WithCache, WithBoth,
           Answered, BuildLabels
  <2>4. pc' = [pc EXCEPT ![g] = l] /\ frame' = [frame EXCEPT ![g] = e]
    BY <1>1, <1>2, <1>4, <2>1 DEF UpdateReject, Goto, Locals, Answer, f, e
  <2> QED
    BY <1>4, <2>2, <2>3, <2>4, MoveKeepsControl
       DEF UpdateReject, TypeOK, heapVars, vmVars
<1>5. CASE UpdateOnClosed(g)
  <2> DEFINE l == "unlock"
         e == [f EXCEPT !.out = Failed]
  <2>1. OutEdited(e, f, Failed)
    BY <1>1, <1>2, <1>5, EditOut, OutcomesTyped
  <2> HIDE DEF e
  <2>2. l \in Labels /\ e \in Frames
    BY <1>1, <1>2, <1>5, <2>1 DEF Labels, OutEdited
  <2>3. Control(l, e)
    BY <1>1, <1>2, <1>5, <2>1
       DEF UpdateOnClosed, Goto, f, NoOut, Failed, OutEdited,
           Ops, Control, OpLabels, WithVM, WithCache, WithBoth,
           Answered, BuildLabels
  <2>4. pc' = [pc EXCEPT ![g] = l] /\ frame' = [frame EXCEPT ![g] = e]
    BY <1>1, <1>2, <1>5, <2>1 DEF UpdateOnClosed, Goto, Locals, Answer, f, e
  <2> QED
    BY <1>5, <2>2, <2>3, <2>4, MoveKeepsControl
       DEF UpdateOnClosed, TypeOK, heapVars, vmVars
<1>6. CASE UpdateSameKey(g)
  <2> DEFINE l == "unlock"
         e == [f EXCEPT !.out = OK]
  <2>1. OutEdited(e, f, OK)
    BY <1>1, <1>2, <1>6, EditOut, OutcomesTyped
  <2> HIDE DEF e
  <2>2. l \in Labels /\ e \in Frames
    BY <1>1, <1>2, <1>6, <2>1 DEF Labels, OutEdited
  <2>3. Control(l, e)
    BY <1>1, <1>2, <1>6, <2>1
       DEF UpdateSameKey, Goto, f, NoOut, OK, OutEdited,
           Ops, Control, OpLabels, WithVM, WithCache, WithBoth,
           Answered, BuildLabels
  <2>4. pc' = [pc EXCEPT ![g] = l] /\ frame' = [frame EXCEPT ![g] = e]
    BY <1>1, <1>2, <1>6, <2>1 DEF UpdateSameKey, Goto, Locals, Answer, f, e
  <2> QED
    BY <1>6, <2>2, <2>3, <2>4, MoveKeepsControl
       DEF UpdateSameKey, TypeOK, heapVars, vmVars
<1>7. CASE UpdateNewKey(g)
  <2> DEFINE l == "buildcache"
         e == [f EXCEPT !.mode = hasher[f.h].mode]
  <2>1. hasher[f.h].mode \in {"light", "fast"}
    BY <1>1, <1>2, <1>7 DEF UpdateNewKey, Goto, f, TypeOK, HasherStructs, Control, OpLabels, Ops
  <2>2. ModeEdited(e, f, hasher[f.h].mode)
    BY <1>1, <1>2, <1>7, <2>1, EditMode
  <2> HIDE DEF e
  <2>3. l \in Labels /\ e \in Frames
    BY <1>1, <1>2, <1>7, <2>1, <2>2 DEF Labels, ModeEdited
  <2>4. Control(l, e)
    BY <1>1, <1>2, <1>7, <2>1, <2>2
       DEF UpdateNewKey, Goto, f, ModeEdited,
           Ops, Control, OpLabels, WithVM, WithCache, WithBoth,
           Answered, BuildLabels
  <2>5. pc' = [pc EXCEPT ![g] = l] /\ frame' = [frame EXCEPT ![g] = e]
    BY <1>1, <1>2, <1>7, <2>1, <2>2 DEF UpdateNewKey, Goto, Locals, Answer, f, e
  <2> QED
    BY <1>7, <2>3, <2>4, <2>5, MoveKeepsControl
       DEF UpdateNewKey, TypeOK, heapVars, vmVars
<1>8. CASE UpdateRelease(g)
  <2> DEFINE l == "swap"
  <2>1. l \in Labels /\ f \in Frames
    BY <1>1, <1>2, <1>8 DEF Labels
  <2>2. Control(l, f)
    BY <1>1, <1>2, <1>8
       DEF UpdateRelease, Goto, f,
           Ops, Control, OpLabels, WithVM, WithCache, WithBoth,
           Answered, BuildLabels
  <2>3. pc' = [pc EXCEPT ![g] = l] /\ frame' = [frame EXCEPT ![g] = f]
    BY <1>1, <1>2, <1>8 DEF UpdateRelease, Goto, Locals, Answer, f
  <2>4. /\ caches' \in [Addrs -> Keys \cup {NoKey}]
        /\ datasets' \in [Addrs -> Keys \cup {NoKey}]
    BY <1>1, <1>2, <1>8 DEF UpdateRelease, f, Release, TypeOK
  <2> QED
    BY <1>8, <2>1, <2>2, <2>3, <2>4, MoveKeepsControl
       DEF UpdateRelease, TypeOK, heapVars, vmVars
<1>9. CASE UpdateSwap(g)
  <2> DEFINE l == "unlock"
         e == [f EXCEPT !.c = NoAddr, !.d = NoAddr, !.out = OK]
  <2>1. HandOverEdited(e, f, OK)
    BY <1>1, <1>2, <1>9, EditHandOver, OutcomesTyped
  <2> HIDE DEF e
  <2>2. l \in Labels /\ e \in Frames
    BY <1>1, <1>2, <1>9, <2>1 DEF Labels, HandOverEdited
  <2>3. Control(l, e)
    BY <1>1, <1>2, <1>9, <2>1
       DEF UpdateSwap, Goto, f, NoOut, OK, HandOverEdited,
           Ops, Control, OpLabels, WithVM, WithCache, WithBoth,
           Answered, BuildLabels
  <2>4. pc' = [pc EXCEPT ![g] = l] /\ frame' = [frame EXCEPT ![g] = e]
    BY <1>1, <1>2, <1>9, <2>1 DEF UpdateSwap, Goto, Locals, Answer, f, e
  <2>5. hasher' \in [Hashers -> HasherStructs]
    <3>1. \A s \in HasherStructs :
              [s EXCEPT !.cache = f.c, !.ds = f.d, !.stored = f.key, !.aliased = FALSE]
                  \in HasherStructs
      BY <1>2, StructEdits
    <3> QED
      BY <1>9, <3>1 DEF UpdateSwap, f, TypeOK
  <2> QED
    BY <1>9, <2>2, <2>3, <2>4, <2>5, MoveKeepsControl
       DEF UpdateSwap, TypeOK, heapVars, vmVars
<1>10. CASE CloseAgain(g)
  <2> DEFINE l == "unlock"
         e == [f EXCEPT !.out = OK]
  <2>1. OutEdited(e, f, OK)
    BY <1>1, <1>2, <1>10, EditOut, OutcomesTyped
  <2> HIDE DEF e
  <2>2. l \in Labels /\ e \in Frames
    BY <1>1, <1>2, <1>10, <2>1 DEF Labels, OutEdited
  <2>3. Control(l, e)
    BY <1>1, <1>2, <1>10, <2>1
       DEF CloseAgain, Goto, f, NoOut, OK, OutEdited,
           Ops, Control, OpLabels, WithVM, WithCache, WithBoth,
           Answered, BuildLabels
  <2>4. pc' = [pc EXCEPT ![g] = l] /\ frame' = [frame EXCEPT ![g] = e]
    BY <1>1, <1>2, <1>10, <2>1 DEF CloseAgain, Goto, Locals, Answer, f, e
  <2> QED
    BY <1>10, <2>2, <2>3, <2>4, MoveKeepsControl
       DEF CloseAgain, TypeOK, heapVars, vmVars
<1>11. CASE CloseRelease(g)
  <2> DEFINE l == "unlock"
         e == [f EXCEPT !.out = OK]
  <2>1. OutEdited(e, f, OK)
    BY <1>1, <1>2, <1>11, EditOut, OutcomesTyped
  <2> HIDE DEF e
  <2>2. l \in Labels /\ e \in Frames
    BY <1>1, <1>2, <1>11, <2>1 DEF Labels, OutEdited
  <2>3. Control(l, e)
    BY <1>1, <1>2, <1>11, <2>1
       DEF CloseRelease, Goto, f, NoOut, OK, OutEdited,
           Ops, Control, OpLabels, WithVM, WithCache, WithBoth,
           Answered, BuildLabels
  <2>4. pc' = [pc EXCEPT ![g] = l] /\ frame' = [frame EXCEPT ![g] = e]
    BY <1>1, <1>2, <1>11, <2>1 DEF CloseRelease, Goto, Locals, Answer, f, e
  <2>5. hasher' \in [Hashers -> HasherStructs]
    <3>1. \A s \in HasherStructs :
              [s EXCEPT !.closed = TRUE, !.ds = NoAddr, !.cache = NoAddr] \in HasherStructs
      BY StructEdits
    <3> QED
      BY <1>11, <3>1 DEF CloseRelease, f, TypeOK
  <2>6. /\ caches' \in [Addrs -> Keys \cup {NoKey}]
        /\ datasets' \in [Addrs -> Keys \cup {NoKey}]
    BY <1>1, <1>2, <1>11, <2>1 DEF CloseRelease, f, Release, TypeOK
  <2> QED
    BY <1>11, <2>2, <2>3, <2>4, <2>5, <2>6, MoveKeepsControl
       DEF CloseRelease, TypeOK, heapVars, vmVars
<1> QED
  BY <1>3, <1>4, <1>5, <1>6, <1>7, <1>8, <1>9, <1>10, <1>11 DEF Updating

LEMMA TypeHashing ==
  ASSUME TypeOK, ControlOK, NEW g \in Goroutines, Hashing(g)
  PROVE  TypeOK' /\ ControlOK'
<1> DEFINE f == frame[g]
<1>1. f \in Frames /\ Control(pc[g], f) /\ frame = [frame EXCEPT ![g] = f]
  BY DEF TypeOK, ControlOK
<1>2. /\ f.op \in Ops /\ f.key \in Keys \cup {NoKey} /\ f.c \in Addrs \cup {NoAddr} /\ f.d \in Addrs \cup {NoAddr}
      /\ f.vm \in VMs \cup {NoVM} /\ f.left \in 0..Programs
      /\ f.mode \in Modes \cup {"light", "fast"} /\ f.h \in Hashers \cup {NoHasher}
  BY <1>1 DEF Frames
<1> HIDE DEF f
<1>3. CASE HashOnOpen(g)
  <2> DEFINE l == "getvm"
  <2>1. l \in Labels /\ f \in Frames
    BY <1>1, <1>2, <1>3 DEF Labels
  <2>2. Control(l, f)
    BY <1>1, <1>2, <1>3
       DEF HashOnOpen, Goto, f,
           Ops, Control, OpLabels, WithVM, WithCache, WithBoth,
           Answered, BuildLabels
  <2>3. pc' = [pc EXCEPT ![g] = l] /\ frame' = [frame EXCEPT ![g] = f]
    BY <1>1, <1>2, <1>3 DEF HashOnOpen, Goto, Locals, Answer, f
  <2> QED
    BY <1>3, <2>1, <2>2, <2>3, MoveKeepsControl
       DEF HashOnOpen, TypeOK, heapVars, vmVars
<1>4. CASE HashOnClosed(g)
  <2> DEFINE l == "runlock"
         e == [f EXCEPT !.out = Panicked]
  <2>1. OutEdited(e, f, Panicked)
    BY <1>1, <1>2, <1>4, EditOut, OutcomesTyped
  <2> HIDE DEF e
  <2>2. l \in Labels /\ e \in Frames
    BY <1>1, <1>2, <1>4, <2>1 DEF Labels, OutEdited
  <2>3. Control(l, e)
    BY <1>1, <1>2, <1>4, <2>1
       DEF HashOnClosed, Goto, f, NoOut, Panicked, OutEdited,
           Ops, Control, OpLabels, WithVM, WithCache, WithBoth,
           Answered, BuildLabels
  <2>4. pc' = [pc EXCEPT ![g] = l] /\ frame' = [frame EXCEPT ![g] = e]
    BY <1>1, <1>2, <1>4, <2>1 DEF HashOnClosed, Goto, Locals, Answer, f, e
  <2> QED
    BY <1>4, <2>2, <2>3, <2>4, MoveKeepsControl
       DEF HashOnClosed, TypeOK, heapVars, vmVars
<1>5. CASE PoolGetVM(g)
  <2>1. PICK v \in VMs :
            /\ pool' = pool \ {v}
            /\ vms' = [vms EXCEPT ![v] = Reset(vms[v])]
            /\ frame' = [frame EXCEPT ![g] = [f EXCEPT !.vm = v]]
    BY <1>5 DEF PoolGetVM, Least, UnmadeVMs, TypeOK, Locals, f
  <2> DEFINE l == "init"
         e == [f EXCEPT !.vm = v]
  <2>2. VMEdited(e, f, v)
    BY <1>1, <1>2, <1>5, <2>1, EditVM
  <2> HIDE DEF e
  <2>3. l \in Labels /\ e \in Frames
    BY <1>1, <1>2, <1>5, <2>1, <2>2 DEF Labels, VMEdited
  <2>4. Control(l, e)
    BY <1>1, <1>2, <1>5, <2>1, <2>2, NoneAssumption
       DEF PoolGetVM, Goto, f, VMEdited,
           Ops, Control, OpLabels, WithVM, WithCache, WithBoth,
           Answered, BuildLabels
  <2>5. pc' = [pc EXCEPT ![g] = l] /\ frame' = [frame EXCEPT ![g] = e]
    BY <1>1, <1>2, <1>5, <2>1, <2>2 DEF PoolGetVM, Goto, Locals, Answer, f, e
  <2>6. vms' \in [VMs -> VMStructs]
    BY <1>1, <1>2, <1>5, <2>1, <2>2, VMEdits DEF TypeOK, Reset
  <2>7. pool' \in SUBSET VMs
    BY <2>1 DEF TypeOK
  <2> QED
    BY <1>5, <2>3, <2>4, <2>5, <2>6, <2>7, MoveKeepsControl
       DEF PoolGetVM, TypeOK, heapVars, vmVars
<1>6. CASE HashInit(g)
  <2> DEFINE l == "run"
         e == [f EXCEPT !.left = Programs]
  <2>1. Programs \in 0..Programs
    BY <1>1, <1>2, <1>6, ProgramsAssumption DEF HashInit, f
  <2>2. LeftEdited(e, f, Programs)
    BY <1>1, <1>2, <1>6, <2>1, EditLeft
  <2> HIDE DEF e
  <2>3. l \in Labels /\ e \in Frames
    BY <1>1, <1>2, <1>6, <2>1, <2>2 DEF Labels, LeftEdited
  <2>4. Control(l, e)
    BY <1>1, <1>2, <1>6, <2>1, <2>2
       DEF HashInit, Goto, f, LeftEdited,
           Ops, Control, OpLabels, WithVM, WithCache, WithBoth,
           Answered, BuildLabels
  <2>5. pc' = [pc EXCEPT ![g] = l] /\ frame' = [frame EXCEPT ![g] = e]
    BY <1>1, <1>2, <1>6, <2>1, <2>2 DEF HashInit, Goto, Locals, Answer, f, e
  <2>6. vms' \in [VMs -> VMStructs]
    <3>1. f.h \in Hashers /\ f.input \in Data
      BY <1>1, <1>2, <1>6 DEF HashInit, Goto, f, Control, OpLabels, Ops, Frames, Data
    <3>2. /\ hasher[f.h].ds \in Addrs \cup {NoAddr}
          /\ hasher[f.h].cache \in Addrs \cup {NoAddr}
      BY <3>1 DEF TypeOK, HasherStructs
    <3>3. \A v \in VMs :
              Initialize(InitVM(vms[v], hasher[f.h].ds, hasher[f.h].cache), f.input)
                  \in VMStructs
      BY <3>1, <3>2, InitTyped DEF TypeOK
    <3> QED
      BY <1>6, <3>3 DEF HashInit, f, TypeOK
  <2> QED
    BY <1>6, <2>3, <2>4, <2>5, <2>6, MoveKeepsControl
       DEF HashInit, TypeOK, heapVars, vmVars
<1>7. CASE HashProgram(g)
  <2> DEFINE l == "run"
         e == [f EXCEPT !.left = f.left - 1]
  <2>1. f.left - 1 \in 0..Programs
    BY <1>1, <1>2, <1>7, ProgramsAssumption DEF HashProgram, f
  <2>2. LeftEdited(e, f, f.left - 1)
    BY <1>1, <1>2, <1>7, <2>1, EditLeft
  <2> HIDE DEF e
  <2>3. l \in Labels /\ e \in Frames
    BY <1>1, <1>2, <1>7, <2>1, <2>2 DEF Labels, LeftEdited
  <2>4. Control(l, e)
    BY <1>1, <1>2, <1>7, <2>1, <2>2
       DEF HashProgram, Goto, f, LeftEdited,
           Ops, Control, OpLabels, WithVM, WithCache, WithBoth,
           Answered, BuildLabels
  <2>5. pc' = [pc EXCEPT ![g] = l] /\ frame' = [frame EXCEPT ![g] = e]
    BY <1>1, <1>2, <1>7, <2>1, <2>2 DEF HashProgram, Goto, Locals, Answer, f, e
  <2>6. vms' \in [VMs -> VMStructs]
    BY <1>1, <1>2, <1>7, <2>1, <2>2, ProgramTyped DEF HashProgram, f, TypeOK
  <2> QED
    BY <1>7, <2>3, <2>4, <2>5, <2>6, MoveKeepsControl
       DEF HashProgram, TypeOK, heapVars, vmVars
<1>8. CASE HashFinalize(g)
  <2> DEFINE l == "putvm"
         e == [f EXCEPT !.out = [tag |-> "hash", of |-> vms[f.vm].regs \cup vms[f.vm].mem]]
  <2>1. [tag |-> "hash", of |-> vms[f.vm].regs \cup vms[f.vm].mem] \in Outcomes
    BY <1>1, <1>2, <1>8 DEF HashFinalize, Goto, f, TypeOK, VMStructs, Outcomes, Tags, Control, WithVM
  <2>2. OutEdited(e, f, [tag |-> "hash", of |-> vms[f.vm].regs \cup vms[f.vm].mem])
    BY <1>1, <1>2, <1>8, <2>1, EditOut, OutcomesTyped
  <2> HIDE DEF e
  <2>3. l \in Labels /\ e \in Frames
    BY <1>1, <1>2, <1>8, <2>1, <2>2 DEF Labels, OutEdited
  <2>4. Control(l, e)
    BY <1>1, <1>2, <1>8, <2>1, <2>2
       DEF HashFinalize, Goto, f, NoOut, OutEdited,
           Ops, Control, OpLabels, WithVM, WithCache, WithBoth,
           Answered, BuildLabels
  <2>5. pc' = [pc EXCEPT ![g] = l] /\ frame' = [frame EXCEPT ![g] = e]
    BY <1>1, <1>2, <1>8, <2>1, <2>2 DEF HashFinalize, Goto, Locals, Answer, f, e
  <2> QED
    BY <1>8, <2>3, <2>4, <2>5, MoveKeepsControl
       DEF HashFinalize, TypeOK, heapVars, vmVars
<1>9. CASE PoolPutVM(g)
  <2> DEFINE l == "runlock"
         e == [f EXCEPT !.vm = NoVM]
  <2>1. VMEdited(e, f, NoVM)
    BY <1>1, <1>2, <1>9, EditVM
  <2> HIDE DEF e
  <2>2. l \in Labels /\ e \in Frames
    BY <1>1, <1>2, <1>9, <2>1 DEF Labels, VMEdited
  <2>3. Control(l, e)
    BY <1>1, <1>2, <1>9, <2>1, NoneAssumption
       DEF PoolPutVM, Goto, f, VMEdited,
           Ops, Control, OpLabels, WithVM, WithCache, WithBoth,
           Answered, BuildLabels
  <2>4. pc' = [pc EXCEPT ![g] = l] /\ frame' = [frame EXCEPT ![g] = e]
    BY <1>1, <1>2, <1>9, <2>1 DEF PoolPutVM, Goto, Locals, Answer, f, e
  <2>5. pool' \in SUBSET VMs
    BY <1>1, <1>2, <1>9, <2>1 DEF PoolPutVM, Goto, f, TypeOK, Control, WithVM
  <2> QED
    BY <1>9, <2>2, <2>3, <2>4, <2>5, MoveKeepsControl
       DEF PoolPutVM, TypeOK, heapVars, vmVars
<1>10. CASE IsReadyRead(g)
  <2> DEFINE l == "runlock"
         e == [f EXCEPT !.out = IF hasher[f.h].closed THEN NotReady ELSE Ready]
  <2>1. OutEdited(e, f, IF hasher[f.h].closed THEN NotReady ELSE Ready)
    BY <1>1, <1>2, <1>10, EditOut, OutcomesTyped
  <2> HIDE DEF e
  <2>2. l \in Labels /\ e \in Frames
    BY <1>1, <1>2, <1>10, <2>1 DEF Labels, OutEdited
  <2>3. Control(l, e)
    BY <1>1, <1>2, <1>10, <2>1
       DEF IsReadyRead, Goto, f, NoOut, Ready, NotReady, OutEdited,
           Ops, Control, OpLabels, WithVM, WithCache, WithBoth,
           Answered, BuildLabels
  <2>4. pc' = [pc EXCEPT ![g] = l] /\ frame' = [frame EXCEPT ![g] = e]
    BY <1>1, <1>2, <1>10, <2>1 DEF IsReadyRead, Goto, Locals, Answer, f, e
  <2> QED
    BY <1>10, <2>2, <2>3, <2>4, MoveKeepsControl
       DEF IsReadyRead, TypeOK, heapVars, vmVars
<1> QED
  BY <1>3, <1>4, <1>5, <1>6, <1>7, <1>8, <1>9, <1>10 DEF Hashing

LEMMA TypeEnvironment ==
  ASSUME TypeOK, ControlOK, Environment
  PROVE  TypeOK' /\ ControlOK'
<1>1. UNCHANGED <<pc, frame, mu, caches, datasets>>
  BY DEF Environment, CallerWritesBuffer, PoolDrop, heapVars
<1>2. hasher' \in [Hashers -> HasherStructs]
  <2>1. ASSUME NEW h \in Hashers, NEW k \in Keys
        PROVE  [hasher EXCEPT ![h].stored = k] \in [Hashers -> HasherStructs]
    <3>1. [hasher[h] EXCEPT !.stored = k] \in HasherStructs
      BY StructEdits DEF TypeOK
    <3> QED
      BY <3>1 DEF TypeOK
  <2> QED
    BY <2>1 DEF Environment, CallerWritesBuffer, PoolDrop, TypeOK
<1>3. vms' \in [VMs -> VMStructs] /\ pool' \in SUBSET VMs
  <2>1. NewVM \in VMStructs
    BY DEF NewVM, VMStructs
  <2> QED
    BY <2>1 DEF Environment, CallerWritesBuffer, PoolDrop, vmVars, TypeOK
<1> QED
  BY <1>1, <1>2, <1>3 DEF TypeOK, ControlOK

-----------------------------------------------------------------------------
LEMMA TypeNext ==
  ASSUME TypeOK, ControlOK, [Next]_vars
  PROVE  TypeOK' /\ ControlOK'
<1>1. CASE UNCHANGED vars
  BY <1>1 DEF vars, TypeOK, ControlOK
<1>2. CASE Environment
  BY <1>2, TypeEnvironment
<1>3. ASSUME NEW g \in Goroutines, Calls(g) \/ Step(g)
      PROVE  TypeOK' /\ ControlOK'
  BY <1>3, TypeCalls, TypeLocking, TypeBuilding, TypeUpdating, TypeHashing, TypeReturn
     DEF Step
<1> QED
  BY <1>1, <1>2, <1>3 DEF Next

(* Every variable keeps its type, and the locals of a call are set exactly *)
(* where its operation has set them: no interleaving of calls on shared    *)
(* hashers reaches a step with a nil machine, cache or hasher.             *)
THEOREM TypeCorrect == Spec => [](TypeOK /\ ControlOK)
<1>1. Init => TypeOK /\ ControlOK
  BY TypeInit, ControlInit
<1>2. TypeOK /\ ControlOK /\ [Next]_vars => TypeOK' /\ ControlOK'
  BY TypeNext
<1> QED
  BY <1>1, <1>2, PTL DEF Spec

-----------------------------------------------------------------------------
(* What each action changes. *)

(* Only goroutine g moves, from one label to another.                      *)
Others(g) ==
    \A o \in Goroutines : o # g => pc'[o] = pc[o] /\ frame'[o] = frame[o]

Turns(g, from, to) == pc[g] = from /\ pc'[g] = to /\ Others(g)

LEMMA Turning ==
  ASSUME TypeOK, NEW g \in Goroutines, NEW l, NEW e,
         pc' = [pc EXCEPT ![g] = l], frame' = [frame EXCEPT ![g] = e]
  PROVE  Turns(g, pc[g], l) /\ frame'[g] = e
  BY DEF TypeOK, Turns, Others

-----------------------------------------------------------------------------
LEMMA RLockFacts ==
  ASSUME TypeOK, ControlOK, NEW g \in Goroutines, RLock(g)
  PROVE  /\ Turns(g, "rlock", "rwait") /\ frame'[g] = frame[g]
         /\ UNCHANGED <<hasher, caches, datasets, vms, pool>>
<1>1. /\ pc[g] = "rlock" /\ pc' = [pc EXCEPT ![g] = "rwait"]
      /\ frame' = [frame EXCEPT ![g] = frame[g]]
      /\ UNCHANGED <<hasher, caches, datasets, vms, pool>>
  BY DEF RLock, Goto, heapVars, vmVars, TypeOK
<1> QED
  BY <1>1, Turning

LEMMA RLockedFacts ==
  ASSUME TypeOK, ControlOK, NEW g \in Goroutines, RLocked(g)
  PROVE  /\ Turns(g, "rwait", WithReadLock(g)) /\ frame'[g] = frame[g]
         /\ UNCHANGED <<hasher, mu, caches, datasets, vms, pool>>
<1>1. /\ pc[g] = "rwait" /\ pc' = [pc EXCEPT ![g] = WithReadLock(g)]
      /\ frame' = [frame EXCEPT ![g] = frame[g]]
      /\ UNCHANGED <<hasher, mu, caches, datasets, vms, pool>>
  BY DEF RLocked, Goto, heapVars, vmVars, TypeOK
<1> QED
  BY <1>1, Turning

LEMMA RUnlockFacts ==
  ASSUME TypeOK, ControlOK, NEW g \in Goroutines, RUnlock(g)
  PROVE  /\ Turns(g, "runlock", "return") /\ frame'[g] = frame[g]
         /\ UNCHANGED <<hasher, caches, datasets, vms, pool>>
<1>1. /\ pc[g] = "runlock" /\ pc' = [pc EXCEPT ![g] = "return"]
      /\ frame' = [frame EXCEPT ![g] = frame[g]]
      /\ UNCHANGED <<hasher, caches, datasets, vms, pool>>
  BY DEF RUnlock, Goto, heapVars, vmVars, TypeOK
<1> QED
  BY <1>1, Turning

LEMMA LockAnnounceFacts ==
  ASSUME TypeOK, ControlOK, NEW g \in Goroutines, LockAnnounce(g)
  PROVE  /\ Turns(g, "lock", "drain") /\ frame'[g] = frame[g]
         /\ UNCHANGED <<hasher, caches, datasets, vms, pool>>
<1>1. /\ pc[g] = "lock" /\ pc' = [pc EXCEPT ![g] = "drain"]
      /\ frame' = [frame EXCEPT ![g] = frame[g]]
      /\ UNCHANGED <<hasher, caches, datasets, vms, pool>>
  BY DEF LockAnnounce, Goto, heapVars, vmVars, TypeOK
<1> QED
  BY <1>1, Turning

LEMMA LockedFacts ==
  ASSUME TypeOK, ControlOK, NEW g \in Goroutines, Locked(g)
  PROVE  /\ Turns(g, "drain", WithWriteLock(g)) /\ frame'[g] = frame[g]
         /\ UNCHANGED <<hasher, mu, caches, datasets, vms, pool>>
<1>1. /\ pc[g] = "drain" /\ pc' = [pc EXCEPT ![g] = WithWriteLock(g)]
      /\ frame' = [frame EXCEPT ![g] = frame[g]]
      /\ UNCHANGED <<hasher, mu, caches, datasets, vms, pool>>
  BY DEF Locked, Goto, heapVars, vmVars, TypeOK
<1> QED
  BY <1>1, Turning

LEMMA UnlockFacts ==
  ASSUME TypeOK, ControlOK, NEW g \in Goroutines, Unlock(g)
  PROVE  /\ Turns(g, "unlock", "return") /\ frame'[g] = frame[g]
         /\ UNCHANGED <<hasher, caches, datasets, vms, pool>>
<1>1. /\ pc[g] = "unlock" /\ pc' = [pc EXCEPT ![g] = "return"]
      /\ frame' = [frame EXCEPT ![g] = frame[g]]
      /\ UNCHANGED <<hasher, caches, datasets, vms, pool>>
  BY DEF Unlock, Goto, heapVars, vmVars, TypeOK
<1> QED
  BY <1>1, Turning

LEMMA NewAcceptFacts ==
  ASSUME TypeOK, ControlOK, NEW g \in Goroutines, NewAccept(g)
  PROVE  /\ Turns(g, "validate", "buildcache") /\ frame'[g] = frame[g]
         /\ UNCHANGED <<hasher, mu, caches, datasets, vms, pool>>
<1>1. /\ pc[g] = "validate" /\ pc' = [pc EXCEPT ![g] = "buildcache"]
      /\ frame' = [frame EXCEPT ![g] = frame[g]]
      /\ UNCHANGED <<hasher, mu, caches, datasets, vms, pool>>
  BY DEF NewAccept, Goto, heapVars, vmVars, TypeOK
<1> QED
  BY <1>1, Turning

LEMMA NewRejectFacts ==
  ASSUME TypeOK, ControlOK, NEW g \in Goroutines, NewReject(g)
  PROVE  /\ Turns(g, "validate", "return") /\ OutEdited(frame'[g], frame[g], Failed)
         /\ UNCHANGED <<hasher, mu, caches, datasets, vms, pool>>
<1> DEFINE x == Failed
<1>1. /\ pc[g] = "validate" /\ pc' = [pc EXCEPT ![g] = "return"]
      /\ frame' = [frame EXCEPT ![g] = [frame[g] EXCEPT !.out = x]]
      /\ UNCHANGED <<hasher, mu, caches, datasets, vms, pool>>
  BY DEF NewReject, Goto, Answer, Locals, heapVars, vmVars
<1>2. frame[g] \in Frames
  BY DEF TypeOK
<1>3. x \in Outcomes
  BY OutcomesTyped
<1> HIDE DEF x
<1>4. OutEdited([frame[g] EXCEPT !.out = x], frame[g], x)
  BY <1>2, <1>3, EditOut
<1>5. Turns(g, "validate", "return") /\ frame'[g] = [frame[g] EXCEPT !.out = x]
  BY <1>1, Turning
<1> QED
  BY <1>1, <1>4, <1>5 DEF x

LEMMA NewPublishFacts ==
  ASSUME TypeOK, ControlOK, NEW g \in Goroutines, NewPublish(g)
  PROVE  /\ Turns(g, "publish", "return") /\ HandOverEdited(frame'[g], frame[g], OK)
         /\ UNCHANGED <<mu, caches, datasets, vms, pool>>
<1> DEFINE x == OK
<1>1. /\ pc[g] = "publish" /\ pc' = [pc EXCEPT ![g] = "return"]
      /\ frame' = [frame EXCEPT ![g] = [frame[g] EXCEPT !.c = NoAddr, !.d = NoAddr, !.out = x]]
      /\ UNCHANGED <<mu, caches, datasets, vms, pool>>
  BY DEF NewPublish, Goto, Locals, heapVars, vmVars
<1>2. frame[g] \in Frames
  BY DEF TypeOK
<1>3. x \in Outcomes
  BY OutcomesTyped
<1> HIDE DEF x
<1>4. HandOverEdited([frame[g] EXCEPT !.c = NoAddr, !.d = NoAddr, !.out = x], frame[g], x)
  BY <1>2, <1>3, EditHandOver
<1>5. Turns(g, "publish", "return") /\ frame'[g] = [frame[g] EXCEPT !.c = NoAddr, !.d = NoAddr, !.out = x]
  BY <1>1, Turning
<1> QED
  BY <1>1, <1>4, <1>5 DEF x

LEMMA NewCacheFailsFacts ==
  ASSUME TypeOK, ControlOK, NEW g \in Goroutines, NewCacheFails(g)
  PROVE  /\ Turns(g, "buildcache", AfterError(g))
         /\ OutEdited(frame'[g], frame[g], Failed)
         /\ UNCHANGED <<hasher, mu, caches, datasets, vms, pool>>
<1> DEFINE x == Failed
<1>1. /\ pc[g] = "buildcache" /\ pc' = [pc EXCEPT ![g] = AfterError(g)]
      /\ frame' = [frame EXCEPT ![g] = [frame[g] EXCEPT !.out = x]]
      /\ UNCHANGED <<hasher, mu, caches, datasets, vms, pool>>
  BY DEF NewCacheFails, Goto, Answer, Locals, heapVars, vmVars
<1>2. frame[g] \in Frames
  BY DEF TypeOK
<1>3. x \in Outcomes
  BY OutcomesTyped
<1> HIDE DEF x
<1>4. OutEdited([frame[g] EXCEPT !.out = x], frame[g], x)
  BY <1>2, <1>3, EditOut
<1>5. Turns(g, "buildcache", AfterError(g)) /\ frame'[g] = [frame[g] EXCEPT !.out = x]
  BY <1>1, Turning
<1> QED
  BY <1>1, <1>4, <1>5 DEF x

LEMMA NewDatasetFacts ==
  ASSUME TypeOK, ControlOK, NEW g \in Goroutines, NewDataset(g)
  PROVE  /\ Turns(g, "builddataset", AfterBuild(g))
         /\ DatasetEdited(frame'[g], frame[g], frame[g].c)
         /\ UNCHANGED <<hasher, mu, caches, vms, pool>>
<1> DEFINE x == frame[g].c
<1>1. /\ pc[g] = "builddataset" /\ pc' = [pc EXCEPT ![g] = AfterBuild(g)]
      /\ frame' = [frame EXCEPT ![g] = [frame[g] EXCEPT !.d = x]]
      /\ UNCHANGED <<hasher, mu, caches, vms, pool>>
  BY DEF NewDataset, Goto, Locals, heapVars, vmVars
<1>2. frame[g] \in Frames
  BY DEF TypeOK
<1>3. x \in Addrs \cup {NoAddr}
  BY <1>2 DEF Frames
<1> HIDE DEF x
<1>4. DatasetEdited([frame[g] EXCEPT !.d = x], frame[g], x)
  BY <1>2, <1>3, EditDataset
<1>5. Turns(g, "builddataset", AfterBuild(g)) /\ frame'[g] = [frame[g] EXCEPT !.d = x]
  BY <1>1, Turning
<1> QED
  BY <1>1, <1>4, <1>5 DEF x

LEMMA NewDatasetFailsFacts ==
  ASSUME TypeOK, ControlOK, NEW g \in Goroutines, NewDatasetFails(g)
  PROVE  /\ Turns(g, "builddataset", AfterError(g))
         /\ DropEdited(frame'[g], frame[g], Failed)
         /\ UNCHANGED <<hasher, mu, datasets, vms, pool>>
<1> DEFINE x == Failed
<1>1. /\ pc[g] = "builddataset" /\ pc' = [pc EXCEPT ![g] = AfterError(g)]
      /\ frame' = [frame EXCEPT ![g] = [frame[g] EXCEPT !.c = NoAddr, !.out = x]]
      /\ UNCHANGED <<hasher, mu, datasets, vms, pool>>
  BY DEF NewDatasetFails, Goto, Locals, heapVars, vmVars
<1>2. frame[g] \in Frames
  BY DEF TypeOK
<1>3. x \in Outcomes
  BY OutcomesTyped
<1> HIDE DEF x
<1>4. DropEdited([frame[g] EXCEPT !.c = NoAddr, !.out = x], frame[g], x)
  BY <1>2, <1>3, EditDrop
<1>5. Turns(g, "builddataset", AfterError(g)) /\ frame'[g] = [frame[g] EXCEPT !.c = NoAddr, !.out = x]
  BY <1>1, Turning
<1> QED
  BY <1>1, <1>4, <1>5 DEF x

LEMMA UpdateAcceptFacts ==
  ASSUME TypeOK, ControlOK, NEW g \in Goroutines, UpdateAccept(g)
  PROVE  /\ Turns(g, "checkkey", "lock") /\ frame'[g] = frame[g]
         /\ UNCHANGED <<hasher, mu, caches, datasets, vms, pool>>
<1>1. /\ pc[g] = "checkkey" /\ pc' = [pc EXCEPT ![g] = "lock"]
      /\ frame' = [frame EXCEPT ![g] = frame[g]]
      /\ UNCHANGED <<hasher, mu, caches, datasets, vms, pool>>
  BY DEF UpdateAccept, Goto, heapVars, vmVars, TypeOK
<1> QED
  BY <1>1, Turning

LEMMA UpdateRejectFacts ==
  ASSUME TypeOK, ControlOK, NEW g \in Goroutines, UpdateReject(g)
  PROVE  /\ Turns(g, "checkkey", "return") /\ OutEdited(frame'[g], frame[g], Failed)
         /\ UNCHANGED <<hasher, mu, caches, datasets, vms, pool>>
<1> DEFINE x == Failed
<1>1. /\ pc[g] = "checkkey" /\ pc' = [pc EXCEPT ![g] = "return"]
      /\ frame' = [frame EXCEPT ![g] = [frame[g] EXCEPT !.out = x]]
      /\ UNCHANGED <<hasher, mu, caches, datasets, vms, pool>>
  BY DEF UpdateReject, Goto, Answer, Locals, heapVars, vmVars
<1>2. frame[g] \in Frames
  BY DEF TypeOK
<1>3. x \in Outcomes
  BY OutcomesTyped
<1> HIDE DEF x
<1>4. OutEdited([frame[g] EXCEPT !.out = x], frame[g], x)
  BY <1>2, <1>3, EditOut
<1>5. Turns(g, "checkkey", "return") /\ frame'[g] = [frame[g] EXCEPT !.out = x]
  BY <1>1, Turning
<1> QED
  BY <1>1, <1>4, <1>5 DEF x

LEMMA UpdateOnClosedFacts ==
  ASSUME TypeOK, ControlOK, NEW g \in Goroutines, UpdateOnClosed(g)
  PROVE  /\ Turns(g, "compare", "unlock") /\ OutEdited(frame'[g], frame[g], Failed)
         /\ UNCHANGED <<hasher, mu, caches, datasets, vms, pool>>
<1> DEFINE x == Failed
<1>1. /\ pc[g] = "compare" /\ pc' = [pc EXCEPT ![g] = "unlock"]
      /\ frame' = [frame EXCEPT ![g] = [frame[g] EXCEPT !.out = x]]
      /\ UNCHANGED <<hasher, mu, caches, datasets, vms, pool>>
  BY DEF UpdateOnClosed, Goto, Answer, Locals, heapVars, vmVars
<1>2. frame[g] \in Frames
  BY DEF TypeOK
<1>3. x \in Outcomes
  BY OutcomesTyped
<1> HIDE DEF x
<1>4. OutEdited([frame[g] EXCEPT !.out = x], frame[g], x)
  BY <1>2, <1>3, EditOut
<1>5. Turns(g, "compare", "unlock") /\ frame'[g] = [frame[g] EXCEPT !.out = x]
  BY <1>1, Turning
<1> QED
  BY <1>1, <1>4, <1>5 DEF x

LEMMA UpdateSameKeyFacts ==
  ASSUME TypeOK, ControlOK, NEW g \in Goroutines, UpdateSameKey(g)
  PROVE  /\ Turns(g, "compare", "unlock") /\ OutEdited(frame'[g], frame[g], OK)
         /\ UNCHANGED <<hasher, mu, caches, datasets, vms, pool>>
<1> DEFINE x == OK
<1>1. /\ pc[g] = "compare" /\ pc' = [pc EXCEPT ![g] = "unlock"]
      /\ frame' = [frame EXCEPT ![g] = [frame[g] EXCEPT !.out = x]]
      /\ UNCHANGED <<hasher, mu, caches, datasets, vms, pool>>
  BY DEF UpdateSameKey, Goto, Answer, Locals, heapVars, vmVars
<1>2. frame[g] \in Frames
  BY DEF TypeOK
<1>3. x \in Outcomes
  BY OutcomesTyped
<1> HIDE DEF x
<1>4. OutEdited([frame[g] EXCEPT !.out = x], frame[g], x)
  BY <1>2, <1>3, EditOut
<1>5. Turns(g, "compare", "unlock") /\ frame'[g] = [frame[g] EXCEPT !.out = x]
  BY <1>1, Turning
<1> QED
  BY <1>1, <1>4, <1>5 DEF x

LEMMA UpdateNewKeyFacts ==
  ASSUME TypeOK, ControlOK, NEW g \in Goroutines, UpdateNewKey(g)
  PROVE  /\ Turns(g, "compare", "buildcache")
         /\ ModeEdited(frame'[g], frame[g], hasher[frame[g].h].mode)
         /\ UNCHANGED <<hasher, mu, caches, datasets, vms, pool>>
<1> DEFINE x == hasher[frame[g].h].mode
<1>1. /\ pc[g] = "compare" /\ pc' = [pc EXCEPT ![g] = "buildcache"]
      /\ frame' = [frame EXCEPT ![g] = [frame[g] EXCEPT !.mode = x]]
      /\ UNCHANGED <<hasher, mu, caches, datasets, vms, pool>>
  BY DEF UpdateNewKey, Goto, Locals, heapVars, vmVars
<1>2. frame[g] \in Frames
  BY DEF TypeOK
<1>3. x \in {"light", "fast"}
  BY <1>1, <1>2 DEF TypeOK, ControlOK, Control, OpLabels, Frames, Ops, HasherStructs
<1> HIDE DEF x
<1>4. ModeEdited([frame[g] EXCEPT !.mode = x], frame[g], x)
  BY <1>2, <1>3, EditMode
<1>5. Turns(g, "compare", "buildcache") /\ frame'[g] = [frame[g] EXCEPT !.mode = x]
  BY <1>1, Turning
<1> QED
  BY <1>1, <1>4, <1>5 DEF x

LEMMA UpdateReleaseFacts ==
  ASSUME TypeOK, ControlOK, NEW g \in Goroutines, UpdateRelease(g)
  PROVE  /\ Turns(g, "release", "swap") /\ frame'[g] = frame[g]
         /\ UNCHANGED <<hasher, mu, vms, pool>>
<1>1. /\ pc[g] = "release" /\ pc' = [pc EXCEPT ![g] = "swap"]
      /\ frame' = [frame EXCEPT ![g] = frame[g]]
      /\ UNCHANGED <<hasher, mu, vms, pool>>
  BY DEF UpdateRelease, Goto, heapVars, vmVars, TypeOK
<1> QED
  BY <1>1, Turning

LEMMA UpdateSwapFacts ==
  ASSUME TypeOK, ControlOK, NEW g \in Goroutines, UpdateSwap(g)
  PROVE  /\ Turns(g, "swap", "unlock") /\ HandOverEdited(frame'[g], frame[g], OK)
         /\ UNCHANGED <<mu, caches, datasets, vms, pool>>
<1> DEFINE x == OK
<1>1. /\ pc[g] = "swap" /\ pc' = [pc EXCEPT ![g] = "unlock"]
      /\ frame' = [frame EXCEPT ![g] = [frame[g] EXCEPT !.c = NoAddr, !.d = NoAddr, !.out = x]]
      /\ UNCHANGED <<mu, caches, datasets, vms, pool>>
  BY DEF UpdateSwap, Goto, Locals, heapVars, vmVars
<1>2. frame[g] \in Frames
  BY DEF TypeOK
<1>3. x \in Outcomes
  BY OutcomesTyped
<1> HIDE DEF x
<1>4. HandOverEdited([frame[g] EXCEPT !.c = NoAddr, !.d = NoAddr, !.out = x], frame[g], x)
  BY <1>2, <1>3, EditHandOver
<1>5. Turns(g, "swap", "unlock") /\ frame'[g] = [frame[g] EXCEPT !.c = NoAddr, !.d = NoAddr, !.out = x]
  BY <1>1, Turning
<1> QED
  BY <1>1, <1>4, <1>5 DEF x

LEMMA CloseAgainFacts ==
  ASSUME TypeOK, ControlOK, NEW g \in Goroutines, CloseAgain(g)
  PROVE  /\ Turns(g, "close", "unlock") /\ OutEdited(frame'[g], frame[g], OK)
         /\ UNCHANGED <<hasher, mu, caches, datasets, vms, pool>>
<1> DEFINE x == OK
<1>1. /\ pc[g] = "close" /\ pc' = [pc EXCEPT ![g] = "unlock"]
      /\ frame' = [frame EXCEPT ![g] = [frame[g] EXCEPT !.out = x]]
      /\ UNCHANGED <<hasher, mu, caches, datasets, vms, pool>>
  BY DEF CloseAgain, Goto, Answer, Locals, heapVars, vmVars
<1>2. frame[g] \in Frames
  BY DEF TypeOK
<1>3. x \in Outcomes
  BY OutcomesTyped
<1> HIDE DEF x
<1>4. OutEdited([frame[g] EXCEPT !.out = x], frame[g], x)
  BY <1>2, <1>3, EditOut
<1>5. Turns(g, "close", "unlock") /\ frame'[g] = [frame[g] EXCEPT !.out = x]
  BY <1>1, Turning
<1> QED
  BY <1>1, <1>4, <1>5 DEF x

LEMMA CloseReleaseFacts ==
  ASSUME TypeOK, ControlOK, NEW g \in Goroutines, CloseRelease(g)
  PROVE  /\ Turns(g, "close", "unlock") /\ OutEdited(frame'[g], frame[g], OK)
         /\ UNCHANGED <<mu, vms, pool>>
<1> DEFINE x == OK
<1>1. /\ pc[g] = "close" /\ pc' = [pc EXCEPT ![g] = "unlock"]
      /\ frame' = [frame EXCEPT ![g] = [frame[g] EXCEPT !.out = x]]
      /\ UNCHANGED <<mu, vms, pool>>
  BY DEF CloseRelease, Goto, Answer, Locals, heapVars, vmVars
<1>2. frame[g] \in Frames
  BY DEF TypeOK
<1>3. x \in Outcomes
  BY OutcomesTyped
<1> HIDE DEF x
<1>4. OutEdited([frame[g] EXCEPT !.out = x], frame[g], x)
  BY <1>2, <1>3, EditOut
<1>5. Turns(g, "close", "unlock") /\ frame'[g] = [frame[g] EXCEPT !.out = x]
  BY <1>1, Turning
<1> QED
  BY <1>1, <1>4, <1>5 DEF x

LEMMA HashOnOpenFacts ==
  ASSUME TypeOK, ControlOK, NEW g \in Goroutines, HashOnOpen(g)
  PROVE  /\ Turns(g, "check", "getvm") /\ frame'[g] = frame[g]
         /\ UNCHANGED <<hasher, mu, caches, datasets, vms, pool>>
<1>1. /\ pc[g] = "check" /\ pc' = [pc EXCEPT ![g] = "getvm"]
      /\ frame' = [frame EXCEPT ![g] = frame[g]]
      /\ UNCHANGED <<hasher, mu, caches, datasets, vms, pool>>
  BY DEF HashOnOpen, Goto, heapVars, vmVars, TypeOK
<1> QED
  BY <1>1, Turning

LEMMA HashOnClosedFacts ==
  ASSUME TypeOK, ControlOK, NEW g \in Goroutines, HashOnClosed(g)
  PROVE  /\ Turns(g, "check", "runlock") /\ OutEdited(frame'[g], frame[g], Panicked)
         /\ UNCHANGED <<hasher, mu, caches, datasets, vms, pool>>
<1> DEFINE x == Panicked
<1>1. /\ pc[g] = "check" /\ pc' = [pc EXCEPT ![g] = "runlock"]
      /\ frame' = [frame EXCEPT ![g] = [frame[g] EXCEPT !.out = x]]
      /\ UNCHANGED <<hasher, mu, caches, datasets, vms, pool>>
  BY DEF HashOnClosed, Goto, Answer, Locals, heapVars, vmVars
<1>2. frame[g] \in Frames
  BY DEF TypeOK
<1>3. x \in Outcomes
  BY OutcomesTyped
<1> HIDE DEF x
<1>4. OutEdited([frame[g] EXCEPT !.out = x], frame[g], x)
  BY <1>2, <1>3, EditOut
<1>5. Turns(g, "check", "runlock") /\ frame'[g] = [frame[g] EXCEPT !.out = x]
  BY <1>1, Turning
<1> QED
  BY <1>1, <1>4, <1>5 DEF x

LEMMA HashInitFacts ==
  ASSUME TypeOK, ControlOK, NEW g \in Goroutines, HashInit(g)
  PROVE  /\ Turns(g, "init", "run") /\ LeftEdited(frame'[g], frame[g], Programs)
         /\ UNCHANGED <<hasher, mu, caches, datasets, pool>>
<1> DEFINE x == Programs
<1>1. /\ pc[g] = "init" /\ pc' = [pc EXCEPT ![g] = "run"]
      /\ frame' = [frame EXCEPT ![g] = [frame[g] EXCEPT !.left = x]]
      /\ UNCHANGED <<hasher, mu, caches, datasets, pool>>
  BY DEF HashInit, Goto, Locals, heapVars, vmVars
<1>2. frame[g] \in Frames
  BY DEF TypeOK
<1>3. x \in 0..Programs
  BY ProgramsAssumption
<1> HIDE DEF x
<1>4. LeftEdited([frame[g] EXCEPT !.left = x], frame[g], x)
  BY <1>2, <1>3, EditLeft
<1>5. Turns(g, "init", "run") /\ frame'[g] = [frame[g] EXCEPT !.left = x]
  BY <1>1, Turning
<1> QED
  BY <1>1, <1>4, <1>5 DEF x

LEMMA HashProgramFacts ==
  ASSUME TypeOK, ControlOK, NEW g \in Goroutines, HashProgram(g)
  PROVE  /\ Turns(g, "run", "run")
         /\ LeftEdited(frame'[g], frame[g], frame[g].left - 1)
         /\ UNCHANGED <<hasher, mu, caches, datasets, pool>>
<1> DEFINE x == frame[g].left - 1
<1>1. /\ pc[g] = "run" /\ pc' = [pc EXCEPT ![g] = "run"]
      /\ frame' = [frame EXCEPT ![g] = [frame[g] EXCEPT !.left = x]]
      /\ UNCHANGED <<hasher, mu, caches, datasets, pool>>
  BY DEF HashProgram, Goto, Locals, heapVars, vmVars
<1>2. frame[g] \in Frames
  BY DEF TypeOK
<1>3. x \in 0..Programs
  BY <1>2, ProgramsAssumption DEF HashProgram, Frames
<1> HIDE DEF x
<1>4. LeftEdited([frame[g] EXCEPT !.left = x], frame[g], x)
  BY <1>2, <1>3, EditLeft
<1>5. Turns(g, "run", "run") /\ frame'[g] = [frame[g] EXCEPT !.left = x]
  BY <1>1, Turning
<1> QED
  BY <1>1, <1>4, <1>5 DEF x

LEMMA HashFinalizeFacts ==
  ASSUME TypeOK, ControlOK, NEW g \in Goroutines, HashFinalize(g)
  PROVE  /\ Turns(g, "run", "putvm")
         /\ OutEdited(frame'[g], frame[g],
                      [tag |-> "hash", of |-> vms[frame[g].vm].regs \cup vms[frame[g].vm].mem])
         /\ UNCHANGED <<hasher, mu, caches, datasets, vms, pool>>
<1> DEFINE x == [tag |-> "hash", of |-> vms[frame[g].vm].regs \cup vms[frame[g].vm].mem]
<1>1. /\ pc[g] = "run" /\ pc' = [pc EXCEPT ![g] = "putvm"]
      /\ frame' = [frame EXCEPT ![g] = [frame[g] EXCEPT !.out = x]]
      /\ UNCHANGED <<hasher, mu, caches, datasets, vms, pool>>
  BY DEF HashFinalize, Goto, Answer, Locals, heapVars, vmVars
<1>2. frame[g] \in Frames
  BY DEF TypeOK
<1>3. x \in Outcomes
  <2>1. frame[g].vm \in VMs
    BY <1>1, <1>2 DEF ControlOK, Control, WithVM, Frames
  <2>2. vms[frame[g].vm] \in VMStructs
    BY <2>1 DEF TypeOK
  <2> QED
    BY <2>2 DEF VMStructs, Outcomes, Tags
<1> HIDE DEF x
<1>4. OutEdited([frame[g] EXCEPT !.out = x], frame[g], x)
  BY <1>2, <1>3, EditOut
<1>5. Turns(g, "run", "putvm") /\ frame'[g] = [frame[g] EXCEPT !.out = x]
  BY <1>1, Turning
<1> QED
  BY <1>1, <1>4, <1>5 DEF x

LEMMA PoolPutVMFacts ==
  ASSUME TypeOK, ControlOK, NEW g \in Goroutines, PoolPutVM(g)
  PROVE  /\ Turns(g, "putvm", "runlock") /\ VMEdited(frame'[g], frame[g], NoVM)
         /\ UNCHANGED <<hasher, mu, caches, datasets, vms>>
<1> DEFINE x == NoVM
<1>1. /\ pc[g] = "putvm" /\ pc' = [pc EXCEPT ![g] = "runlock"]
      /\ frame' = [frame EXCEPT ![g] = [frame[g] EXCEPT !.vm = x]]
      /\ UNCHANGED <<hasher, mu, caches, datasets, vms>>
  BY DEF PoolPutVM, Goto, Locals, heapVars, vmVars
<1>2. frame[g] \in Frames
  BY DEF TypeOK
<1>3. x \in VMs \cup {NoVM}
  OBVIOUS
<1> HIDE DEF x
<1>4. VMEdited([frame[g] EXCEPT !.vm = x], frame[g], x)
  BY <1>2, <1>3, EditVM
<1>5. Turns(g, "putvm", "runlock") /\ frame'[g] = [frame[g] EXCEPT !.vm = x]
  BY <1>1, Turning
<1> QED
  BY <1>1, <1>4, <1>5 DEF x

LEMMA IsReadyReadFacts ==
  ASSUME TypeOK, ControlOK, NEW g \in Goroutines, IsReadyRead(g)
  PROVE  /\ Turns(g, "isready", "runlock")
         /\ OutEdited(frame'[g], frame[g],
                      IF hasher[frame[g].h].closed THEN NotReady ELSE Ready)
         /\ UNCHANGED <<hasher, mu, caches, datasets, vms, pool>>
<1> DEFINE x == IF hasher[frame[g].h].closed THEN NotReady ELSE Ready
<1>1. /\ pc[g] = "isready" /\ pc' = [pc EXCEPT ![g] = "runlock"]
      /\ frame' = [frame EXCEPT ![g] = [frame[g] EXCEPT !.out = x]]
      /\ UNCHANGED <<hasher, mu, caches, datasets, vms, pool>>
  BY DEF IsReadyRead, Goto, Answer, Locals, heapVars, vmVars
<1>2. frame[g] \in Frames
  BY DEF TypeOK
<1>3. x \in Outcomes
  BY OutcomesTyped
<1> HIDE DEF x
<1>4. OutEdited([frame[g] EXCEPT !.out = x], frame[g], x)
  BY <1>2, <1>3, EditOut
<1>5. Turns(g, "isready", "runlock") /\ frame'[g] = [frame[g] EXCEPT !.out = x]
  BY <1>1, Turning
<1> QED
  BY <1>1, <1>4, <1>5 DEF x

LEMMA NewCacheFacts ==
  ASSUME TypeOK, ControlOK, NEW g \in Goroutines, NewCache(g)
  PROVE  /\ Turns(g, "buildcache",
                  IF frame[g].mode = "fast" THEN "builddataset" ELSE AfterBuild(g))
         /\ \E a \in FreshAddrs :
               /\ CacheEdited(frame'[g], frame[g], a)
               /\ caches' = [caches EXCEPT ![a] = frame[g].key]
         /\ UNCHANGED <<hasher, mu, datasets, vms, pool>>
<1>1. PICK a \in FreshAddrs :
          /\ caches' = [caches EXCEPT ![a] = frame[g].key]
          /\ frame' = [frame EXCEPT ![g] = [frame[g] EXCEPT !.c = a]]
  BY DEF NewCache, Least, Locals
<1>2. CacheEdited([frame[g] EXCEPT !.c = a], frame[g], a)
  BY EditCache DEF FreshAddrs, TypeOK
<1> DEFINE l == IF frame[g].mode = "fast" THEN "builddataset" ELSE AfterBuild(g)
       e == [frame[g] EXCEPT !.c = a]
<1>3. /\ pc[g] = "buildcache" /\ pc' = [pc EXCEPT ![g] = l]
      /\ frame' = [frame EXCEPT ![g] = e]
      /\ UNCHANGED <<hasher, mu, datasets, vms, pool>>
  BY <1>1 DEF NewCache, Goto, vmVars
<1> HIDE DEF l, e
<1>4. Turns(g, "buildcache", l) /\ frame'[g] = e
  BY <1>3, Turning
<1> QED
  BY <1>1, <1>2, <1>3, <1>4 DEF l, e

LEMMA PoolGetVMFacts ==
  ASSUME TypeOK, ControlOK, NEW g \in Goroutines, PoolGetVM(g)
  PROVE  /\ Turns(g, "getvm", "init")
         /\ \E v \in pool \cup UnmadeVMs :
               /\ v \in VMs /\ VMEdited(frame'[g], frame[g], v)
               /\ pool' = pool \ {v}
               /\ vms' = [vms EXCEPT ![v] = Reset(vms[v])]
         /\ UNCHANGED <<hasher, mu, caches, datasets>>
<1>1. PICK v \in pool \cup UnmadeVMs :
          /\ pool' = pool \ {v}
          /\ vms' = [vms EXCEPT ![v] = Reset(vms[v])]
          /\ frame' = [frame EXCEPT ![g] = [frame[g] EXCEPT !.vm = v]]
  BY DEF PoolGetVM, Least, Locals
<1>2. v \in VMs
  BY DEF TypeOK, UnmadeVMs
<1>3. VMEdited([frame[g] EXCEPT !.vm = v], frame[g], v)
  BY <1>2, EditVM DEF TypeOK
<1>4. Turns(g, "getvm", "init") /\ frame'[g] = [frame[g] EXCEPT !.vm = v]
  BY <1>1, Turning DEF PoolGetVM, Goto
<1> QED
  BY <1>1, <1>2, <1>3, <1>4 DEF PoolGetVM, heapVars

LEMMA ReturnFacts ==
  ASSUME TypeOK, NEW g \in Goroutines, Return(g)
  PROVE  /\ Turns(g, "return", "idle") /\ frame'[g] = NoFrame
         /\ UNCHANGED <<hasher, mu, caches, datasets, vms, pool>>
  BY Turning DEF Return, Goto, Locals, heapVars, vmVars

(* A call begins with fresh locals, New on a hasher nobody knows of and    *)
(* the other operations on one that New has returned.                      *)
CallLabels == {"validate", "rlock", "checkkey", "lock"}

Begun(f) ==
    /\ f.op # "none" /\ f.h \in Hashers
    /\ f.vm = NoVM /\ f.c = NoAddr /\ f.d = NoAddr /\ f.out = NoOut
    /\ f.op = "new" => ~hasher[f.h].exists /\ ~UnderConstruction(f.h)
    /\ f.op # "new" => Usable(f.h)

LEMMA CallFacts ==
  ASSUME TypeOK, NEW g \in Goroutines, Calls(g)
  PROVE  /\ \E l \in CallLabels : Turns(g, "idle", l)
         /\ Begun(frame'[g])
         /\ UNCHANGED <<hasher, mu, caches, datasets, vms, pool>>
<1>1. ASSUME NEW l \in CallLabels, NEW f, Begun(f), Call(g, f, l)
      PROVE  /\ Turns(g, "idle", l) /\ Begun(frame'[g])
             /\ UNCHANGED <<hasher, mu, caches, datasets, vms, pool>>
  <2>1. Turns(g, "idle", l) /\ frame'[g] = f
    BY <1>1, Turning DEF Call, Goto, Locals
  <2> QED
    BY <1>1, <2>1 DEF Call, heapVars, vmVars
<1>2. ASSUME NEW h \in Hashers, NEW k \in Keys \cup {NoKey}, NEW m \in Modes,
             ~hasher[h].exists, ~UnderConstruction(h)
      PROVE  Begun([NoFrame EXCEPT !.op = "new", !.h = h, !.key = k, !.mode = m])
  BY <1>2 DEF Begun, NoFrame
<1>3. ASSUME NEW h \in Hashers, NEW i \in Inputs, Usable(h)
      PROVE  Begun([NoFrame EXCEPT !.op = "hash", !.h = h, !.input = i])
  BY <1>3 DEF Begun, NoFrame
<1>4. ASSUME NEW h \in Hashers, NEW k \in Keys \cup {NoKey}, Usable(h)
      PROVE  Begun([NoFrame EXCEPT !.op = "update", !.h = h, !.key = k])
  BY <1>4 DEF Begun, NoFrame
<1>5. ASSUME NEW h \in Hashers, Usable(h)
      PROVE  /\ Begun([NoFrame EXCEPT !.op = "close", !.h = h])
             /\ Begun([NoFrame EXCEPT !.op = "isready", !.h = h])
  BY <1>5 DEF Begun, NoFrame
<1>6. CASE CallNew(g)
  BY <1>1, <1>2, <1>6 DEF CallNew, CallLabels
<1>7. CASE CallHash(g)
  BY <1>1, <1>3, <1>7 DEF CallHash, CallLabels
<1>8. CASE CallUpdateCacheKey(g)
  BY <1>1, <1>4, <1>8 DEF CallUpdateCacheKey, CallLabels
<1>9. CASE CallClose(g)
  BY <1>1, <1>5, <1>9 DEF CallClose, CallLabels
<1>10. CASE CallIsReady(g)
  BY <1>1, <1>5, <1>10 DEF CallIsReady, CallLabels
<1> QED
  BY <1>6, <1>7, <1>8, <1>9, <1>10 DEF Calls

-----------------------------------------------------------------------------
(* A call keeps its operation, hasher and arguments while it runs.         *)
Keeps(e, f) == e.op = f.op /\ e.h = f.h /\ e.key = f.key /\ e.input = f.input

Stepping(g) == Locking(g) \/ Building(g) \/ Updating(g) \/ Hashing(g)

LEMMA StepKeeps ==
  ASSUME TypeOK, ControlOK, NEW g \in Goroutines, Stepping(g)
  PROVE  Others(g) /\ Keeps(frame'[g], frame[g])
<1>1. CASE Locking(g)
  BY <1>1, RLockFacts, RLockedFacts, RUnlockFacts, LockAnnounceFacts, LockedFacts,
     UnlockFacts DEF Locking, Turns, Keeps
<1>2. CASE Building(g)
  <2>1. CASE NewAccept(g) \/ NewReject(g) \/ NewPublish(g)
    BY <2>1, NewAcceptFacts, NewRejectFacts, NewPublishFacts
       DEF Turns, Keeps, OutEdited, HandOverEdited
  <2>2. CASE NewCache(g)
    BY <2>2, NewCacheFacts DEF Turns, Keeps, CacheEdited
  <2>3. CASE NewCacheFails(g)
    BY <2>3, NewCacheFailsFacts DEF Turns, Keeps, OutEdited
  <2>4. CASE NewDataset(g)
    BY <2>4, NewDatasetFacts DEF Turns, Keeps, DatasetEdited
  <2>5. CASE NewDatasetFails(g)
    BY <2>5, NewDatasetFailsFacts DEF Turns, Keeps, DropEdited
  <2> QED
    BY <1>2, <2>1, <2>2, <2>3, <2>4, <2>5 DEF Building
<1>3. CASE Updating(g)
  BY <1>3, UpdateAcceptFacts, UpdateRejectFacts, UpdateOnClosedFacts, UpdateSameKeyFacts,
     UpdateNewKeyFacts, UpdateReleaseFacts, UpdateSwapFacts, CloseAgainFacts,
     CloseReleaseFacts
     DEF Updating, Turns, Keeps, OutEdited, HandOverEdited, ModeEdited
<1>4. CASE Hashing(g)
  <2>1. CASE HashOnOpen(g) \/ HashOnClosed(g)
    BY <2>1, HashOnOpenFacts, HashOnClosedFacts DEF Turns, Keeps, OutEdited
  <2>2. CASE PoolGetVM(g)
    BY <2>2, PoolGetVMFacts DEF Turns, Keeps, VMEdited
  <2>3. CASE HashInit(g)
    BY <2>3, HashInitFacts DEF Turns, Keeps, LeftEdited
  <2>4. CASE HashProgram(g)
    BY <2>4, HashProgramFacts DEF Turns, Keeps, LeftEdited
  <2>5. CASE HashFinalize(g)
    BY <2>5, HashFinalizeFacts DEF Turns, Keeps, OutEdited
  <2>6. CASE PoolPutVM(g)
    BY <2>6, PoolPutVMFacts DEF Turns, Keeps, VMEdited
  <2>7. CASE IsReadyRead(g)
    BY <2>7, IsReadyReadFacts DEF Turns, Keeps, OutEdited
  <2> QED
    BY <1>4, <2>1, <2>2, <2>3, <2>4, <2>5, <2>6, <2>7 DEF Hashing
<1> QED
  BY <1>1, <1>2, <1>3, <1>4 DEF Stepping

-----------------------------------------------------------------------------
(* A call that has begun. *)
LEMMA InCall ==
  ASSUME TypeOK, ControlOK, NEW g \in Goroutines, pc[g] # "idle"
  PROVE  /\ frame[g] \in Frames /\ frame[g].op # "none" /\ frame[g].h \in Hashers
         /\ pc[g] \in OpLabels(frame[g].op) /\ frame[g].op \in Ops
  BY DEF TypeOK, ControlOK, Control, OpLabels, Frames

-----------------------------------------------------------------------------
(* The lock. *)
SameLock(g) ==
    /\ pc'[g] \in ReadLabels <=> pc[g] \in ReadLabels
    /\ pc'[g] = "rwait" <=> pc[g] = "rwait"
    /\ pc'[g] = "drain" <=> pc[g] = "drain"
    /\ Writes(g)' <=> Writes(g)
    /\ \/ frame'[g].h = frame[g].h
       \/ pc'[g] \notin ReadLabels \cup {"rwait", "drain"} /\ ~Writes(g)'

(* A goroutine that neither locks nor unlocks. *)
LEMMA LockStays ==
  ASSUME LockOK, NEW g \in Goroutines, Others(g), SameLock(g), mu' = mu
  PROVE  LockOK'
<1>1. \A o \in Goroutines : o # g =>
          /\ pc'[o] = pc[o] /\ frame'[o] = frame[o]
          /\ Writes(o)' <=> Writes(o)
  BY DEF Others, Writes
<1>2. \A o \in Goroutines : pc'[o] \in ReadLabels => o \in mu'[frame'[o].h].readers
  BY <1>1 DEF LockOK, SameLock
<1>3. \A h \in Hashers, o \in Goroutines :
          o \in mu'[h].readers => frame'[o].h = h /\ pc'[o] \in ReadLabels \cup {"rwait"}
  BY <1>1 DEF LockOK, SameLock
<1>4. \A h \in Hashers, o \in Goroutines :
          o \in mu'[h].waiting => frame'[o].h = h /\ pc'[o] = "rwait"
  BY <1>1 DEF LockOK, SameLock
<1>5. \A h \in Hashers : mu'[h].readers \cap mu'[h].waiting = {}
  BY DEF LockOK
<1>6. \A o \in Goroutines :
          pc'[o] = "drain" \/ Writes(o)' => mu'[frame'[o].h].writer = o
  BY <1>1 DEF LockOK, SameLock
<1>7. \A o \in Goroutines : Writes(o)' => mu'[frame'[o].h].readers = {}
  BY <1>1 DEF LockOK, SameLock
<1> QED
  BY <1>2, <1>3, <1>4, <1>5, <1>6, <1>7 DEF LockOK

(* A goroutine that moves on the lock m of its hasher, making it n: what   *)
(* must hold of g itself, and of everyone else on that lock.               *)
Admitted(g, n) ==
    /\ pc'[g] \in ReadLabels => g \in n.readers
    /\ g \in n.readers => pc'[g] \in ReadLabels \cup {"rwait"}
    /\ g \in n.waiting => pc'[g] = "rwait"
    /\ pc'[g] = "drain" \/ Writes(g)' => n.writer = g
    /\ Writes(g)' => n.readers = {}

OthersKept(g, m, n) ==
    /\ n.readers \cap n.waiting = {}
    /\ \A o \in Goroutines \ {g} :
          /\ o \in m.readers => o \in n.readers
          /\ o \in n.readers => o \in m.readers \/ o \in m.waiting
          /\ o \in n.waiting => o \in m.waiting
          /\ m.writer = o => n.writer = o
          /\ m.writer = o /\ m.readers = {} => n.readers = {}

LEMMA LockMoves ==
  ASSUME TypeOK, ControlOK, LockOK, NEW g \in Goroutines, Others(g), pc[g] # "idle",
         frame'[g].h = frame[g].h, NEW n, mu' = [mu EXCEPT ![frame[g].h] = n],
         Admitted(g, n), OthersKept(g, mu[frame[g].h], n)
  PROVE  LockOK'
<1> DEFINE h == frame[g].h
<1>1. h \in Hashers
  BY InCall
<1>2. mu'[h] = n /\ \A k \in Hashers : k # h => mu'[k] = mu[k]
  BY <1>1 DEF TypeOK
<1>3. \A o \in Goroutines : o # g =>
          /\ pc'[o] = pc[o] /\ frame'[o] = frame[o]
          /\ Writes(o)' <=> Writes(o)
  BY DEF Others, Writes
<1>4. \A o \in Goroutines : pc[o] # "idle" => frame[o].h \in Hashers
  BY InCall
<1>5. frame'[g].h = h
  OBVIOUS
<1> HIDE DEF h
<1>6. \A o \in Goroutines : pc'[o] \in ReadLabels => o \in mu'[frame'[o].h].readers
  <2>1. \A o \in Goroutines : o # g /\ pc[o] \in ReadLabels => o \in mu'[frame[o].h].readers
    BY <1>2, <1>4 DEF LockOK, OthersKept, ReadLabels, h
  <2> QED
    BY <2>1, <1>2, <1>3, <1>5 DEF Admitted
<1>7. \A k \in Hashers, o \in Goroutines :
          o \in mu'[k].readers => frame'[o].h = k /\ pc'[o] \in ReadLabels \cup {"rwait"}
  BY <1>2, <1>3, <1>5 DEF LockOK, OthersKept, Admitted, h
<1>8. \A k \in Hashers, o \in Goroutines :
          o \in mu'[k].waiting => frame'[o].h = k /\ pc'[o] = "rwait"
  BY <1>2, <1>3, <1>5 DEF LockOK, OthersKept, Admitted, h
<1>9. \A k \in Hashers : mu'[k].readers \cap mu'[k].waiting = {}
  BY <1>2 DEF LockOK, OthersKept
<1>10. \A o \in Goroutines :
          pc'[o] = "drain" \/ Writes(o)' => mu'[frame'[o].h].writer = o
  <2>1. \A o \in Goroutines :
          o # g /\ (pc[o] = "drain" \/ Writes(o)) => mu'[frame[o].h].writer = o
    BY <1>2, <1>4 DEF LockOK, OthersKept, Writes, h
  <2> QED
    BY <2>1, <1>2, <1>3, <1>5 DEF Admitted
<1>11. \A o \in Goroutines : Writes(o)' => mu'[frame'[o].h].readers = {}
  <2>1. \A o \in Goroutines : o # g /\ Writes(o) => mu'[frame[o].h].readers = {}
    BY <1>2, <1>4 DEF LockOK, OthersKept, Writes, h
  <2> QED
    BY <2>1, <1>2, <1>3, <1>5 DEF Admitted
<1> QED
  BY <1>6, <1>7, <1>8, <1>9, <1>10, <1>11 DEF LockOK

LEMMA LockSteps ==
  ASSUME TypeOK, ControlOK, LockOK, NEW g \in Goroutines, Locking(g)
  PROVE  LockOK'
<1> DEFINE h == frame[g].h
           m == mu[h]
<1>1. h \in Hashers /\ pc[g] # "idle"
  BY InCall DEF Locking, RLock, RLocked, RUnlock, LockAnnounce, Locked, Unlock, Goto
<1>2. Others(g) /\ frame'[g].h = h /\ frame' = frame
  BY StepKeeps DEF Stepping, Keeps, Locking, RLock, RLocked, RUnlock, LockAnnounce,
     Locked, Unlock
<1>3. m \in Mutexes
  BY <1>1 DEF TypeOK
<1>4. /\ g \in m.readers => pc[g] \in ReadLabels \cup {"rwait"}
      /\ g \in m.waiting => pc[g] = "rwait"
      /\ m.readers \cap m.waiting = {}
  BY <1>1 DEF LockOK
<1>5. mu' = mu => mu' = [mu EXCEPT ![h] = m]
  BY DEF TypeOK
<1>6. SUFFICES ASSUME TRUE
               PROVE  \E n : /\ mu' = [mu EXCEPT ![h] = n]
                             /\ Admitted(g, n) /\ OthersKept(g, m, n)
  <2>1. PICK n : /\ mu' = [mu EXCEPT ![h] = n]
                 /\ Admitted(g, n) /\ OthersKept(g, m, n)
    BY <1>6
  <2> QED
    BY <2>1, <1>1, <1>2, LockMoves
<1> HIDE DEF h, m
<1>7. CASE RLock(g)
  <2> DEFINE n == RLockBy(m, g)
  <2>1. pc[g] = "rlock" /\ pc'[g] = "rwait" /\ mu' = [mu EXCEPT ![h] = n]
    BY <1>7, RLockFacts DEF Turns, RLock, h, m
  <2>2. /\ n.writer = m.writer
        /\ n.readers = IF m.writer = NoG THEN m.readers \cup {g} ELSE m.readers
        /\ n.waiting = IF m.writer = NoG THEN m.waiting ELSE m.waiting \cup {g}
    BY <1>3 DEF RLockBy, Mutexes
  <2> HIDE DEF n
  <2>3. Admitted(g, n)
    BY <2>1 DEF Admitted, ReadLabels, Writes
  <2>4. g \notin m.readers /\ g \notin m.waiting
    BY <1>4, <2>1 DEF ReadLabels
  <2>5. OthersKept(g, m, n)
    BY <1>4, <2>2, <2>4, NoGNotGoroutine DEF OthersKept
  <2> QED
    BY <2>1, <2>3, <2>5
<1>8. CASE RLocked(g)
  <2>1. pc'[g] \in {"check", "isready"} /\ mu' = mu /\ g \in m.readers
    BY <1>8, RLockedFacts DEF Turns, RLocked, WithReadLock, h, m
  <2>2. Admitted(g, m)
    BY <1>4, <2>1 DEF Admitted, ReadLabels, Writes
  <2>3. OthersKept(g, m, m)
    BY <1>4 DEF OthersKept
  <2> QED
    BY <1>5, <2>1, <2>2, <2>3
<1>9. CASE RUnlock(g)
  <2> DEFINE n == RUnlockBy(m, g)
  <2>1. pc[g] = "runlock" /\ pc'[g] = "return" /\ mu' = [mu EXCEPT ![h] = n]
    BY <1>9, RUnlockFacts DEF Turns, RUnlock, h, m
  <2>2. n.writer = m.writer /\ n.readers = m.readers \ {g} /\ n.waiting = m.waiting
    BY <1>3 DEF RUnlockBy, Mutexes
  <2> HIDE DEF n
  <2>3. Admitted(g, n)
    BY <1>4, <2>1, <2>2 DEF Admitted, ReadLabels, Writes
  <2>4. OthersKept(g, m, n)
    BY <1>4, <2>2 DEF OthersKept
  <2> QED
    BY <2>1, <2>3, <2>4
<1>10. CASE LockAnnounce(g)
  <2> DEFINE n == AnnounceBy(m, g)
  <2>1. /\ pc[g] = "lock" /\ pc'[g] = "drain" /\ mu' = [mu EXCEPT ![h] = n]
        /\ m.writer = NoG
    BY <1>10, LockAnnounceFacts DEF Turns, LockAnnounce, CanAnnounce, h, m
  <2>2. n.writer = g /\ n.readers = m.readers /\ n.waiting = m.waiting
    BY <1>3 DEF AnnounceBy, Mutexes
  <2> HIDE DEF n
  <2>3. Admitted(g, n)
    BY <1>4, <2>1, <2>2 DEF Admitted, ReadLabels, Writes
  <2>4. OthersKept(g, m, n)
    BY <1>4, <2>1, <2>2, NoGNotGoroutine DEF OthersKept
  <2> QED
    BY <2>1, <2>3, <2>4
<1>11. CASE Locked(g)
  <2>1. /\ pc[g] = "drain" /\ pc'[g] \in {"compare", "close"} /\ mu' = mu
        /\ m.readers = {}
    BY <1>11, LockedFacts DEF Turns, Locked, WithWriteLock, Drained, h, m
  <2>2. m.writer = g
    BY <2>1 DEF LockOK, h, m
  <2>3. Admitted(g, m)
    BY <1>4, <2>1, <2>2 DEF Admitted, ReadLabels
  <2>4. OthersKept(g, m, m)
    BY <1>4 DEF OthersKept
  <2> QED
    BY <1>5, <2>1, <2>3, <2>4
<1>12. CASE Unlock(g)
  <2> DEFINE n == UnlockBy(m)
  <2>1. pc[g] = "unlock" /\ pc'[g] = "return" /\ mu' = [mu EXCEPT ![h] = n]
    BY <1>12, UnlockFacts DEF Turns, Unlock, h, m
  <2>2. n.writer = NoG /\ n.readers = m.readers \cup m.waiting /\ n.waiting = {}
    BY DEF UnlockBy
  <2>3. m.writer = g
    BY <2>1 DEF LockOK, Writes, h, m
  <2> HIDE DEF n
  <2>4. Admitted(g, n)
    BY <1>4, <2>1, <2>2 DEF Admitted, ReadLabels, Writes
  <2>5. OthersKept(g, m, n)
    BY <2>2, <2>3 DEF OthersKept
  <2> QED
    BY <2>1, <2>4, <2>5
<1> QED
  BY <1>7, <1>8, <1>9, <1>10, <1>11, <1>12 DEF Locking

(* All other steps of a call stay on one side of every lock boundary.      *)
LEMMA LockAside ==
  ASSUME TypeOK, ControlOK, LockOK, NEW g \in Goroutines,
         Building(g) \/ Updating(g) \/ Hashing(g)
  PROVE  LockOK'
<1>1. Others(g) /\ frame'[g].op = frame[g].op /\ frame'[g].h = frame[g].h
  BY StepKeeps DEF Stepping, Keeps
<1>2. pc[g] \in OpLabels(frame[g].op) /\ frame[g].op \in Ops
  BY DEF ControlOK, Control, TypeOK, Frames
<1>3. pc[g] \in {"buildcache", "builddataset"} => frame[g].op \in {"new", "update"}
  BY <1>2 DEF OpLabels, Ops
<1>4. ASSUME mu' = mu,
             \/ pc[g] \in ReadLabels /\ pc'[g] \in ReadLabels
             \/ Writes(g) /\ Writes(g)'
             \/ /\ pc[g] \notin ReadLabels \cup {"rwait", "drain"} /\ ~Writes(g)
                /\ pc'[g] \notin ReadLabels \cup {"rwait", "drain"} /\ ~Writes(g)'
      PROVE  LockOK'
  <2>1. SameLock(g)
    BY <1>1, <1>4 DEF SameLock, ReadLabels, Writes
  <2> QED
    BY <2>1, <1>1, <1>4, LockStays
<1>5. CASE Building(g)
  <2>1. CASE NewAccept(g) \/ NewReject(g) \/ NewPublish(g)
    <3>1. pc[g] \in {"validate", "publish"} /\ pc'[g] \in {"buildcache", "return"}
          /\ mu' = mu
      BY <2>1, NewAcceptFacts, NewRejectFacts, NewPublishFacts DEF Turns
    <3>2. frame[g].op = "new"
      BY <1>2, <3>1 DEF OpLabels, Ops
    <3> QED
      BY <1>1, <1>4, <3>1, <3>2 DEF ReadLabels, Writes
  <2>2. ASSUME mu' = mu, pc[g] \in {"buildcache", "builddataset"},
               pc'[g] \in {"builddataset", AfterBuild(g), AfterError(g)}
        PROVE  LockOK'
    BY <1>1, <1>3, <1>4, <2>2 DEF ReadLabels, Writes, AfterBuild, AfterError
  <2>3. CASE NewCache(g)
    BY <2>2, <2>3, NewCacheFacts DEF Turns
  <2>4. CASE NewCacheFails(g)
    BY <2>2, <2>4, NewCacheFailsFacts DEF Turns
  <2>5. CASE NewDataset(g)
    BY <2>2, <2>5, NewDatasetFacts DEF Turns
  <2>6. CASE NewDatasetFails(g)
    BY <2>2, <2>6, NewDatasetFailsFacts DEF Turns
  <2> QED
    BY <1>5, <2>1, <2>3, <2>4, <2>5, <2>6 DEF Building
<1>6. CASE Updating(g)
  <2>1. CASE UpdateAccept(g) \/ UpdateReject(g)
    <3>1. pc[g] = "checkkey" /\ pc'[g] \in {"lock", "return"} /\ mu' = mu
      BY <2>1, UpdateAcceptFacts, UpdateRejectFacts DEF Turns
    <3> QED
      BY <1>1, <1>4, <3>1 DEF ReadLabels, Writes
  <2>2. CASE UpdateNewKey(g)
    <3>1. pc[g] = "compare" /\ pc'[g] = "buildcache" /\ mu' = mu
      BY <2>2, UpdateNewKeyFacts DEF Turns
    <3>2. frame[g].op = "update"
      BY <1>2, <3>1 DEF OpLabels, Ops
    <3> QED
      BY <1>1, <1>4, <3>1, <3>2 DEF Writes
  <2>3. CASE UpdateOnClosed(g) \/ UpdateSameKey(g) \/ UpdateRelease(g) \/ UpdateSwap(g)
             \/ CloseAgain(g) \/ CloseRelease(g)
    <3>1. /\ pc[g] \in {"compare", "release", "swap", "close"}
          /\ pc'[g] \in {"unlock", "swap"} /\ mu' = mu
      BY <2>3, UpdateOnClosedFacts, UpdateSameKeyFacts, UpdateReleaseFacts,
         UpdateSwapFacts, CloseAgainFacts, CloseReleaseFacts DEF Turns
    <3> QED
      BY <1>4, <3>1 DEF Writes
  <2> QED
    BY <1>6, <2>1, <2>2, <2>3 DEF Updating
<1>7. CASE Hashing(g)
  <2>1. pc[g] \in ReadLabels /\ pc'[g] \in ReadLabels /\ mu' = mu
    BY <1>7, HashOnOpenFacts, HashOnClosedFacts, PoolGetVMFacts, HashInitFacts,
       HashProgramFacts, HashFinalizeFacts, PoolPutVMFacts, IsReadyReadFacts
       DEF Hashing, Turns, ReadLabels
  <2> QED
    BY <1>4, <2>1
<1> QED
  BY <1>5, <1>6, <1>7

LEMMA LockCalls ==
  ASSUME TypeOK, LockOK, NEW g \in Goroutines, Calls(g) \/ Return(g)
  PROVE  LockOK'
<1>1. /\ pc[g] \in {"idle", "return"} /\ pc'[g] \in CallLabels \cup {"idle"}
      /\ Others(g) /\ mu' = mu
  BY CallFacts, ReturnFacts DEF Turns
<1>2. SameLock(g)
  BY <1>1 DEF SameLock, ReadLabels, Writes, CallLabels
<1> QED
  BY <1>1, <1>2, LockStays

LEMMA LockInit == Init => LockOK
  BY NoGNotGoroutine DEF Init, LockOK, UnlockedMutex, ReadLabels, Writes

LEMMA LockEnvironment ==
  ASSUME LockOK, Environment \/ UNCHANGED vars
  PROVE  LockOK'
<1>1. pc' = pc /\ frame' = frame /\ mu' = mu
  BY DEF Environment, CallerWritesBuffer, PoolDrop, vars, heapVars, vmVars
<1> QED
  BY <1>1 DEF LockOK, Writes

LEMMA LockNext ==
  ASSUME TypeOK, ControlOK, LockOK, [Next]_vars
  PROVE  LockOK'
  BY LockSteps, LockAside, LockCalls, LockEnvironment DEF Next, Step

(* Every hasher's lock excludes: readers are inside together, a writer     *)
(* past Lock alone, and nobody is inside without it (randomx.go).          *)
THEOREM LockExcludes == Spec => []LockOK
<1>1. Init => LockOK
  BY LockInit
<1>2. TypeOK /\ ControlOK /\ LockOK /\ [Next]_vars => LockOK'
  BY LockNext
<1> QED
  BY <1>1, <1>2, TypeCorrect, PTL DEF Spec

-----------------------------------------------------------------------------
(* The machines. *)
LEMMA MachinesInit == Init => VMExclusive
  BY DEF Init, VMExclusive, NoFrame

(* A goroutine that keeps the machine it has, or none, while pool stays. *)
LEMMA MachineStays ==
  ASSUME VMExclusive, NEW g \in Goroutines, Others(g), frame'[g].vm = frame[g].vm,
         pool' = pool
  PROVE  VMExclusive'
<1>1. \A o \in Goroutines : frame'[o].vm = frame[o].vm
  BY DEF Others
<1> QED
  BY <1>1 DEF VMExclusive

LEMMA MachinesNext ==
  ASSUME TypeOK, ControlOK, VMExclusive, [Next]_vars
  PROVE  VMExclusive'
<1>1. ASSUME NEW g \in Goroutines, PoolGetVM(g) PROVE VMExclusive'
  <2>1. PICK v \in pool \cup UnmadeVMs :
            v \in VMs /\ frame'[g].vm = v /\ pool' = pool \ {v}
    BY <1>1, PoolGetVMFacts DEF VMEdited
  <2>2. v # NoVM
    BY <2>1, NoneAssumption
  <2>3. \A o \in Goroutines : frame[o].vm # v
    BY <2>1, <2>2 DEF VMExclusive, UnmadeVMs
  <2>4. \A o \in Goroutines : o # g => frame'[o].vm = frame[o].vm
    BY <1>1, PoolGetVMFacts DEF Turns, Others
  <2> QED
    BY <2>1, <2>3, <2>4 DEF VMExclusive
<1>2. ASSUME NEW g \in Goroutines, PoolPutVM(g) PROVE VMExclusive'
  <2>1. /\ pool' = pool \cup {frame[g].vm} /\ frame'[g].vm = NoVM
        /\ \A o \in Goroutines : o # g => frame'[o].vm = frame[o].vm
    BY <1>2, PoolPutVMFacts DEF PoolPutVM, VMEdited, Turns, Others
  <2> QED
    BY <2>1 DEF VMExclusive
<1>3. ASSUME NEW v \in VMs, PoolDrop(v) PROVE VMExclusive'
  BY <1>3 DEF PoolDrop, VMExclusive
<1>4. CASE UNCHANGED vars \/ \E h \in Hashers : CallerWritesBuffer(h)
  <2>1. frame' = frame /\ pool' = pool
    BY <1>4 DEF vars, CallerWritesBuffer, vmVars
  <2> QED
    BY <2>1 DEF VMExclusive
<1>5. ASSUME NEW g \in Goroutines, Calls(g) \/ Return(g) PROVE VMExclusive'
  <2>1. Others(g) /\ frame'[g].vm = NoVM /\ pool' = pool
    BY <1>5, CallFacts, ReturnFacts DEF Turns, Begun, NoFrame
  <2>2. frame[g].vm = NoVM
    BY <1>5, CallFacts, ReturnFacts DEF Turns, ControlOK, Control, WithVM
  <2> QED
    BY <2>1, <2>2, MachineStays
<1>6. ASSUME NEW g \in Goroutines, Locking(g) PROVE VMExclusive'
  <2>1. Others(g) /\ frame'[g].vm = frame[g].vm /\ pool' = pool
    BY <1>6, RLockFacts, RLockedFacts, RUnlockFacts, LockAnnounceFacts, LockedFacts,
       UnlockFacts DEF Locking, Turns
  <2> QED
    BY <2>1, MachineStays
<1>7. ASSUME NEW g \in Goroutines, Building(g) PROVE VMExclusive'
  <2>1. CASE NewAccept(g) \/ NewReject(g) \/ NewPublish(g)
    BY <2>1, MachineStays, NewAcceptFacts, NewRejectFacts, NewPublishFacts
       DEF Turns, OutEdited, HandOverEdited
  <2>2. CASE NewCache(g)
    BY <2>2, MachineStays, NewCacheFacts DEF Turns, CacheEdited
  <2>3. CASE NewCacheFails(g)
    BY <2>3, MachineStays, NewCacheFailsFacts DEF Turns, OutEdited
  <2>4. CASE NewDataset(g)
    BY <2>4, MachineStays, NewDatasetFacts DEF Turns, DatasetEdited
  <2>5. CASE NewDatasetFails(g)
    BY <2>5, MachineStays, NewDatasetFailsFacts DEF Turns, DropEdited
  <2> QED
    BY <1>7, <2>1, <2>2, <2>3, <2>4, <2>5 DEF Building
<1>8. ASSUME NEW g \in Goroutines, Updating(g) PROVE VMExclusive'
  <2>1. Others(g) /\ frame'[g].vm = frame[g].vm /\ pool' = pool
    BY <1>8, UpdateAcceptFacts, UpdateRejectFacts, UpdateOnClosedFacts,
       UpdateSameKeyFacts, UpdateNewKeyFacts, UpdateReleaseFacts, UpdateSwapFacts,
       CloseAgainFacts, CloseReleaseFacts
       DEF Updating, Turns, OutEdited, HandOverEdited, ModeEdited
  <2> QED
    BY <2>1, MachineStays
<1>9. ASSUME NEW g \in Goroutines,
             \/ HashOnOpen(g) \/ HashOnClosed(g) \/ HashInit(g) \/ HashProgram(g)
             \/ HashFinalize(g) \/ IsReadyRead(g)
      PROVE  VMExclusive'
  <2>1. CASE HashOnOpen(g) \/ HashOnClosed(g)
    BY <2>1, MachineStays, HashOnOpenFacts, HashOnClosedFacts DEF Turns, OutEdited
  <2>2. CASE HashInit(g) \/ HashProgram(g)
    BY <2>2, MachineStays, HashInitFacts, HashProgramFacts DEF Turns, LeftEdited
  <2>3. CASE HashFinalize(g)
    BY <2>3, MachineStays, HashFinalizeFacts DEF Turns, OutEdited
  <2>4. CASE IsReadyRead(g)
    BY <2>4, MachineStays, IsReadyReadFacts DEF Turns, OutEdited
  <2> QED
    BY <1>9, <2>1, <2>2, <2>3, <2>4
<1> QED
  BY <1>1, <1>2, <1>3, <1>4, <1>5, <1>6, <1>7, <1>8, <1>9
     DEF Next, Step, Hashing, Environment

(* Whatever the goroutines, hashers and machines, no machine serves two    *)
(* hashes at once and none in use is in the pool (memory.go:45-56).        *)
THEOREM MachinesExclusive == Spec => []VMExclusive
<1>1. Init => VMExclusive
  BY MachinesInit
<1>2. TypeOK /\ ControlOK /\ VMExclusive /\ [Next]_vars => VMExclusive'
  BY MachinesNext
<1> QED
  BY <1>1, <1>2, TypeCorrect, PTL DEF Spec

-----------------------------------------------------------------------------
(* Memory, updates and hashes. *)


Base == TypeOK /\ ControlOK /\ LockOK
HeapOK == ExistsOK /\ PointersOK /\ MemoryOK /\ BuildOK /\ OwnersOK /\ LiveMemoryOwned

-----------------------------------------------------------------------------
(* A writer is alone with its hasher. *)
LEMMA Alone ==
  ASSUME Base, NEW g \in Goroutines, Writes(g), NEW o \in Goroutines,
         frame[o].h = frame[g].h
  PROVE  (Writes(o) => o = g) /\ pc[o] \notin ReadLabels
<1>1. frame[g].h \in Hashers
  BY InCall DEF Base, Writes
<1> QED
  BY <1>1 DEF Base, LockOK

(* The operation a label belongs to. *)
LEMMA OpsOf ==
  ASSUME Base, NEW g \in Goroutines
  PROVE  /\ pc[g] \in {"validate", "publish"} => frame[g].op = "new"
         /\ pc[g] \in {"checkkey", "compare", "release", "swap"} => frame[g].op = "update"
         /\ pc[g] \in BuildLabels => frame[g].op \in {"new", "update"}
         /\ pc[g] = "close" => frame[g].op = "close"
         /\ pc[g] \in {"check", "getvm", "init", "run", "putvm"} => frame[g].op = "hash"
         /\ frame[g].op = "none" <=> pc[g] = "idle"
<1>1. pc[g] \in OpLabels(frame[g].op) /\ frame[g].op \in Ops
  BY DEF Base, ControlOK, Control, TypeOK, Frames
<1> QED
  BY <1>1 DEF OpLabels, Ops, BuildLabels, WithCache

-----------------------------------------------------------------------------
(* Steps that leave hashers, memory and builds as they are. *)
SameBuild(e, f) == e.op = f.op /\ e.h = f.h /\ e.key = f.key /\ e.c = f.c /\ e.d = f.d

LEMMA HeapStays ==
  ASSUME Base, HeapOK, NEW g \in Goroutines, Others(g), SameBuild(frame'[g], frame[g]),
         UNCHANGED <<hasher, caches, datasets>>,
         pc[g] \notin WithCache \cup {"return"}, pc'[g] \notin WithCache,
         frame[g].op = "update" /\ pc'[g] = "buildcache" =>
             /\ ~hasher[frame[g].h].closed
             /\ frame'[g].mode = hasher[frame[g].h].mode
  PROVE  HeapOK'
<1>1. \A o \in Goroutines : SameBuild(frame'[o], frame[o])
  BY DEF Others, SameBuild
<1>2. \A o \in Goroutines :
          \/ pc'[o] = pc[o] /\ frame'[o].mode = frame[o].mode
          \/ o = g
  BY DEF Others
<1>3. \A h \in Hashers : Swapping(h)' <=> Swapping(h)
  BY <1>1, <1>2 DEF Swapping, WithCache, SameBuild
<1>4. ExistsOK'
  BY <1>1, <1>2 DEF HeapOK, ExistsOK, SameBuild
<1>5. PointersOK'
  BY DEF HeapOK, PointersOK, IsOpen
<1>6. MemoryOK'
  BY <1>3 DEF HeapOK, MemoryOK, MemoryOf, IsOpen
<1>7. BuildOK'
  BY <1>1, <1>2 DEF HeapOK, BuildOK, SameBuild, BuildLabels
<1>8. OwnersOK'
  BY <1>1 DEF HeapOK, OwnersOK, SameBuild
<1>9. LiveMemoryOwned'
  BY <1>1 DEF HeapOK, LiveMemoryOwned, SameBuild
<1> QED
  BY <1>4, <1>5, <1>6, <1>7, <1>8, <1>9 DEF HeapOK

(* Calls and returns: a frame without a build replaces another such.       *)
LEMMA HeapCalls ==
  ASSUME Base, HeapOK, NEW g \in Goroutines, Calls(g) \/ Return(g)
  PROVE  HeapOK'
<1>1. /\ Others(g) /\ UNCHANGED <<hasher, caches, datasets>>
      /\ pc[g] \in {"idle", "return"} /\ pc'[g] \in CallLabels \cup {"idle"}
      /\ \/ frame'[g] = NoFrame
         \/ Begun(frame'[g]) /\ pc[g] = "idle"
  BY CallFacts, ReturnFacts DEF Base, Turns
<1>2. /\ frame[g].c = NoAddr /\ frame[g].d = NoAddr
      /\ frame'[g].c = NoAddr /\ frame'[g].d = NoAddr
  BY <1>1 DEF Base, ControlOK, Control, WithCache, WithBoth, Begun, NoFrame
<1>3. \A o \in Goroutines : frame'[o].c = frame[o].c /\ frame'[o].d = frame[o].d
  BY <1>1, <1>2 DEF Others
<1>4. pc[g] \notin BuildLabels /\ pc'[g] \notin BuildLabels
  BY <1>1 DEF BuildLabels, WithCache, CallLabels
<1>5. \A h \in Hashers : Swapping(h)' <=> Swapping(h)
  BY <1>1, <1>4 DEF Others, Swapping, BuildLabels, WithCache
<1>6. ExistsOK'
  <2>1. /\ frame'[g].op \notin {"none", "new"} => hasher[frame'[g].h].exists
        /\ frame'[g].op = "new" => ~hasher[frame'[g].h].exists
        /\ frame'[g].op = "new" => \A o \in Goroutines :
               frame[o].op = "new" => frame[o].h # frame'[g].h
    BY <1>1 DEF Begun, NoFrame, Usable, UnderConstruction
  <2> QED
    BY <1>1, <2>1 DEF HeapOK, ExistsOK, Others
<1>7. PointersOK'
  BY <1>1 DEF HeapOK, PointersOK, IsOpen
<1>8. MemoryOK'
  BY <1>1, <1>5 DEF HeapOK, MemoryOK, MemoryOf, IsOpen
<1>9. BuildOK'
  <2>1. \A o \in Goroutines : o # g => pc'[o] = pc[o] /\ frame'[o] = frame[o]
    BY <1>1 DEF Others
  <2> QED
    BY <1>1, <1>2, <1>4, <2>1 DEF HeapOK, BuildOK, BuildLabels
<1>10. OwnersOK'
  BY <1>1, <1>3 DEF HeapOK, OwnersOK
<1>11. LiveMemoryOwned'
  BY <1>1, <1>3 DEF HeapOK, LiveMemoryOwned
<1> QED
  BY <1>6, <1>7, <1>8, <1>9, <1>10, <1>11 DEF HeapOK

LEMMA HeapInit == Init => HeapOK
<1> SUFFICES ASSUME Init PROVE HeapOK
  OBVIOUS
<1>1. /\ \A g \in Goroutines : pc[g] = "idle" /\ frame[g] = NoFrame
      /\ \A h \in Hashers : hasher[h] = AbsentHasher
      /\ \A a \in Addrs : caches[a] = NoKey /\ datasets[a] = NoKey
  BY DEF Init
<1>2. /\ \A g \in Goroutines :
             frame[g].op = "none" /\ frame[g].c = NoAddr /\ frame[g].d = NoAddr
      /\ \A h \in Hashers : /\ ~hasher[h].exists
                            /\ hasher[h].cache = NoAddr /\ hasher[h].ds = NoAddr
  BY <1>1 DEF AbsentHasher, NoFrame
<1>3. ExistsOK
  BY <1>1, <1>2 DEF ExistsOK
<1>4. PointersOK /\ MemoryOK
  BY <1>2 DEF PointersOK, MemoryOK, MemoryOf, IsOpen
<1>5. BuildOK
  BY <1>1, <1>2 DEF BuildOK, WithCache, BuildLabels
<1>6. OwnersOK
  BY <1>2 DEF OwnersOK
<1>7. LiveMemoryOwned
  BY <1>1 DEF LiveMemoryOwned
<1> QED
  BY <1>3, <1>4, <1>5, <1>6, <1>7 DEF HeapOK

-----------------------------------------------------------------------------
(* newCache and newDataset. *)
LEMMA HeapNewCache ==
  ASSUME Base, HeapOK, NEW g \in Goroutines, NewCache(g)
  PROVE  HeapOK'
<1>1. PICK a \in FreshAddrs :
          /\ CacheEdited(frame'[g], frame[g], a)
          /\ caches' = [caches EXCEPT ![a] = frame[g].key]
  BY NewCacheFacts DEF Base
<1>2. /\ UNCHANGED <<hasher, datasets>> /\ Others(g) /\ pc[g] = "buildcache"
      /\ pc'[g] \in {"builddataset", "publish", "release"}
  BY NewCacheFacts DEF Base, Turns, AfterBuild
<1>3. /\ a \in Addrs /\ a # NoAddr /\ caches[a] = NoKey /\ datasets[a] = NoKey
      /\ \A o \in Goroutines : frame[o].c # a
      /\ \A h \in Hashers : hasher[h].cache # a /\ hasher[h].ds # a
  BY NoneAssumption DEF FreshAddrs, Referenced
<1>4. /\ caches'[a] = frame[g].key
      /\ \A b \in Addrs : b # a => caches'[b] = caches[b]
  BY <1>1, <1>3 DEF Base, TypeOK
<1>5. frame[g].c = NoAddr /\ frame[g].d = NoAddr /\ frame[g].key # NoKey
  BY <1>2 DEF Base, ControlOK, Control, WithCache, WithBoth, BuildLabels
<1>6. /\ frame'[g].c = a /\ frame'[g].d = NoAddr /\ frame'[g].key = frame[g].key
      /\ frame'[g].op = frame[g].op /\ frame'[g].h = frame[g].h
      /\ frame'[g].mode = frame[g].mode
      /\ \A o \in Goroutines : o # g => frame'[o] = frame[o] /\ pc'[o] = pc[o]
  BY <1>1, <1>2, <1>5 DEF CacheEdited, Others
<1>7. \A h \in Hashers : Swapping(h)' <=> Swapping(h)
  BY <1>2, <1>6 DEF Swapping
<1>8. ExistsOK'
  BY <1>2, <1>6 DEF HeapOK, ExistsOK
<1>9. PointersOK'
  BY <1>2 DEF HeapOK, PointersOK, IsOpen
<1>10. MemoryOK'
  <2>1. \A h \in Hashers : IsOpen(h) =>
            hasher[h].cache \in Addrs /\ caches'[hasher[h].cache] = caches[hasher[h].cache]
    BY <1>3, <1>4 DEF HeapOK, PointersOK, Base, TypeOK, HasherStructs
  <2> QED
    BY <1>2, <1>7, <2>1 DEF HeapOK, MemoryOK, MemoryOf, IsOpen
<1>11. BuildOK'
  <2>1. \A o \in Goroutines : o # g /\ pc[o] \in WithCache =>
            caches'[frame[o].c] = caches[frame[o].c]
    BY <1>3, <1>4 DEF Base, TypeOK, Frames, ControlOK, Control
  <2>2. pc[g] \in BuildLabels
    BY <1>2 DEF BuildLabels
  <2> QED
    BY <1>2, <1>3, <1>4, <1>6, <2>1, <2>2 DEF HeapOK, BuildOK
<1>12. OwnersOK'
  BY <1>2, <1>3, <1>6 DEF HeapOK, OwnersOK
<1>13. LiveMemoryOwned'
  BY <1>2, <1>4, <1>5, <1>6, NoneAssumption DEF HeapOK, LiveMemoryOwned
<1> QED
  BY <1>8, <1>9, <1>10, <1>11, <1>12, <1>13 DEF HeapOK

LEMMA HeapNewDataset ==
  ASSUME Base, HeapOK, NEW g \in Goroutines, NewDataset(g)
  PROVE  HeapOK'
<1> DEFINE a == frame[g].c
<1>1. /\ UNCHANGED <<hasher, caches>> /\ Others(g) /\ pc[g] = "builddataset"
      /\ pc'[g] \in {"publish", "release"}
      /\ DatasetEdited(frame'[g], frame[g], a)
  BY NewDatasetFacts DEF Base, Turns, AfterBuild
<1>2. a \in Addrs /\ frame[g].d = NoAddr
  BY <1>1 DEF Base, TypeOK, Frames, ControlOK, Control, WithCache, WithBoth
<1>3. /\ datasets'[a] = caches[a]
      /\ \A b \in Addrs : b # a => datasets'[b] = datasets[b]
  BY <1>2 DEF NewDataset, Base, TypeOK
<1>4. /\ frame'[g].c = a /\ frame'[g].d = a /\ frame'[g].key = frame[g].key
      /\ frame'[g].op = frame[g].op /\ frame'[g].h = frame[g].h
      /\ frame'[g].mode = frame[g].mode
      /\ \A o \in Goroutines : o # g => frame'[o] = frame[o] /\ pc'[o] = pc[o]
  BY <1>1 DEF DatasetEdited, Others
<1>5. /\ \A o \in Goroutines : o # g /\ frame[o].c # NoAddr => frame[o].c # a
      /\ \A h \in Hashers : hasher[h].cache # a
  BY <1>2, NoneAssumption DEF HeapOK, OwnersOK
<1>6. \A h \in Hashers : Swapping(h)' <=> Swapping(h)
  BY <1>1, <1>4 DEF Swapping
<1>7. ExistsOK'
  BY <1>1, <1>4 DEF HeapOK, ExistsOK
<1>8. PointersOK'
  BY <1>1 DEF HeapOK, PointersOK, IsOpen
<1>9. MemoryOK'
  <2>1. \A h \in Hashers : IsOpen(h) =>
            /\ hasher[h].cache \in Addrs
            /\ datasets'[hasher[h].cache] = datasets[hasher[h].cache]
    BY <1>3, <1>5 DEF HeapOK, PointersOK, Base, TypeOK, HasherStructs
  <2> QED
    BY <1>1, <1>6, <2>1 DEF HeapOK, MemoryOK, MemoryOf, IsOpen
<1>10. BuildOK'
  <2>1. \A o \in Goroutines : o # g /\ pc[o] \in WithCache =>
            datasets'[frame[o].c] = datasets[frame[o].c]
    BY <1>3, <1>5 DEF Base, TypeOK, Frames, ControlOK, Control
  <2>2. pc[g] \in BuildLabels /\ caches[a] = frame[g].key
    BY <1>1 DEF BuildLabels, WithCache, HeapOK, BuildOK
  <2> HIDE DEF a
  <2> QED
    BY <1>1, <1>2, <1>3, <1>4, <2>1, <2>2, NoneAssumption DEF HeapOK, BuildOK
<1>11. OwnersOK'
  BY <1>1, <1>4 DEF HeapOK, OwnersOK
<1>12. LiveMemoryOwned'
  BY <1>1, <1>3, <1>4 DEF HeapOK, LiveMemoryOwned
<1> QED
  BY <1>7, <1>8, <1>9, <1>10, <1>11, <1>12 DEF HeapOK

LEMMA HeapNewDatasetFails ==
  ASSUME Base, HeapOK, NEW g \in Goroutines, NewDatasetFails(g)
  PROVE  HeapOK'
<1> DEFINE a == frame[g].c
<1>1. /\ UNCHANGED <<hasher, datasets>> /\ Others(g) /\ pc[g] = "builddataset"
      /\ pc'[g] \in {"return", "unlock"}
      /\ DropEdited(frame'[g], frame[g], Failed)
  BY NewDatasetFailsFacts DEF Base, Turns, AfterError
<1>2. a \in Addrs /\ frame[g].d = NoAddr
  BY <1>1 DEF Base, TypeOK, Frames, ControlOK, Control, WithCache, WithBoth
<1>3. \A b \in Addrs : caches'[b] = IF b = a THEN NoKey ELSE caches[b]
  BY DEF NewDatasetFails, Release
<1>4. /\ frame'[g].c = NoAddr /\ frame'[g].d = NoAddr /\ frame'[g].key = frame[g].key
      /\ frame'[g].op = frame[g].op /\ frame'[g].h = frame[g].h
      /\ \A o \in Goroutines : o # g => frame'[o] = frame[o] /\ pc'[o] = pc[o]
  BY <1>1, <1>2 DEF DropEdited, Others
<1>5. /\ \A o \in Goroutines : o # g /\ frame[o].c # NoAddr => frame[o].c # a
      /\ \A h \in Hashers : hasher[h].cache # a
  BY <1>2, NoneAssumption DEF HeapOK, OwnersOK
<1>6. \A h \in Hashers : Swapping(h)' <=> Swapping(h)
  BY <1>1, <1>4 DEF Swapping
<1>7. datasets[a] = NoKey
  BY <1>1, <1>2 DEF HeapOK, BuildOK, WithCache
<1> HIDE DEF a
<1>8. ExistsOK'
  BY <1>1, <1>4 DEF HeapOK, ExistsOK
<1>9. PointersOK'
  BY <1>1 DEF HeapOK, PointersOK, IsOpen
<1>10. MemoryOK'
  <2>1. \A h \in Hashers : IsOpen(h) =>
            /\ hasher[h].cache \in Addrs
            /\ caches'[hasher[h].cache] = caches[hasher[h].cache]
    BY <1>3, <1>5 DEF HeapOK, PointersOK, Base, TypeOK, HasherStructs
  <2> QED
    BY <1>1, <1>6, <2>1 DEF HeapOK, MemoryOK, MemoryOf, IsOpen
<1>11. BuildOK'
  <2>1. \A o \in Goroutines : o # g /\ pc[o] \in WithCache =>
            caches'[frame[o].c] = caches[frame[o].c]
    BY <1>3, <1>5 DEF Base, TypeOK, Frames, ControlOK, Control
  <2>2. pc'[g] \notin BuildLabels /\ pc'[g] \notin WithCache
    BY <1>1 DEF BuildLabels, WithCache
  <2> QED
    BY <1>1, <1>4, <2>1, <2>2 DEF HeapOK, BuildOK
<1>12. OwnersOK'
  BY <1>1, <1>4 DEF HeapOK, OwnersOK
<1>13. LiveMemoryOwned'
  BY <1>1, <1>3, <1>4, <1>7 DEF HeapOK, LiveMemoryOwned, a
<1> QED
  BY <1>8, <1>9, <1>10, <1>11, <1>12, <1>13 DEF HeapOK

-----------------------------------------------------------------------------
(* What the steps that write a hasher do to it. *)
LEMMA NewPublishHasher ==
  ASSUME Base, NEW g \in Goroutines, NewPublish(g)
  PROVE  /\ hasher'[frame[g].h] = [exists |-> TRUE, mode |-> frame[g].mode,
                                   stored |-> frame[g].key, aliased |-> TRUE,
                                   cache |-> frame[g].c, ds |-> frame[g].d,
                                   closed |-> FALSE]
         /\ \A k \in Hashers : k # frame[g].h => hasher'[k] = hasher[k]
<1>1. frame[g].h \in Hashers
  BY InCall DEF Base, NewPublish, Goto
<1> QED
  BY <1>1 DEF NewPublish, Base, TypeOK

LEMMA UpdateSwapHasher ==
  ASSUME Base, NEW g \in Goroutines, UpdateSwap(g)
  PROVE  LET s == hasher'[frame[g].h]
             t == hasher[frame[g].h]
         IN  /\ s.exists = t.exists /\ s.mode = t.mode /\ s.closed = t.closed
             /\ s.stored = frame[g].key /\ s.cache = frame[g].c /\ s.ds = frame[g].d
             /\ \A k \in Hashers : k # frame[g].h => hasher'[k] = hasher[k]
<1>1. frame[g].h \in Hashers
  BY InCall DEF Base, UpdateSwap, Goto
<1>2. hasher[frame[g].h] \in HasherStructs
  BY <1>1 DEF Base, TypeOK
<1>3. hasher'[frame[g].h] =
          [hasher[frame[g].h] EXCEPT !.cache = frame[g].c, !.ds = frame[g].d,
                                     !.stored = frame[g].key, !.aliased = FALSE]
  BY <1>1 DEF UpdateSwap, Base, TypeOK
<1>4. \A k \in Hashers : k # frame[g].h => hasher'[k] = hasher[k]
  BY <1>1 DEF UpdateSwap, Base, TypeOK
<1> QED
  BY <1>2, <1>3, <1>4 DEF HasherStructs

LEMMA CloseReleaseHasher ==
  ASSUME Base, NEW g \in Goroutines, CloseRelease(g)
  PROVE  LET s == hasher'[frame[g].h]
             t == hasher[frame[g].h]
         IN  /\ s.exists = t.exists /\ s.mode = t.mode /\ s.stored = t.stored
             /\ s.closed = TRUE /\ s.cache = NoAddr /\ s.ds = NoAddr
             /\ \A k \in Hashers : k # frame[g].h => hasher'[k] = hasher[k]
<1>1. frame[g].h \in Hashers
  BY InCall DEF Base, CloseRelease, Goto
<1>2. hasher[frame[g].h] \in HasherStructs
  BY <1>1 DEF Base, TypeOK
<1>3. hasher'[frame[g].h] =
          [hasher[frame[g].h] EXCEPT !.closed = TRUE, !.ds = NoAddr, !.cache = NoAddr]
  BY <1>1 DEF CloseRelease, Base, TypeOK
<1>4. \A k \in Hashers : k # frame[g].h => hasher'[k] = hasher[k]
  BY <1>1 DEF CloseRelease, Base, TypeOK
<1> QED
  BY <1>2, <1>3, <1>4 DEF HasherStructs

LEMMA BufferHasher ==
  ASSUME Base, NEW h \in Hashers, CallerWritesBuffer(h)
  PROVE  \E k \in Keys :
            LET s == hasher'[h]
                t == hasher[h]
            IN  /\ s.exists = t.exists /\ s.mode = t.mode /\ s.stored = k
                /\ s.closed = t.closed /\ s.cache = t.cache /\ s.ds = t.ds
                /\ t.exists
                /\ \A i \in Hashers : i # h => hasher'[i] = hasher[i]
<1>1. PICK k \in Keys : hasher' = [hasher EXCEPT ![h].stored = k]
  BY DEF CallerWritesBuffer
<1>2. hasher[h] \in HasherStructs
  BY DEF Base, TypeOK
<1>3. hasher'[h] = [hasher[h] EXCEPT !.stored = k]
  BY <1>1 DEF Base, TypeOK
<1>4. \A i \in Hashers : i # h => hasher'[i] = hasher[i]
  BY <1>1 DEF Base, TypeOK
<1> QED
  BY <1>2, <1>3, <1>4 DEF HasherStructs, CallerWritesBuffer

LEMMA HeapNewPublish ==
  ASSUME Base, HeapOK, NEW g \in Goroutines, NewPublish(g)
  PROVE  HeapOK'
<1>0. PICK h : h = frame[g].h
  OBVIOUS
<1> DEFINE a == frame[g].c
           k == frame[g].key
           m == frame[g].mode
           d == frame[g].d
<1>1. /\ UNCHANGED <<caches, datasets>> /\ Others(g) /\ pc[g] = "publish"
      /\ pc'[g] = "return" /\ HandOverEdited(frame'[g], frame[g], OK)
  BY NewPublishFacts DEF Base, Turns
<1>2. /\ hasher'[h] = [exists |-> TRUE, mode |-> m, stored |-> k, aliased |-> TRUE,
                       cache |-> a, ds |-> d, closed |-> FALSE]
      /\ \A i \in Hashers : i # h => hasher'[i] = hasher[i]
  BY <1>0, NewPublishHasher
<1>3. /\ h \in Hashers /\ a \in Addrs /\ k # NoKey /\ m \in {"light", "fast"}
      /\ d # NoAddr <=> m = "fast"
  BY <1>0, <1>1, OpsOf DEF Base, TypeOK, Frames, ControlOK, Control, WithCache, WithBoth,
     BuildLabels
<1>4. /\ frame[g].op = "new" /\ ~hasher[h].exists
      /\ caches[a] = k /\ datasets[a] = (IF m = "fast" THEN k ELSE NoKey)
      /\ d # NoAddr => d = a
  BY <1>0, <1>1, <1>3, OpsOf DEF HeapOK, ExistsOK, BuildOK, WithCache
<1>5. /\ frame'[g].c = NoAddr /\ frame'[g].d = NoAddr
      /\ frame'[g].op = "new" /\ frame'[g].h = h
      /\ \A o \in Goroutines : o # g => frame'[o] = frame[o] /\ pc'[o] = pc[o]
  BY <1>0, <1>1, <1>4 DEF HandOverEdited, Others
<1>6. /\ \A o \in Goroutines : o # g /\ frame[o].c # NoAddr => frame[o].c # a
      /\ \A i \in Hashers : hasher[i].cache # a
  BY <1>3, NoneAssumption DEF HeapOK, OwnersOK
<1>7. \A o \in Goroutines : o # g /\ frame[o].op # "none" => frame[o].h # h
  BY <1>0, <1>4 DEF HeapOK, ExistsOK
<1> HIDE DEF a, k, m, d
<1>8. (\A i \in Hashers : Swapping(i)' <=> Swapping(i)) /\ ~Swapping(h)
  BY <1>1, <1>5, <1>7, OpsOf DEF Swapping
<1>9. ExistsOK'
  <2>1. \A i \in Hashers : ~hasher'[i].exists => hasher'[i] = AbsentHasher
    BY <1>2 DEF HeapOK, ExistsOK
  <2>2. \A o \in Goroutines : frame'[o].op \notin {"none", "new"} => hasher'[frame'[o].h].exists
    <3>1. \A o \in Goroutines : frame[o].op # "none" => frame[o].h \in Hashers
      BY DEF Base, ControlOK, Control
    <3> QED
      BY <1>2, <1>5, <3>1 DEF HeapOK, ExistsOK
  <2>3. \A o \in Goroutines :
            frame'[o].op = "new" /\ pc'[o] # "return" => ~hasher'[frame'[o].h].exists
    <3>1. \A o \in Goroutines : frame[o].op # "none" => frame[o].h \in Hashers
      BY DEF Base, ControlOK, Control
    <3> QED
      BY <1>1, <1>2, <1>5, <1>7, <3>1 DEF HeapOK, ExistsOK
  <2>4. \A o, q \in Goroutines :
            frame'[o].op = "new" /\ frame'[q].op = "new" /\ frame'[o].h = frame'[q].h => o = q
    BY <1>4, <1>5, <1>7 DEF HeapOK, ExistsOK
  <2> QED
    BY <2>1, <2>2, <2>3, <2>4 DEF ExistsOK
<1>10. PointersOK'
  BY <1>2, <1>3, <1>4, NoneAssumption DEF HeapOK, PointersOK, IsOpen
<1>11. MemoryOK'
  BY <1>1, <1>2, <1>3, <1>4, <1>8 DEF HeapOK, MemoryOK, MemoryOf, IsOpen
<1>12. BuildOK'
  <2>1. \A o \in Goroutines : o # g /\ frame[o].op = "update" =>
            hasher'[frame[o].h] = hasher[frame[o].h]
    BY <1>2, <1>7 DEF Base, ControlOK, Control
  <2>2. pc'[g] \notin BuildLabels /\ pc'[g] \notin WithCache
    BY <1>1 DEF BuildLabels, WithCache
  <2> QED
    BY <1>1, <1>5, <2>1, <2>2 DEF HeapOK, BuildOK
<1>13. OwnersOK'
  BY <1>2, <1>3, <1>5, <1>6, NoneAssumption DEF HeapOK, OwnersOK
<1>14. LiveMemoryOwned'
  <2>1. \A i \in Hashers : hasher[i].cache \in Addrs => hasher'[i].cache = hasher[i].cache
    BY <1>2, <1>4, NoneAssumption DEF HeapOK, PointersOK, IsOpen
  <2>2. hasher'[h].cache = a
    BY <1>2
  <2> QED
    BY <1>1, <1>3, <1>5, <2>1, <2>2 DEF HeapOK, LiveMemoryOwned, a
<1> QED
  BY <1>9, <1>10, <1>11, <1>12, <1>13, <1>14 DEF HeapOK

(* The hasher of a goroutine that may write it. *)
LEMMA WriterHasher ==
  ASSUME Base, HeapOK, NEW g \in Goroutines,
         pc[g] \in {"compare", "release", "swap", "close"}
  PROVE  /\ frame[g].h \in Hashers /\ hasher[frame[g].h].exists /\ Writes(g)
         /\ \A o \in Goroutines : o # g /\ frame[o].h = frame[g].h =>
               ~Writes(o) /\ pc[o] \notin ReadLabels
<1>1. Writes(g) /\ frame[g].h \in Hashers /\ frame[g].op \in {"update", "close"}
  BY InCall, OpsOf DEF Writes, Base
<1> QED
  BY <1>1, Alone DEF HeapOK, ExistsOK

LEMMA HeapUpdateRelease ==
  ASSUME Base, HeapOK, NEW g \in Goroutines, UpdateRelease(g)
  PROVE  HeapOK'
<1>0. PICK h : h = frame[g].h
  OBVIOUS
<1> DEFINE p == hasher[h].cache
           d == hasher[h].ds
<1>1. /\ UNCHANGED hasher /\ Others(g) /\ pc[g] = "release" /\ pc'[g] = "swap"
      /\ frame'[g] = frame[g]
  BY UpdateReleaseFacts DEF Base, Turns
<1>2. \A a \in Addrs :
          /\ caches'[a] = IF a = p THEN NoKey ELSE caches[a]
          /\ datasets'[a] = IF a = d THEN NoKey ELSE datasets[a]
  BY <1>0 DEF UpdateRelease, Release
<1>3. /\ h \in Hashers /\ hasher[h].exists
      /\ \A o \in Goroutines : o # g /\ frame[o].h = h => ~Writes(o)
  BY <1>0, <1>1, WriterHasher
<1>4. ~hasher[h].closed
  BY <1>0, <1>1, OpsOf DEF HeapOK, BuildOK, BuildLabels, WithCache
<1>5. /\ \A o \in Goroutines : pc[o] = "swap" => Writes(o)
      /\ \A o \in Goroutines : o # g => pc'[o] = pc[o]
      /\ \A o \in Goroutines : frame'[o] = frame[o]
  BY <1>1 DEF Writes, Others
<1>6. ~Swapping(h)
  BY <1>1, <1>3, <1>5 DEF Swapping
<1>7. /\ p \in Addrs /\ d \in Addrs => d = p
      /\ hasher[h].mode = "fast" => d = p
      /\ hasher[h].mode = "light" => datasets[p] = NoKey
      /\ hasher[h].mode \in {"light", "fast"}
  BY <1>3, <1>4, <1>6, NoneAssumption
     DEF HeapOK, PointersOK, MemoryOK, MemoryOf, IsOpen, Base, TypeOK, HasherStructs
<1>8. /\ \A o \in Goroutines : frame[o].c # NoAddr => frame[o].c # p
      /\ \A i \in Hashers : i # h => hasher[i].cache # p
      /\ p \in Addrs
  BY <1>3, <1>4, NoneAssumption
     DEF HeapOK, PointersOK, OwnersOK, IsOpen, Base, TypeOK, HasherStructs
<1> HIDE DEF p, d
<1>9. Swapping(h)' /\ \A i \in Hashers : i # h => (Swapping(i)' <=> Swapping(i))
  BY <1>0, <1>1, <1>5 DEF Swapping
<1>10. ExistsOK'
  BY <1>1, <1>5 DEF HeapOK, ExistsOK
<1>11. PointersOK'
  BY <1>1 DEF HeapOK, PointersOK, IsOpen
<1>12. MemoryOK'
  <2>1. hasher'[h].cache = p /\ caches'[p] = NoKey /\ datasets'[p] = NoKey
    BY <1>1, <1>2, <1>7, <1>8 DEF p
  <2>2. \A i \in Hashers : i # h /\ IsOpen(i) =>
            /\ hasher[i].cache \in Addrs /\ hasher[i].cache # p /\ hasher[i].cache # d
    BY <1>7, <1>8 DEF HeapOK, PointersOK, Base, TypeOK, HasherStructs
  <2>3. \A i \in Hashers : i # h /\ IsOpen(i) =>
            /\ caches'[hasher[i].cache] = caches[hasher[i].cache]
            /\ datasets'[hasher[i].cache] = datasets[hasher[i].cache]
    BY <1>2, <2>2
  <2> SUFFICES ASSUME NEW i \in Hashers, IsOpen(i)' PROVE MemoryOf(i)'
    BY DEF MemoryOK
  <2>4. CASE i = h
    BY <1>9, <2>1, <2>4 DEF MemoryOf
  <2>5. CASE i # h
    <3>1. IsOpen(i) /\ hasher'[i] = hasher[i] /\ (Swapping(i)' <=> Swapping(i))
      BY <1>1, <1>9, <2>5 DEF IsOpen
    <3> QED
      BY <2>3, <2>5, <3>1 DEF HeapOK, MemoryOK, MemoryOf
  <2> QED
    BY <2>4, <2>5
<1>13. BuildOK'
  <2>1. \A o \in Goroutines : pc[o] \in WithCache =>
            /\ frame[o].c \in Addrs
            /\ caches'[frame[o].c] = caches[frame[o].c]
            /\ datasets'[frame[o].c] = datasets[frame[o].c]
    BY <1>2, <1>7, <1>8 DEF Base, TypeOK, Frames, ControlOK, Control
  <2>2. \A o \in Goroutines : pc'[o] \in WithCache => pc[o] \in WithCache
    BY <1>1, <1>5 DEF WithCache
  <2>3. \A o \in Goroutines : pc'[o] \in BuildLabels => pc[o] \in BuildLabels
    BY <1>1, <1>5 DEF BuildLabels, WithCache
  <2> QED
    BY <1>1, <1>5, <2>1, <2>2, <2>3 DEF HeapOK, BuildOK
<1>14. OwnersOK'
  BY <1>1, <1>5 DEF HeapOK, OwnersOK
<1>15. LiveMemoryOwned'
  BY <1>1, <1>2, <1>5 DEF HeapOK, LiveMemoryOwned
<1> QED
  BY <1>10, <1>11, <1>12, <1>13, <1>14, <1>15 DEF HeapOK

LEMMA HeapUpdateSwap ==
  ASSUME Base, HeapOK, NEW g \in Goroutines, UpdateSwap(g)
  PROVE  HeapOK'
<1>0. PICK h : h = frame[g].h
  OBVIOUS
<1> DEFINE a == frame[g].c
           k == frame[g].key
           m == hasher[h].mode
           d == frame[g].d
<1>1. /\ UNCHANGED <<caches, datasets>> /\ Others(g) /\ pc[g] = "swap"
      /\ pc'[g] = "unlock" /\ HandOverEdited(frame'[g], frame[g], OK)
  BY UpdateSwapFacts DEF Base, Turns
<1>2. /\ hasher'[h].exists = hasher[h].exists /\ hasher'[h].mode = m
      /\ hasher'[h].closed = hasher[h].closed /\ hasher'[h].stored = k
      /\ hasher'[h].cache = a /\ hasher'[h].ds = d
      /\ \A i \in Hashers : i # h => hasher'[i] = hasher[i]
  BY <1>0, UpdateSwapHasher
<1>3. /\ h \in Hashers /\ hasher[h].exists
      /\ \A o \in Goroutines : o # g /\ frame[o].h = h => ~Writes(o)
  BY <1>0, <1>1, WriterHasher
<1>4. /\ a \in Addrs /\ k # NoKey /\ m \in {"light", "fast"}
      /\ d # NoAddr <=> m = "fast"
      /\ ~hasher[h].closed /\ frame[g].op = "update"
      /\ caches[a] = k /\ datasets[a] = (IF m = "fast" THEN k ELSE NoKey)
      /\ d # NoAddr => d = a
  <2>1. frame[g].op = "update" /\ pc[g] \in WithCache /\ pc[g] \in BuildLabels
        /\ pc[g] \in WithBoth
    BY <1>1, OpsOf DEF WithCache, WithBoth, BuildLabels
  <2>2. frame[g] \in Frames /\ Control(pc[g], frame[g])
    BY DEF Base, TypeOK, ControlOK
  <2>3. a \in Addrs /\ k # NoKey /\ frame[g].mode \in {"light", "fast"}
        /\ (d # NoAddr <=> frame[g].mode = "fast")
    BY <2>1, <2>2 DEF Frames, Control
  <2>4. /\ caches[a] = k /\ (datasets[a] = IF d = NoAddr THEN NoKey ELSE k)
        /\ d # NoAddr => d = a
        /\ ~hasher[h].closed /\ frame[g].mode = m
    BY <1>0, <2>1 DEF HeapOK, BuildOK
  <2> QED
    BY <2>1, <2>3, <2>4
<1>5. /\ frame'[g].c = NoAddr /\ frame'[g].d = NoAddr
      /\ frame'[g].op = "update" /\ frame'[g].h = h
      /\ \A o \in Goroutines : o # g => frame'[o] = frame[o] /\ pc'[o] = pc[o]
  BY <1>0, <1>1, <1>4 DEF HandOverEdited, Others
<1>6. /\ \A o \in Goroutines : o # g /\ frame[o].c # NoAddr => frame[o].c # a
      /\ \A i \in Hashers : hasher[i].cache # a
  BY <1>4, NoneAssumption DEF HeapOK, OwnersOK
<1>7. caches[hasher[h].cache] = NoKey /\ datasets[hasher[h].cache] = NoKey
  BY <1>0, <1>1, <1>3, <1>4 DEF HeapOK, MemoryOK, MemoryOf, IsOpen, Swapping
<1>8. ~Swapping(h)' /\ \A i \in Hashers : i # h => (Swapping(i)' <=> Swapping(i))
  <2>1. \A o \in Goroutines : pc[o] = "swap" => Writes(o)
    BY DEF Writes
  <2> QED
    BY <1>0, <1>1, <1>3, <1>5, <2>1 DEF Swapping
<1> HIDE DEF a, k, m, d
<1>9. ExistsOK'
  <2>1. \A i \in Hashers : hasher'[i].exists = hasher[i].exists
    BY <1>2
  <2>2. \A i \in Hashers : ~hasher'[i].exists => hasher'[i] = AbsentHasher
    BY <1>2, <1>3 DEF HeapOK, ExistsOK
  <2>3. \A o \in Goroutines : frame'[o].op = frame[o].op /\ frame'[o].h = frame[o].h
    BY <1>0, <1>4, <1>5
  <2>4. \A o \in Goroutines : frame[o].op # "none" => frame[o].h \in Hashers
    BY DEF Base, ControlOK, Control
  <2>5. \A o \in Goroutines : frame[o].op = "new" => pc'[o] = pc[o]
    BY <1>4, <1>5
  <2>6. \A o \in Goroutines :
            frame'[o].op \notin {"none", "new"} => hasher'[frame'[o].h].exists
    BY <2>1, <2>3, <2>4 DEF HeapOK, ExistsOK
  <2>7. \A o \in Goroutines :
            frame'[o].op = "new" /\ pc'[o] # "return" => ~hasher'[frame'[o].h].exists
    BY <2>1, <2>3, <2>4, <2>5 DEF HeapOK, ExistsOK
  <2>8. \A o, q \in Goroutines :
            frame'[o].op = "new" /\ frame'[q].op = "new" /\ frame'[o].h = frame'[q].h => o = q
    BY <2>3 DEF HeapOK, ExistsOK
  <2> QED
    BY <2>2, <2>6, <2>7, <2>8 DEF ExistsOK
<1>10. PointersOK'
  <2>1. /\ hasher'[h].exists /\ ~hasher'[h].closed
        /\ hasher'[h].cache # NoAddr /\ hasher'[h].stored # NoKey
        /\ hasher'[h].mode = "fast"  => hasher'[h].ds = hasher'[h].cache
        /\ hasher'[h].mode = "light" => hasher'[h].ds = NoAddr
    BY <1>2, <1>3, <1>4, NoneAssumption
  <2> QED
    BY <1>2, <2>1 DEF HeapOK, PointersOK, IsOpen
<1>11. MemoryOK'
  <2> SUFFICES ASSUME NEW i \in Hashers, IsOpen(i)' PROVE MemoryOf(i)'
    BY DEF MemoryOK
  <2>1. CASE i = h
    BY <1>1, <1>2, <1>4, <1>8, <2>1 DEF MemoryOf
  <2>2. CASE i # h
    <3>1. IsOpen(i) /\ hasher'[i] = hasher[i] /\ (Swapping(i)' <=> Swapping(i))
      BY <1>2, <1>8, <2>2 DEF IsOpen
    <3> QED
      BY <1>1, <2>2, <3>1 DEF HeapOK, MemoryOK, MemoryOf
  <2> QED
    BY <2>1, <2>2
<1>12. BuildOK'
  <2>1. \A o \in Goroutines : frame[o].op = "update" =>
            /\ hasher'[frame[o].h].closed = hasher[frame[o].h].closed
            /\ hasher'[frame[o].h].mode = hasher[frame[o].h].mode
    BY <1>2 DEF Base, ControlOK, Control, m
  <2>2. pc'[g] \notin BuildLabels /\ pc'[g] \notin WithCache
    BY <1>1 DEF BuildLabels, WithCache
  <2> QED
    BY <1>1, <1>5, <2>1, <2>2 DEF HeapOK, BuildOK
<1>13. OwnersOK'
  BY <1>2, <1>4, <1>5, <1>6, NoneAssumption DEF HeapOK, OwnersOK
<1>14. LiveMemoryOwned'
  BY <1>1, <1>2, <1>3, <1>5, <1>7 DEF HeapOK, LiveMemoryOwned, a
<1> QED
  BY <1>9, <1>10, <1>11, <1>12, <1>13, <1>14 DEF HeapOK

LEMMA HeapCloseRelease ==
  ASSUME Base, HeapOK, NEW g \in Goroutines, CloseRelease(g)
  PROVE  HeapOK'
<1>0. PICK h : h = frame[g].h
  OBVIOUS
<1> DEFINE p == hasher[h].cache
           d == hasher[h].ds
<1>1. /\ Others(g) /\ pc[g] = "close" /\ pc'[g] = "unlock"
      /\ OutEdited(frame'[g], frame[g], OK) /\ ~hasher[h].closed
  BY <1>0, CloseReleaseFacts DEF Base, Turns, CloseRelease
<1>2. \A a \in Addrs :
          /\ caches'[a] = IF a = p THEN NoKey ELSE caches[a]
          /\ datasets'[a] = IF a = d THEN NoKey ELSE datasets[a]
  BY <1>0 DEF CloseRelease, Release
<1>3. /\ h \in Hashers /\ hasher[h].exists
      /\ \A o \in Goroutines : o # g /\ frame[o].h = h => ~Writes(o)
  BY <1>0, <1>1, WriterHasher
<1>4. /\ hasher'[h].exists = hasher[h].exists /\ hasher'[h].mode = hasher[h].mode
      /\ hasher'[h].closed = TRUE /\ hasher'[h].cache = NoAddr /\ hasher'[h].ds = NoAddr
      /\ \A i \in Hashers : i # h => hasher'[i] = hasher[i]
  BY <1>0, CloseReleaseHasher
<1>5. /\ \A o \in Goroutines : pc[o] = "swap" => Writes(o)
      /\ \A o \in Goroutines : o # g => pc'[o] = pc[o] /\ frame'[o] = frame[o]
      /\ SameBuild(frame'[g], frame[g])
  BY <1>1 DEF Writes, Others, OutEdited, SameBuild
<1>6. ~Swapping(h)
  BY <1>1, <1>3, <1>5 DEF Swapping
<1>7. /\ hasher[h].mode = "fast" => d = p
      /\ hasher[h].mode = "light" => datasets[p] = NoKey /\ d = NoAddr
      /\ hasher[h].mode \in {"light", "fast"}
  BY <1>1, <1>3, <1>6 DEF HeapOK, PointersOK, MemoryOK, MemoryOf, IsOpen, Base, TypeOK, HasherStructs
<1>8. /\ \A o \in Goroutines : frame[o].c # NoAddr => frame[o].c # p
      /\ \A i \in Hashers : i # h => hasher[i].cache # p
      /\ p \in Addrs
  BY <1>1, <1>3, NoneAssumption
     DEF HeapOK, PointersOK, OwnersOK, IsOpen, Base, TypeOK, HasherStructs
<1> HIDE DEF p, d
<1>9. \A a \in Addrs : a # p =>
          caches'[a] = caches[a] /\ datasets'[a] = datasets[a]
  BY <1>2, <1>7, <1>8, NoneAssumption
<1>10. \A i \in Hashers : Swapping(i)' <=> Swapping(i)
  BY <1>1, <1>5 DEF Swapping, SameBuild
<1>11. ExistsOK'
  <2>1. \A i \in Hashers : hasher'[i].exists = hasher[i].exists
    BY <1>4
  <2>2. \A i \in Hashers : ~hasher'[i].exists => hasher'[i] = AbsentHasher
    BY <1>3, <1>4 DEF HeapOK, ExistsOK
  <2>3. \A o \in Goroutines : frame'[o].op = frame[o].op /\ frame'[o].h = frame[o].h
    BY <1>5 DEF SameBuild
  <2>4. \A o \in Goroutines : frame[o].op # "none" => frame[o].h \in Hashers
    BY DEF Base, ControlOK, Control
  <2>5. \A o \in Goroutines : frame[o].op = "new" => pc'[o] = pc[o]
    BY <1>1, <1>5 DEF Base, ControlOK, Control, OpLabels
  <2>6. \A o \in Goroutines :
            frame'[o].op \notin {"none", "new"} => hasher'[frame'[o].h].exists
    BY <2>1, <2>3, <2>4 DEF HeapOK, ExistsOK
  <2>7. \A o \in Goroutines :
            frame'[o].op = "new" /\ pc'[o] # "return" => ~hasher'[frame'[o].h].exists
    BY <2>1, <2>3, <2>4, <2>5 DEF HeapOK, ExistsOK
  <2>8. \A o, q \in Goroutines :
            frame'[o].op = "new" /\ frame'[q].op = "new" /\ frame'[o].h = frame'[q].h => o = q
    BY <2>3 DEF HeapOK, ExistsOK
  <2> QED
    BY <2>2, <2>6, <2>7, <2>8 DEF ExistsOK
<1>12. PointersOK'
  BY <1>4 DEF HeapOK, PointersOK, IsOpen
<1>13. MemoryOK'
  <2>1. \A i \in Hashers : i # h /\ IsOpen(i) =>
            hasher[i].cache \in Addrs /\ hasher[i].cache # p
    BY <1>8 DEF HeapOK, PointersOK, Base, TypeOK, HasherStructs
  <2>2. \A i \in Hashers : i # h /\ IsOpen(i) =>
            /\ caches'[hasher[i].cache] = caches[hasher[i].cache]
            /\ datasets'[hasher[i].cache] = datasets[hasher[i].cache]
    BY <1>9, <2>1
  <2>3. ~IsOpen(h)'
    BY <1>4 DEF IsOpen
  <2> SUFFICES ASSUME NEW i \in Hashers, IsOpen(i)' PROVE MemoryOf(i)'
    BY DEF MemoryOK
  <2>4. i # h /\ hasher'[i] = hasher[i] /\ IsOpen(i) /\ (Swapping(i)' <=> Swapping(i))
    BY <1>4, <1>10, <2>3 DEF IsOpen
  <2> QED
    BY <2>2, <2>4 DEF HeapOK, MemoryOK, MemoryOf
<1>14. BuildOK'
  <2>1. \A o \in Goroutines : pc[o] \in WithCache =>
            /\ caches'[frame[o].c] = caches[frame[o].c]
            /\ datasets'[frame[o].c] = datasets[frame[o].c]
    BY <1>8, <1>9 DEF Base, TypeOK, Frames, ControlOK, Control
  <2>2. \A o \in Goroutines : o # g /\ frame[o].op = "update" /\ pc[o] \in BuildLabels =>
            hasher'[frame[o].h] = hasher[frame[o].h]
    <3>1. \A o \in Goroutines : frame[o].op = "update" /\ pc[o] \in BuildLabels =>
              Writes(o) /\ frame[o].h \in Hashers
      BY OpsOf DEF Writes, BuildLabels, WithCache, Base, ControlOK, Control
    <3> QED
      BY <1>3, <1>4, <3>1
  <2>3. pc'[g] \notin BuildLabels /\ pc'[g] \notin WithCache
    BY <1>1 DEF BuildLabels, WithCache
  <2> QED
    BY <1>5, <2>1, <2>2, <2>3 DEF HeapOK, BuildOK, SameBuild
<1>15. OwnersOK'
  BY <1>4, <1>5 DEF HeapOK, OwnersOK, SameBuild
<1>16. LiveMemoryOwned'
  <2>1. \A a \in Addrs : caches'[a] # NoKey \/ datasets'[a] # NoKey => a # p
    BY <1>2, <1>7
  <2> QED
    BY <1>4, <1>5, <1>9, <2>1 DEF HeapOK, LiveMemoryOwned, SameBuild, p
<1> QED
  BY <1>11, <1>12, <1>13, <1>14, <1>15, <1>16 DEF HeapOK

LEMMA HeapEnvironment ==
  ASSUME Base, HeapOK, Environment \/ UNCHANGED vars
  PROVE  HeapOK'
<1>1. UNCHANGED <<pc, frame, caches, datasets>>
  BY DEF Environment, CallerWritesBuffer, PoolDrop, vars, heapVars, vmVars
<1>2. \A i \in Hashers : Swapping(i)' <=> Swapping(i)
  BY <1>1 DEF Swapping
<1>3. CASE UNCHANGED hasher
  BY <1>1, <1>2, <1>3 DEF HeapOK, ExistsOK, PointersOK, IsOpen, MemoryOK, MemoryOf,
     BuildOK, OwnersOK, LiveMemoryOwned
<1>4. ASSUME NEW h \in Hashers, CallerWritesBuffer(h)
      PROVE  HeapOK'
  <2>1. PICK k \in Keys :
            /\ hasher'[h].exists = hasher[h].exists /\ hasher'[h].mode = hasher[h].mode
            /\ hasher'[h].stored = k /\ hasher'[h].closed = hasher[h].closed
            /\ hasher'[h].cache = hasher[h].cache /\ hasher'[h].ds = hasher[h].ds
            /\ hasher[h].exists
            /\ \A i \in Hashers : i # h => hasher'[i] = hasher[i]
    BY <1>4, BufferHasher
  <2>2. \A i \in Hashers :
            /\ hasher'[i].exists = hasher[i].exists /\ hasher'[i].mode = hasher[i].mode
            /\ hasher'[i].closed = hasher[i].closed /\ hasher'[i].ds = hasher[i].ds
            /\ hasher'[i].cache = hasher[i].cache
            /\ hasher'[i].stored = hasher[i].stored \/ hasher'[i].stored \in Keys
    BY <2>1
  <2>3. \A o \in Goroutines : frame[o].op # "none" => frame[o].h \in Hashers
    BY DEF Base, ControlOK, Control
  <2>4. ExistsOK'
    BY <1>1, <2>1, <2>2, <2>3 DEF HeapOK, ExistsOK
  <2>5. PointersOK'
    BY <2>2, NoneAssumption DEF HeapOK, PointersOK, IsOpen
  <2>6. MemoryOK'
    BY <1>1, <1>2, <1>4, <2>2 DEF HeapOK, MemoryOK, MemoryOf, IsOpen, CallerWritesBuffer
  <2>7. BuildOK'
    <3>1. \A o \in Goroutines : frame[o].op = "update" =>
              /\ hasher'[frame[o].h].closed = hasher[frame[o].h].closed
              /\ hasher'[frame[o].h].mode = hasher[frame[o].h].mode
      BY <2>2, <2>3
    <3> QED
      BY <1>1, <3>1 DEF HeapOK, BuildOK
  <2>8. OwnersOK'
    BY <1>1, <2>2 DEF HeapOK, OwnersOK
  <2>9. LiveMemoryOwned'
    BY <1>1, <2>2 DEF HeapOK, LiveMemoryOwned
  <2> QED
    BY <2>4, <2>5, <2>6, <2>7, <2>8, <2>9 DEF HeapOK
<1> QED
  BY <1>3, <1>4 DEF Environment, PoolDrop, vars

(* The steps that only move a goroutine, its answer or its machine.        *)
LEMMA HeapQuiet ==
  ASSUME Base, HeapOK, NEW g \in Goroutines,
         \/ Locking(g) \/ Hashing(g)
         \/ NewAccept(g) \/ NewReject(g) \/ NewCacheFails(g)
         \/ UpdateAccept(g) \/ UpdateReject(g) \/ UpdateOnClosed(g) \/ UpdateSameKey(g)
         \/ UpdateNewKey(g) \/ CloseAgain(g)
  PROVE  HeapOK'
<1>1. CASE Locking(g)
  <2>1. /\ Others(g) /\ frame'[g] = frame[g] /\ UNCHANGED <<hasher, caches, datasets>>
        /\ pc[g] \in {"rlock", "rwait", "runlock", "lock", "drain", "unlock"}
        /\ pc'[g] \in {"rwait", "return", "drain", "check", "isready", "compare", "close"}
    BY <1>1, RLockFacts, RLockedFacts, RUnlockFacts, LockAnnounceFacts, LockedFacts,
       UnlockFacts DEF Base, Locking, Turns, WithReadLock, WithWriteLock
  <2> QED
    BY <2>1, HeapStays DEF SameBuild, WithCache
<1>2. CASE Hashing(g)
  <2>1. pc[g] \in ReadLabels /\ pc'[g] \in ReadLabels
        /\ UNCHANGED <<hasher, caches, datasets>>
    BY <1>2, HashOnOpenFacts, HashOnClosedFacts, PoolGetVMFacts, HashInitFacts,
       HashProgramFacts, HashFinalizeFacts, PoolPutVMFacts, IsReadyReadFacts
       DEF Base, Hashing, Turns, ReadLabels
  <2>2. Others(g) /\ SameBuild(frame'[g], frame[g])
    <3>1. CASE HashOnOpen(g) \/ HashOnClosed(g)
      BY <3>1, HashOnOpenFacts, HashOnClosedFacts DEF Base, Turns, OutEdited, SameBuild
    <3>2. CASE PoolGetVM(g) \/ PoolPutVM(g)
      BY <3>2, PoolGetVMFacts, PoolPutVMFacts DEF Base, Turns, VMEdited, SameBuild
    <3>3. CASE HashInit(g) \/ HashProgram(g)
      BY <3>3, HashInitFacts, HashProgramFacts DEF Base, Turns, LeftEdited, SameBuild
    <3>4. CASE HashFinalize(g)
      BY <3>4, HashFinalizeFacts DEF Base, Turns, OutEdited, SameBuild
    <3>5. CASE IsReadyRead(g)
      BY <3>5, IsReadyReadFacts DEF Base, Turns, OutEdited, SameBuild
    <3> QED
      BY <1>2, <3>1, <3>2, <3>3, <3>4, <3>5 DEF Hashing
  <2> QED
    BY <2>1, <2>2, HeapStays DEF ReadLabels, WithCache
<1>3. CASE NewAccept(g) \/ NewReject(g) \/ NewCacheFails(g)
  <2>1. /\ Others(g) /\ SameBuild(frame'[g], frame[g])
        /\ UNCHANGED <<hasher, caches, datasets>>
        /\ \/ pc[g] = "validate" /\ pc'[g] \in {"buildcache", "return"}
           \/ pc[g] = "buildcache" /\ pc'[g] \in {"return", "unlock"}
    BY <1>3, NewAcceptFacts, NewRejectFacts, NewCacheFailsFacts
       DEF Base, Turns, OutEdited, SameBuild, AfterError
  <2> QED
    BY <2>1, OpsOf, HeapStays DEF WithCache
<1>4. CASE UpdateNewKey(g)
  <2>1. /\ Others(g) /\ SameBuild(frame'[g], frame[g])
        /\ UNCHANGED <<hasher, caches, datasets>>
        /\ pc[g] = "compare" /\ pc'[g] = "buildcache"
        /\ frame'[g].mode = hasher[frame[g].h].mode
    BY <1>4, UpdateNewKeyFacts DEF Base, Turns, ModeEdited, SameBuild
  <2>2. ~hasher[frame[g].h].closed
    BY <1>4 DEF UpdateNewKey, LacksKey
  <2> QED
    BY <2>1, <2>2, HeapStays DEF WithCache
<1>5. CASE UpdateAccept(g) \/ UpdateReject(g) \/ UpdateOnClosed(g) \/ UpdateSameKey(g)
           \/ CloseAgain(g)
  <2>1. /\ Others(g) /\ SameBuild(frame'[g], frame[g])
        /\ UNCHANGED <<hasher, caches, datasets>>
        /\ pc[g] \in {"checkkey", "compare", "close"}
        /\ pc'[g] \in {"lock", "return", "unlock"}
    BY <1>5, UpdateAcceptFacts, UpdateRejectFacts, UpdateOnClosedFacts,
       UpdateSameKeyFacts, CloseAgainFacts DEF Base, Turns, OutEdited, SameBuild
  <2> QED
    BY <2>1, HeapStays DEF WithCache
<1> QED
  BY <1>1, <1>2, <1>3, <1>4, <1>5

LEMMA HeapNext ==
  ASSUME Base, HeapOK, [Next]_vars
  PROVE  HeapOK'
<1>1. CASE Environment \/ UNCHANGED vars
  BY <1>1, HeapEnvironment
<1>2. ASSUME NEW g \in Goroutines, Calls(g) \/ Step(g)
      PROVE  HeapOK'
  BY <1>2, HeapCalls, HeapQuiet, HeapNewCache, HeapNewDataset, HeapNewDatasetFails,
     HeapNewPublish, HeapUpdateRelease, HeapUpdateSwap, HeapCloseRelease
     DEF Step, Building, Updating
<1> QED
  BY <1>1, <1>2 DEF Next

-----------------------------------------------------------------------------
(* What one goroutine does leaves the hasher and the memory that another   *)
(* one uses under its lock as they are.                                    *)
LEMMA OthersHasher ==
  ASSUME Base, HeapOK, NEW g \in Goroutines, Calls(g) \/ Step(g),
         NEW o \in Goroutines, o # g, Writes(o) \/ pc[o] \in ReadLabels,
         frame[o].op # "new"
  PROVE  hasher'[frame[o].h] = hasher[frame[o].h]
<1>1. frame[o].h \in Hashers /\ hasher[frame[o].h].exists
  BY InCall, OpsOf DEF Base, Writes, ReadLabels, HeapOK, ExistsOK
<1>2. CASE NewPublish(g)
  <2>1. frame[g].op = "new" /\ pc[g] = "publish"
    BY <1>2, NewPublishFacts, OpsOf DEF Base, Turns
  <2>2. frame[g].h # frame[o].h
    BY <1>1, <2>1 DEF HeapOK, ExistsOK
  <2> QED
    BY <1>1, <1>2, <2>2, NewPublishHasher
<1>3. CASE UpdateSwap(g) \/ CloseRelease(g)
  <2>1. pc[g] \in {"swap", "close"}
    BY <1>3, UpdateSwapFacts, CloseReleaseFacts DEF Base, Turns
  <2>2. frame[g].h # frame[o].h
    BY <2>1, WriterHasher
  <2> QED
    BY <1>1, <1>3, <2>2, UpdateSwapHasher, CloseReleaseHasher
<1>4. CASE ~NewPublish(g) /\ ~UpdateSwap(g) /\ ~CloseRelease(g)
  <2>1. CASE Calls(g) \/ Return(g)
    BY <2>1, CallFacts, ReturnFacts DEF Base
  <2>2. CASE Locking(g)
    BY <2>2, RLockFacts, RLockedFacts, RUnlockFacts, LockAnnounceFacts, LockedFacts,
       UnlockFacts DEF Base, Locking
  <2>3. CASE Building(g)
    BY <1>4, <2>3, NewAcceptFacts, NewRejectFacts, NewCacheFacts, NewCacheFailsFacts,
       NewDatasetFacts, NewDatasetFailsFacts DEF Base, Building
  <2>4. CASE Updating(g)
    BY <1>4, <2>4, UpdateAcceptFacts, UpdateRejectFacts, UpdateOnClosedFacts,
       UpdateSameKeyFacts, UpdateNewKeyFacts, UpdateReleaseFacts, CloseAgainFacts
       DEF Base, Updating
  <2>5. CASE Hashing(g)
    BY <2>5, HashOnOpenFacts, HashOnClosedFacts, PoolGetVMFacts, HashInitFacts,
       HashProgramFacts, HashFinalizeFacts, PoolPutVMFacts, IsReadyReadFacts
       DEF Base, Hashing
  <2> QED
    BY <2>1, <2>2, <2>3, <2>4, <2>5 DEF Step
<1> QED
  BY <1>2, <1>3, <1>4

LEMMA OthersMemory ==
  ASSUME Base, HeapOK, NEW g \in Goroutines, Calls(g) \/ Step(g),
         NEW o \in Goroutines, o # g, pc[o] \in ReadLabels, IsOpen(frame[o].h)
  PROVE  LET a == hasher[frame[o].h].cache IN caches'[a] = caches[a]
<1> DEFINE h == frame[o].h
           a == hasher[h].cache
<1>1. h \in Hashers
  BY InCall DEF Base, ReadLabels
<1>2. a \in Addrs /\ a # NoAddr
  BY <1>1 DEF HeapOK, PointersOK, Base, TypeOK, HasherStructs
<1>3. CASE NewCache(g)
  <2>1. PICK b \in FreshAddrs : caches' = [caches EXCEPT ![b] = frame[g].key]
    BY <1>3, NewCacheFacts DEF Base
  <2>2. b # a
    BY <1>1 DEF FreshAddrs, Referenced
  <2> QED
    BY <1>2, <2>1, <2>2 DEF Base, TypeOK
<1>4. CASE NewDatasetFails(g)
  <2>1. frame[g].c # a
    BY <1>1, <1>2 DEF HeapOK, OwnersOK
  <2> QED
    BY <1>2, <1>4, <2>1 DEF NewDatasetFails, Release
<1>5. CASE UpdateRelease(g) \/ CloseRelease(g)
  <2>1. pc[g] \in {"release", "close"}
    BY <1>5, UpdateReleaseFacts, CloseReleaseFacts DEF Base, Turns
  <2>2. frame[g].h \in Hashers /\ frame[g].h # h
    BY <2>1, WriterHasher
  <2>3. hasher[frame[g].h].cache # a
    BY <1>1, <1>2, <2>2 DEF HeapOK, OwnersOK
  <2> QED
    BY <1>2, <1>5, <2>3 DEF UpdateRelease, CloseRelease, Release
<1>6. CASE ~NewCache(g) /\ ~NewDatasetFails(g) /\ ~UpdateRelease(g) /\ ~CloseRelease(g)
  <2>1. CASE Calls(g) \/ Return(g)
    BY <2>1, CallFacts, ReturnFacts DEF Base
  <2>2. CASE Locking(g)
    BY <2>2, RLockFacts, RLockedFacts, RUnlockFacts, LockAnnounceFacts, LockedFacts,
       UnlockFacts DEF Base, Locking
  <2>3. CASE Building(g)
    BY <1>6, <2>3, NewAcceptFacts, NewRejectFacts, NewPublishFacts, NewCacheFailsFacts,
       NewDatasetFacts DEF Base, Building
  <2>4. CASE Updating(g)
    BY <1>6, <2>4, UpdateAcceptFacts, UpdateRejectFacts, UpdateOnClosedFacts,
       UpdateSameKeyFacts, UpdateNewKeyFacts, UpdateSwapFacts, CloseAgainFacts
       DEF Base, Updating
  <2>5. CASE Hashing(g)
    BY <2>5, HashOnOpenFacts, HashOnClosedFacts, PoolGetVMFacts, HashInitFacts,
       HashProgramFacts, HashFinalizeFacts, PoolPutVMFacts, IsReadyReadFacts
       DEF Base, Hashing
  <2> QED
    BY <2>1, <2>2, <2>3, <2>4, <2>5 DEF Step
<1> QED
  BY <1>3, <1>4, <1>5, <1>6

LEMMA StepOthers ==
  ASSUME Base, NEW g \in Goroutines, Calls(g) \/ Step(g)
  PROVE  Others(g)
  BY CallFacts, ReturnFacts, StepKeeps DEF Base, Step, Stepping, Turns

-----------------------------------------------------------------------------
(* Updates. *)
LEMMA UpdateInit == Init => UpdateOK
  BY DEF Init, UpdateOK, UpdateOf, NoFrame

LEMMA UpdateNext ==
  ASSUME Base, HeapOK, UpdateOK, [Next]_vars
  PROVE  UpdateOK'
<1> SUFFICES ASSUME ~CallerReusesBuffer, NEW o \in Goroutines,
                    frame'[o].op = "update", frame'[o].out = OK, pc'[o] = "unlock"
             PROVE  UpdateOf(o)'
  BY DEF UpdateOK, UpdateOf
<1>1. CASE Environment \/ UNCHANGED vars
  <2>1. UNCHANGED <<pc, frame, hasher>>
    BY <1>1 DEF Environment, CallerWritesBuffer, PoolDrop, vars, heapVars, vmVars
  <2> QED
    BY <2>1 DEF UpdateOK, UpdateOf, IsOpen
<1>2. ASSUME NEW g \in Goroutines, Calls(g) \/ Step(g), o # g
      PROVE  UpdateOf(o)'
  <2>1. frame'[o] = frame[o] /\ pc'[o] = pc[o]
    BY <1>2, StepOthers DEF Others
  <2>2. hasher'[frame[o].h] = hasher[frame[o].h]
    BY <1>2, <2>1, OthersHasher DEF Writes
  <2> QED
    BY <2>1, <2>2 DEF UpdateOK, UpdateOf, IsOpen
<1>3. ASSUME Calls(o) \/ Step(o)
      PROVE  UpdateOf(o)'
  <2>1. CASE UpdateSameKey(o)
    <3>1. /\ frame'[o].h = frame[o].h /\ frame'[o].key = frame[o].key
          /\ hasher' = hasher /\ pc[o] = "compare"
      BY <2>1, UpdateSameKeyFacts DEF Base, Turns, OutEdited
    <3>2. hasher[frame[o].h].exists
      BY <3>1, WriterHasher
    <3> QED
      BY <2>1, <3>1, <3>2 DEF UpdateSameKey, HoldsKey, UpdateOf, IsOpen
  <2>2. CASE UpdateSwap(o)
    <3>1. /\ frame'[o].h = frame[o].h /\ frame'[o].key = frame[o].key /\ pc[o] = "swap"
      BY <2>2, UpdateSwapFacts DEF Base, Turns, HandOverEdited
    <3>2. hasher[frame[o].h].exists /\ ~hasher[frame[o].h].closed
      BY <3>1, WriterHasher, OpsOf DEF HeapOK, BuildOK, BuildLabels, WithCache
    <3> QED
      BY <2>2, <3>1, <3>2, UpdateSwapHasher DEF UpdateOf, IsOpen
  <2>3. CASE ~UpdateSameKey(o) /\ ~UpdateSwap(o)
    <3>1. CASE Calls(o) \/ Return(o)
      BY <3>1, CallFacts, ReturnFacts DEF Base, Turns, CallLabels
    <3>2. CASE Locking(o)
      BY <3>2, RLockFacts, RLockedFacts, RUnlockFacts, LockAnnounceFacts, LockedFacts,
         UnlockFacts DEF Base, Locking, Turns, WithReadLock, WithWriteLock
    <3>3. CASE Building(o)
      <4>1. CASE NewAccept(o) \/ NewReject(o) \/ NewPublish(o)
        BY <4>1, NewAcceptFacts, NewRejectFacts, NewPublishFacts DEF Base, Turns
      <4>2. CASE NewCache(o) \/ NewDataset(o)
        BY <4>2, NewCacheFacts, NewDatasetFacts DEF Base, Turns, AfterBuild
      <4>3. CASE NewCacheFails(o) \/ NewDatasetFails(o)
        BY <4>3, NewCacheFailsFacts, NewDatasetFailsFacts
           DEF Base, OutEdited, DropEdited, OK, Failed
      <4> QED
        BY <3>3, <4>1, <4>2, <4>3 DEF Building
    <3>4. CASE Updating(o)
      <4>1. CASE UpdateAccept(o) \/ UpdateReject(o) \/ UpdateNewKey(o) \/ UpdateRelease(o)
        BY <4>1, UpdateAcceptFacts, UpdateRejectFacts, UpdateNewKeyFacts,
           UpdateReleaseFacts DEF Base, Turns
      <4>2. CASE UpdateOnClosed(o)
        BY <4>2, UpdateOnClosedFacts DEF Base, OutEdited, OK, Failed
      <4>3. CASE CloseAgain(o) \/ CloseRelease(o)
        BY <4>3, CloseAgainFacts, CloseReleaseFacts, OpsOf DEF Base, Turns, OutEdited
      <4> QED
        BY <2>3, <3>4, <4>1, <4>2, <4>3 DEF Updating
    <3>5. CASE Hashing(o)
      BY <3>5, HashOnOpenFacts, HashOnClosedFacts, PoolGetVMFacts, HashInitFacts,
         HashProgramFacts, HashFinalizeFacts, PoolPutVMFacts, IsReadyReadFacts
         DEF Base, Hashing, Turns
    <3> QED
      BY <1>3, <3>1, <3>2, <3>3, <3>4, <3>5 DEF Step
  <2> QED
    BY <2>1, <2>2, <2>3
<1> QED
  BY <1>1, <1>2, <1>3 DEF Next

-----------------------------------------------------------------------------
(* Hashes in progress. *)
LEMMA HashInitially == Init => HashOK
  BY DEF Init, HashOK, HashOf, InHash, NoFrame

LEMMA InHashReads ==
  ASSUME Base, HeapOK, NEW g \in Goroutines, InHash(g), ~hasher[frame[g].h].closed
  PROVE  /\ pc[g] \in ReadLabels /\ frame[g].op = "hash" /\ frame[g].h \in Hashers
         /\ IsOpen(frame[g].h) /\ ~Swapping(frame[g].h)
<1>1. pc[g] \in ReadLabels /\ frame[g].op = "hash"
  BY OpsOf DEF InHash, ReadLabels, Base, ControlOK, Control
<1>2. frame[g].h \in Hashers /\ hasher[frame[g].h].exists
  BY <1>1, InCall DEF Base, ReadLabels, HeapOK, ExistsOK
<1>3. \A o \in Goroutines : pc[o] = "swap" => Writes(o)
  BY DEF Writes
<1>4. ~Swapping(frame[g].h)
  BY <1>1, <1>3, Alone DEF Swapping
<1> QED
  BY <1>1, <1>2, <1>4 DEF IsOpen

(* The machine of a hash is touched by that hash alone. *)
LEMMA OthersMachine ==
  ASSUME Base, VMExclusive, NEW g \in Goroutines, Calls(g) \/ Step(g),
         NEW o \in Goroutines, o # g, pc[o] = "run"
  PROVE  vms'[frame[o].vm] = vms[frame[o].vm]
<1>1. frame[o].vm \in VMs /\ frame[o].vm # NoVM
  BY NoneAssumption DEF Base, ControlOK, Control, WithVM, TypeOK, Frames
<1>2. CASE PoolGetVM(g)
  <2>1. PICK v \in pool \cup UnmadeVMs : vms' = [vms EXCEPT ![v] = Reset(vms[v])]
    BY <1>2, PoolGetVMFacts DEF Base
  <2>2. v # frame[o].vm
    BY <1>1 DEF VMExclusive, UnmadeVMs
  <2> QED
    BY <1>1, <2>1, <2>2 DEF Base, TypeOK
<1>3. CASE HashInit(g) \/ HashProgram(g)
  <2>1. frame[g].vm # frame[o].vm
    BY <1>1 DEF VMExclusive
  <2> QED
    BY <1>1, <1>3, <2>1 DEF HashInit, HashProgram, Base, TypeOK
<1>4. CASE ~PoolGetVM(g) /\ ~HashInit(g) /\ ~HashProgram(g)
  <2>1. CASE Calls(g) \/ Return(g)
    BY <2>1, CallFacts, ReturnFacts DEF Base
  <2>2. CASE Locking(g)
    BY <2>2, RLockFacts, RLockedFacts, RUnlockFacts, LockAnnounceFacts, LockedFacts,
       UnlockFacts DEF Base, Locking
  <2>3. CASE Building(g)
    BY <2>3, NewAcceptFacts, NewRejectFacts, NewPublishFacts, NewCacheFacts,
       NewCacheFailsFacts, NewDatasetFacts, NewDatasetFailsFacts DEF Base, Building
  <2>4. CASE Updating(g)
    BY <2>4, UpdateAcceptFacts, UpdateRejectFacts, UpdateOnClosedFacts,
       UpdateSameKeyFacts, UpdateNewKeyFacts, UpdateReleaseFacts, UpdateSwapFacts,
       CloseAgainFacts, CloseReleaseFacts DEF Base, Updating
  <2>5. CASE Hashing(g)
    BY <1>4, <2>5, HashOnOpenFacts, HashOnClosedFacts, HashFinalizeFacts,
       PoolPutVMFacts, IsReadyReadFacts DEF Base, Hashing
  <2> QED
    BY <2>1, <2>2, <2>3, <2>4, <2>5 DEF Step
<1> QED
  BY <1>2, <1>3, <1>4

LEMMA HashOthers ==
  ASSUME Base, HeapOK, VMExclusive, HashOK, NEW g \in Goroutines, Calls(g) \/ Step(g),
         NEW o \in Goroutines, o # g
  PROVE  HashOf(o)'
<1>1. frame'[o] = frame[o] /\ pc'[o] = pc[o]
  BY StepOthers DEF Others
<1>2. CASE ~InHash(o)
  BY <1>1, <1>2 DEF HashOf, InHash
<1>3. CASE InHash(o)
  <2>1. ~hasher[frame[o].h].closed
    BY <1>3 DEF HashOK, HashOf
  <2>2. pc[o] \in ReadLabels /\ frame[o].op = "hash" /\ IsOpen(frame[o].h)
    BY <1>3, <2>1, InHashReads
  <2>3. hasher'[frame[o].h] = hasher[frame[o].h]
    BY <2>2, OthersHasher
  <2>4. caches'[hasher[frame[o].h].cache] = caches[hasher[frame[o].h].cache]
    BY <2>2, OthersMemory
  <2>5. pc[o] = "run" => vms'[frame[o].vm] = vms[frame[o].vm]
    BY OthersMachine
  <2>6. HashOf(o)
    BY DEF HashOK
  <2> QED
    BY <1>1, <2>3, <2>4, <2>5, <2>6 DEF HashOf, InHash
<1> QED
  BY <1>2, <1>3

(* The effect of a hash's steps on its machine. *)
LEMMA InitMachine ==
  ASSUME NEW m \in VMStructs, NEW d, NEW c, NEW i
  PROVE  LET n == Initialize(InitVM(m, d, c), i) IN
         /\ n.c = c /\ n.ds = d /\ n.regs = {} /\ n.mem = {i} /\ n.gen = {i}
  BY DEF Initialize, InitVM, Reset, VMStructs

LEMMA RunMachine ==
  ASSUME NEW m \in VMStructs
  PROVE  LET n == ProgramRun(m)
             all == m.regs \cup m.mem \cup m.gen \cup DatasetItem(m)
         IN  /\ n.c = m.c /\ n.ds = m.ds
             /\ n.regs = all /\ n.mem = all /\ n.gen = all
<1> DEFINE all == m.regs \cup m.mem \cup m.gen \cup DatasetItem(m)
<1>1. ProgramRun(m) = [m EXCEPT !.regs = all, !.mem = all, !.gen = all]
  BY DEF ProgramRun
<1> HIDE DEF all
<1>2. /\ ProgramRun(m).c = m.c /\ ProgramRun(m).ds = m.ds
      /\ ProgramRun(m).regs = all /\ ProgramRun(m).mem = all /\ ProgramRun(m).gen = all
  BY <1>1 DEF VMStructs
<1> QED
  BY <1>2 DEF all

LEMMA HashSteps ==
  ASSUME Base, HeapOK, VMExclusive, HashOK, NEW g \in Goroutines, Hashing(g)
  PROVE  HashOf(g)'
<1> DEFINE h == hasher[frame[g].h]
           v == frame[g].vm
           i == frame[g].input
           k == caches[h.cache]
<1>1. HashOf(g)
  BY DEF HashOK
<1>2. pc[g] \notin Answered => frame[g].out.tag = "none"
  BY DEF Base, ControlOK, Control, NoOut
<1>3. CASE HashOnOpen(g)
  <2>1. /\ pc[g] = "check" /\ pc'[g] = "getvm" /\ frame'[g] = frame[g]
        /\ hasher' = hasher /\ ~h.closed
    BY <1>3, HashOnOpenFacts DEF Base, Turns, HashOnOpen
  <2> QED
    BY <1>2, <2>1 DEF HashOf, InHash, Answered
<1>4. CASE HashOnClosed(g)
  BY <1>4, HashOnClosedFacts DEF Base, Turns, OutEdited, HashOf, InHash, Panicked
<1>5. CASE PoolGetVM(g)
  <2>1. /\ pc[g] = "getvm" /\ pc'[g] = "init" /\ hasher' = hasher
        /\ frame'[g].h = frame[g].h /\ frame'[g].out = frame[g].out
    BY <1>5, PoolGetVMFacts DEF Base, Turns, VMEdited
  <2> QED
    BY <1>1, <1>2, <2>1 DEF HashOf, InHash, Answered
<1>6. CASE HashInit(g)
  <2>1. /\ pc[g] = "init" /\ pc'[g] = "run" /\ hasher' = hasher /\ caches' = caches
        /\ frame'[g].h = frame[g].h /\ frame'[g].out = frame[g].out
        /\ frame'[g].vm = v /\ frame'[g].input = i /\ frame'[g].left = Programs
    BY <1>6, HashInitFacts DEF Base, Turns, LeftEdited
  <2>2. v \in VMs
    BY <2>1 DEF Base, TypeOK, Frames, ControlOK, Control, WithVM
  <2>3. vms[v] \in VMStructs
    BY <2>2 DEF Base, TypeOK
  <2>4. vms'[v] = Initialize(InitVM(vms[v], h.ds, h.cache), i)
    BY <1>6, <2>2 DEF HashInit, Base, TypeOK
  <2>5. /\ vms'[v].c = h.cache /\ vms'[v].ds = h.ds /\ vms'[v].regs = {}
        /\ vms'[v].mem = {i} /\ vms'[v].gen = {i}
    BY <2>3, <2>4, InitMachine
  <2> QED
    BY <1>1, <1>2, <2>1, <2>5 DEF HashOf, InHash, Answered
<1>7. CASE HashProgram(g)
  <2>1. /\ pc[g] = "run" /\ pc'[g] = "run" /\ hasher' = hasher /\ caches' = caches
        /\ frame'[g].h = frame[g].h /\ frame'[g].out = frame[g].out
        /\ frame'[g].vm = v /\ frame'[g].input = i
    BY <1>7, HashProgramFacts DEF Base, Turns, LeftEdited
  <2>2. v \in VMs
    BY <2>1 DEF Base, TypeOK, Frames, ControlOK, Control, WithVM
  <2>3. vms[v] \in VMStructs
    BY <2>2 DEF Base, TypeOK
  <2>4. vms'[v] = ProgramRun(vms[v])
    BY <1>7, <2>2 DEF HashProgram, Base, TypeOK
  <2>5. /\ ~h.closed /\ vms[v].c = h.cache /\ vms[v].ds = h.ds
        /\ vms[v].regs \cup vms[v].mem \cup vms[v].gen \subseteq {i, k}
        /\ i \in vms[v].mem
    BY <1>1, <2>1 DEF HashOf, InHash
  <2>6. DatasetItem(vms[v]) = {k}
    <3>1. frame[g].h \in Hashers /\ IsOpen(frame[g].h) /\ ~Swapping(frame[g].h)
      BY <2>1, <2>5, InHashReads DEF InHash
    <3>2. h.cache # NoAddr /\ h.mode \in {"light", "fast"}
          /\ (h.mode = "fast" => h.ds = h.cache) /\ (h.mode = "light" => h.ds = NoAddr)
      BY <3>1 DEF HeapOK, PointersOK, Base, TypeOK, HasherStructs
    <3>3. h.mode = "fast" => datasets[h.cache] = k
      BY <3>1 DEF HeapOK, MemoryOK, MemoryOf
    <3> QED
      BY <2>5, <3>2, <3>3 DEF DatasetItem
  <2>7. /\ vms'[v].c = vms[v].c /\ vms'[v].ds = vms[v].ds
        /\ vms'[v].regs = vms[v].regs \cup vms[v].mem \cup vms[v].gen \cup {k}
        /\ vms'[v].mem = vms[v].regs \cup vms[v].mem \cup vms[v].gen \cup {k}
        /\ vms'[v].gen = vms[v].regs \cup vms[v].mem \cup vms[v].gen \cup {k}
    BY <2>3, <2>4, <2>6, RunMachine
  <2>8. /\ vms'[v].regs \cup vms'[v].mem \cup vms'[v].gen \subseteq {i, k}
        /\ i \in vms'[v].mem /\ k \in vms'[v].mem
    BY <2>5, <2>7
  <2> HIDE DEF v, i, k
  <2> QED
    BY <1>1, <1>2, <2>1, <2>5, <2>7, <2>8 DEF HashOf, InHash, Answered, v, i, k
<1>8. CASE HashFinalize(g)
  <2>1. /\ pc[g] = "run" /\ pc'[g] = "putvm" /\ hasher' = hasher /\ caches' = caches
        /\ frame'[g].h = frame[g].h /\ frame'[g].input = i
        /\ frame'[g].out = [tag |-> "hash", of |-> vms[v].regs \cup vms[v].mem]
    BY <1>8, HashFinalizeFacts DEF Base, Turns, OutEdited
  <2>2. frame[g].left # Programs
    BY <1>8, ProgramsAssumption DEF HashFinalize
  <2>3. vms[v].regs \cup vms[v].mem = {i, k}
    BY <1>1, <2>1, <2>2 DEF HashOf
  <2>4. ~h.closed
    BY <1>1, <2>1 DEF HashOf, InHash
  <2> QED
    BY <2>1, <2>3, <2>4 DEF HashOf, InHash
<1>9. CASE PoolPutVM(g)
  <2>1. /\ pc[g] = "putvm" /\ pc'[g] = "runlock" /\ hasher' = hasher /\ caches' = caches
        /\ frame'[g].h = frame[g].h /\ frame'[g].input = i
        /\ frame'[g].out = frame[g].out
    BY <1>9, PoolPutVMFacts DEF Base, Turns, VMEdited
  <2> QED
    BY <1>1, <2>1 DEF HashOf, InHash
<1>10. CASE IsReadyRead(g)
  <2>1. pc'[g] = "runlock" /\ frame'[g].out.tag # "hash"
    BY <1>10, IsReadyReadFacts DEF Base, Turns, OutEdited, Ready, NotReady
  <2> QED
    BY <2>1 DEF HashOf, InHash
<1> QED
  BY <1>3, <1>4, <1>5, <1>6, <1>7, <1>8, <1>9, <1>10 DEF Hashing

LEMMA HashNext ==
  ASSUME Base, HeapOK, VMExclusive, HashOK, [Next]_vars
  PROVE  HashOK'
<1> SUFFICES ASSUME NEW o \in Goroutines PROVE HashOf(o)'
  BY DEF HashOK
<1>1. HashOf(o)
  BY DEF HashOK
<1>2. CASE Environment \/ UNCHANGED vars
  <2>1. UNCHANGED <<pc, frame, caches>>
    BY <1>2 DEF Environment, CallerWritesBuffer, PoolDrop, vars, heapVars, vmVars
  <2>2. InHash(o) =>
            /\ hasher'[frame[o].h].closed = hasher[frame[o].h].closed
            /\ hasher'[frame[o].h].cache = hasher[frame[o].h].cache
            /\ hasher'[frame[o].h].ds = hasher[frame[o].h].ds
    <3>1. CASE hasher' = hasher
      BY <3>1
    <3>2. ASSUME NEW h \in Hashers, CallerWritesBuffer(h), InHash(o)
          PROVE  /\ hasher'[frame[o].h].closed = hasher[frame[o].h].closed
                 /\ hasher'[frame[o].h].cache = hasher[frame[o].h].cache
                 /\ hasher'[frame[o].h].ds = hasher[frame[o].h].ds
      <4>1. frame[o].h \in Hashers
        BY <1>1, <3>2, InHashReads DEF HashOf
      <4> QED
        BY <3>2, <4>1, BufferHasher
    <3> QED
      BY <1>2, <3>1, <3>2 DEF Environment, PoolDrop, vars
  <2>3. pc[o] = "run" => vms'[frame[o].vm] = vms[frame[o].vm]
    <3>1. ASSUME NEW v \in VMs, PoolDrop(v), pc[o] = "run"
          PROVE  vms'[frame[o].vm] = vms[frame[o].vm]
      <4>1. frame[o].vm \in VMs /\ frame[o].vm # NoVM
        BY <3>1, NoneAssumption DEF Base, ControlOK, Control, WithVM, TypeOK, Frames
      <4>2. v # frame[o].vm
        BY <3>1, <4>1 DEF PoolDrop, VMExclusive
      <4> QED
        BY <3>1, <4>1, <4>2 DEF PoolDrop, Base, TypeOK
    <3> QED
      BY <1>2, <3>1 DEF Environment, CallerWritesBuffer, vars, vmVars
  <2>4. InHash(o)' <=> InHash(o)
    BY <2>1 DEF InHash
  <2>5. CASE InHash(o)
    BY <1>1, <2>1, <2>2, <2>3, <2>4, <2>5 DEF HashOf
  <2>6. CASE ~InHash(o)
    BY <2>1, <2>4, <2>6 DEF HashOf, InHash
  <2> QED
    BY <2>5, <2>6
<1>3. ASSUME NEW g \in Goroutines, Calls(g) \/ Step(g), o # g
      PROVE  HashOf(o)'
  BY <1>3, HashOthers
<1>4. CASE Hashing(o)
  BY <1>4, HashSteps
<1>5. CASE Calls(o) \/ Return(o)
  <2>1. pc'[o] \in CallLabels \cup {"idle"}
    BY <1>5, CallFacts, ReturnFacts DEF Base, Turns
  <2> QED
    BY <2>1 DEF HashOf, InHash, CallLabels
<1>6. CASE Locking(o)
  <2>1. pc'[o] \in {"rwait", "return", "drain", "check", "isready", "compare", "close"}
    BY <1>6, RLockFacts, RLockedFacts, RUnlockFacts, LockAnnounceFacts, LockedFacts,
       UnlockFacts DEF Base, Locking, Turns, WithReadLock, WithWriteLock
  <2> QED
    BY <2>1 DEF HashOf, InHash
<1>7. CASE Building(o)
  <2>1. pc'[o] \in {"buildcache", "builddataset", "publish", "release", "return", "unlock"}
    BY <1>7, NewAcceptFacts, NewRejectFacts, NewPublishFacts, NewCacheFacts,
       NewCacheFailsFacts, NewDatasetFacts, NewDatasetFailsFacts
       DEF Base, Building, Turns, AfterBuild, AfterError
  <2> QED
    BY <2>1 DEF HashOf, InHash
<1>8. CASE Updating(o)
  <2>1. pc'[o] \in {"lock", "return", "unlock", "buildcache", "swap"}
    BY <1>8, UpdateAcceptFacts, UpdateRejectFacts, UpdateOnClosedFacts,
       UpdateSameKeyFacts, UpdateNewKeyFacts, UpdateReleaseFacts, UpdateSwapFacts,
       CloseAgainFacts, CloseReleaseFacts DEF Base, Updating, Turns
  <2> QED
    BY <2>1 DEF HashOf, InHash
<1> QED
  BY <1>2, <1>3, <1>4, <1>5, <1>6, <1>7, <1>8 DEF Next, Step

-----------------------------------------------------------------------------
(* The inductive invariant holds: whatever the number of goroutines and    *)
(* hashers, in every interleaving of their calls.                          *)
THEOREM Invariant == Spec => []IInv
<1> DEFINE Rest == LockOK /\ HeapOK /\ VMExclusive /\ UpdateOK /\ HashOK
<1>1. Init => Rest
  BY LockInit, HeapInit, MachinesInit, UpdateInit, HashInitially
<1>2. TypeOK /\ ControlOK /\ Rest /\ [Next]_vars => Rest'
  BY LockNext, HeapNext, MachinesNext, UpdateNext, HashNext DEF Base
<1>3. TypeOK /\ ControlOK /\ Rest => IInv
  BY DEF IInv, HeapOK
<1> HIDE DEF Rest
<1> QED
  BY <1>1, <1>2, <1>3, TypeCorrect, PTL DEF Spec

LEMMA Parts ==
  ASSUME IInv
  PROVE  Base /\ HeapOK /\ HashOK /\ UpdateOK
  BY DEF IInv, Base, HeapOK

(* No hash reads memory that UpdateCacheKey or Close has released, nor     *)
(* memory another hasher left in its machine (randomx.go:141-157, 203-208, *)
(* 230-238, vm.go:39-43).                                                  *)
THEOREM NoHashAfterRelease == Spec => []NoUseAfterRelease
<1>1. IInv => NoUseAfterRelease
  <2> SUFFICES ASSUME IInv, NEW g \in Goroutines, pc[g] = "run"
               PROVE  LET m == vms[frame[g].vm]
                          h == hasher[frame[g].h]
                      IN  /\ m.c = h.cache /\ m.ds = h.ds
                          /\ m.c # NoAddr /\ caches[m.c] # NoKey
                          /\ m.ds # NoAddr => datasets[m.ds] # NoKey
    BY DEF NoUseAfterRelease
  <2> DEFINE h == hasher[frame[g].h]
  <2>1. /\ vms[frame[g].vm].c = h.cache /\ vms[frame[g].vm].ds = h.ds /\ ~h.closed
    BY Parts DEF HashOK, HashOf, InHash
  <2>2. frame[g].h \in Hashers /\ IsOpen(frame[g].h) /\ ~Swapping(frame[g].h)
    BY <2>1, Parts, InHashReads DEF InHash
  <2>3. /\ h.cache # NoAddr /\ h.mode \in {"light", "fast"}
        /\ h.mode = "fast"  => h.ds = h.cache
        /\ h.mode = "light" => h.ds = NoAddr
    BY <2>2, Parts DEF HeapOK, PointersOK, Base, TypeOK, HasherStructs
  <2>4. /\ caches[h.cache] # NoKey
        /\ h.mode = "fast" => datasets[h.cache] # NoKey
    BY <2>2, Parts DEF HeapOK, MemoryOK, MemoryOf
  <2> QED
    BY <2>1, <2>3, <2>4
<1> QED
  BY <1>1, Invariant, PTL

(* What Hash returns depends on its input and the key of its hasher alone  *)
(* (randomx.go:141-157, memory.go:45-56, vm.go:39-118).                    *)
THEOREM HashesRight == Spec => []HashOfInputAndKey
<1>1. IInv => HashOfInputAndKey
  BY DEF IInv, HashOK, HashOf, InHash, HashOfInputAndKey
<1> QED
  BY <1>1, Invariant, PTL

(* Every cache and dataset that is alive has an owner that will release it *)
(* (randomx.go:131, 195-199, 203-208, 230-238).                            *)
THEOREM NothingLeaks == Spec => []LiveMemoryOwned
<1>1. IInv => LiveMemoryOwned
  BY DEF IInv
<1> QED
  BY <1>1, Invariant, PTL

(* If callers leave the CacheKey slice they passed to New alone, a hasher  *)
(* holds what its config says (randomx.go:107, 161-217).                   *)
THEOREM ConfigMatches ==
  ASSUME CallerReusesBuffer = FALSE
  PROVE  Spec => []ResourcesMatchConfig
<1>1. IInv => ResourcesMatchConfig
  <2> SUFFICES ASSUME IInv, NEW h \in Hashers, hasher[h].exists, ~Swapping(h)
               PROVE  LET s == hasher[h] IN
                      IF s.closed THEN s.cache = NoAddr /\ s.ds = NoAddr
                      ELSE /\ s.cache # NoAddr /\ s.stored # NoKey
                           /\ caches[s.cache] = s.stored
                           /\ s.mode = "fast"  => s.ds = s.cache /\ datasets[s.ds] = s.stored
                           /\ s.mode = "light" => s.ds = NoAddr
    BY DEF ResourcesMatchConfig
  <2>1. CASE hasher[h].closed
    BY <2>1, Parts DEF HeapOK, PointersOK, IsOpen
  <2>2. CASE ~hasher[h].closed
    <3>1. IsOpen(h)
      BY <2>2 DEF IsOpen
    <3>2. /\ hasher[h].cache # NoAddr /\ hasher[h].stored # NoKey
          /\ hasher[h].mode = "fast"  => hasher[h].ds = hasher[h].cache
          /\ hasher[h].mode = "light" => hasher[h].ds = NoAddr
      BY <3>1, Parts DEF HeapOK, PointersOK
    <3>3. /\ caches[hasher[h].cache] = hasher[h].stored
          /\ hasher[h].mode = "fast" => datasets[hasher[h].cache] = hasher[h].stored
      BY <3>1, Parts DEF HeapOK, MemoryOK, MemoryOf
    <3> QED
      BY <2>2, <3>2, <3>3
  <2> QED
    BY <2>1, <2>2
<1> QED
  BY <1>1, Invariant, PTL

(* Under the same condition an UpdateCacheKey that answers nil has left    *)
(* the hasher with its key (randomx.go:160-162, 179-181, 210-216).         *)
THEOREM UpdatesTakeEffect ==
  ASSUME CallerReusesBuffer = FALSE
  PROVE  Spec => []UpdateTakesEffect
<1>1. IInv => UpdateTakesEffect
  <2> SUFFICES ASSUME IInv, NEW g \in Goroutines, frame[g].op = "update",
                      frame[g].out = OK, pc[g] = "unlock"
               PROVE  caches[hasher[frame[g].h].cache] = frame[g].key
    BY DEF UpdateTakesEffect
  <2>1. IsOpen(frame[g].h) /\ hasher[frame[g].h].stored = frame[g].key
    BY Parts DEF UpdateOK, UpdateOf
  <2>2. frame[g].h \in Hashers
    BY Parts DEF Base, ControlOK, Control
  <2>3. ~Swapping(frame[g].h)
    <3>1. Writes(g) /\ \A o \in Goroutines : pc[o] = "swap" => Writes(o)
      BY DEF Writes
    <3> QED
      BY <3>1, Parts, Alone DEF Swapping
  <2> QED
    BY <2>1, <2>2, <2>3, Parts DEF HeapOK, MemoryOK, MemoryOf
<1> QED
  BY <1>1, Invariant, PTL

-----------------------------------------------------------------------------
(* Hasher implements HasherAPI. *)

(* An update that is building found another key in the config, and nobody  *)
(* writes it before the swap.                                              *)
LacksOf(g) ==
    frame[g].op = "update" /\ pc[g] \in {"buildcache", "builddataset"} =>
        hasher[frame[g].h].stored # frame[g].key

LacksOK == ~CallerReusesBuffer => \A g \in Goroutines : LacksOf(g)

LEMMA LacksInit == Init => LacksOK
  BY DEF Init, LacksOK, LacksOf, NoFrame

LEMMA LacksNext ==
  ASSUME Base, HeapOK, LacksOK, [Next]_vars
  PROVE  LacksOK'
<1> SUFFICES ASSUME ~CallerReusesBuffer, NEW o \in Goroutines
             PROVE  LacksOf(o)'
  BY DEF LacksOK
<1>1. CASE Environment \/ UNCHANGED vars
  <2>1. UNCHANGED <<pc, frame, hasher>>
    BY <1>1 DEF Environment, CallerWritesBuffer, PoolDrop, vars, heapVars, vmVars
  <2> QED
    BY <2>1 DEF LacksOK, LacksOf
<1>2. ASSUME NEW g \in Goroutines, Calls(g) \/ Step(g), o # g
      PROVE  LacksOf(o)'
  <2>1. frame'[o] = frame[o] /\ pc'[o] = pc[o]
    BY <1>2, StepOthers DEF Others
  <2>2. frame[o].op = "update" /\ pc[o] \in {"buildcache", "builddataset"} =>
            hasher'[frame[o].h] = hasher[frame[o].h]
    BY <1>2, OthersHasher DEF Writes
  <2> QED
    BY <2>1, <2>2 DEF LacksOK, LacksOf
<1>3. ASSUME Calls(o) \/ Step(o)
      PROVE  LacksOf(o)'
  <2>1. CASE UpdateNewKey(o)
    <3>1. /\ frame'[o].h = frame[o].h /\ frame'[o].key = frame[o].key /\ hasher' = hasher
      BY <2>1, UpdateNewKeyFacts DEF Base, Turns, ModeEdited
    <3> QED
      BY <2>1, <3>1 DEF UpdateNewKey, LacksKey, LacksOf
  <2>2. CASE NewCache(o)
    <3>1. /\ frame'[o].h = frame[o].h /\ frame'[o].key = frame[o].key
          /\ frame'[o].op = frame[o].op /\ hasher' = hasher /\ pc[o] = "buildcache"
      BY <2>2, NewCacheFacts DEF Base, Turns, CacheEdited
    <3> QED
      BY <3>1 DEF LacksOK, LacksOf
  <2>3. CASE NewAccept(o)
    BY <2>3, NewAcceptFacts, OpsOf DEF Base, Turns, LacksOf
  <2>4. CASE ~UpdateNewKey(o) /\ ~NewCache(o) /\ ~NewAccept(o)
    <3>1. pc'[o] \notin {"buildcache", "builddataset"}
      <4>1. CASE Calls(o) \/ Return(o)
        BY <4>1, CallFacts, ReturnFacts DEF Base, Turns, CallLabels
      <4>2. CASE Locking(o)
        BY <4>2, RLockFacts, RLockedFacts, RUnlockFacts, LockAnnounceFacts, LockedFacts,
           UnlockFacts DEF Base, Locking, Turns, WithReadLock, WithWriteLock
      <4>3. CASE Building(o)
        BY <2>4, <4>3, NewRejectFacts, NewPublishFacts, NewDatasetFacts, NewCacheFailsFacts,
           NewDatasetFailsFacts DEF Base, Building, Turns, AfterBuild, AfterError
      <4>4. CASE Updating(o)
        BY <2>4, <4>4, UpdateAcceptFacts, UpdateRejectFacts, UpdateOnClosedFacts,
           UpdateSameKeyFacts, UpdateReleaseFacts, UpdateSwapFacts, CloseAgainFacts,
           CloseReleaseFacts DEF Base, Updating, Turns
      <4>5. CASE Hashing(o)
        BY <4>5, HashOnOpenFacts, HashOnClosedFacts, PoolGetVMFacts, HashInitFacts,
           HashProgramFacts, HashFinalizeFacts, PoolPutVMFacts, IsReadyReadFacts
           DEF Base, Hashing, Turns
      <4> QED
        BY <1>3, <4>1, <4>2, <4>3, <4>4, <4>5 DEF Step
    <3> QED
      BY <3>1 DEF LacksOf
  <2> QED
    BY <2>1, <2>2, <2>3, <2>4
<1> QED
  BY <1>1, <1>2, <1>3 DEF Next

-----------------------------------------------------------------------------
(* From what a step changes to what the atomic object does.                *)
Edits(g, x) ==
    /\ Others(g) /\ Keeps(frame'[g], frame[g]) /\ frame'[g].out = x
    /\ frame[g].op = "new" => frame'[g].mode = frame[g].mode

LEMMA Unseen ==
  ASSUME NEW g \in Goroutines, Edits(g, frame[g].out),
         \A h \in Hashers : AbstractObj(h)' = AbstractObj(h)
  PROVE  UNCHANGED API!apiVars
<1>1. \A o \in Goroutines : AbstractCall(o)' = AbstractCall(o)
  BY DEF AbstractCall, Edits, Others, Keeps
<1> QED
  BY <1>1 DEF API!apiVars

LEMMA Answering ==
  ASSUME NEW g \in Goroutines, NEW x, Edits(g, x)
  PROVE  API!Answers(g, x)
<1>1. \A o \in Goroutines : o # g => AbstractCall(o)' = AbstractCall(o)
  BY DEF AbstractCall, Edits, Others
<1>2. AbstractCall(g)' = [AbstractCall(g) EXCEPT !.out = x]
  BY DEF AbstractCall, Edits, Keeps
<1> QED
  BY <1>1, <1>2 DEF API!Answers

LEMMA Setting ==
  ASSUME NEW h \in Hashers, NEW x, AbstractObj(h)' = x,
         \A k \in Hashers : k # h => AbstractObj(k)' = AbstractObj(k)
  PROVE  API!Sets(h, x)
  BY DEF API!Sets

LEMMA Waiting ==
  ASSUME Base, NEW g \in Goroutines, pc[g] \notin Answered
  PROVE  API!Pending(g, frame[g].op)
<1>1. frame[g].out = NoOut
  BY DEF Base, ControlOK, Control
<1> QED
  BY <1>1 DEF API!Pending, AbstractCall, NoOut, API!NoOut

LEMMA SameObjects ==
  ASSUME hasher' = hasher
  PROVE  \A h \in Hashers : AbstractObj(h)' = AbstractObj(h)
  BY DEF AbstractObj

(* The effects. *)
LEMMA NewEffects ==
  ASSUME Base, HeapOK, NEW g \in Goroutines, frame[g].op = "new", pc[g] \notin Answered,
         \/ NewReject(g) \/ NewCacheFails(g) \/ NewDatasetFails(g) \/ NewPublish(g)
  PROVE  API!NewEffect(g)
<1>1. API!Pending(g, "new")
  BY Waiting
<1>2. CASE NewReject(g) \/ NewCacheFails(g) \/ NewDatasetFails(g)
  <2>1. Edits(g, Failed) /\ hasher' = hasher
    BY <1>2, NewRejectFacts, NewCacheFailsFacts, NewDatasetFailsFacts
       DEF Base, Turns, OutEdited, DropEdited, Edits, Keeps
  <2>2. API!Answers(g, Failed) /\ \A h \in Hashers : AbstractObj(h)' = AbstractObj(h)
    BY <2>1, Answering, SameObjects
  <2>3. BuildMayFail \/ ~ValidConfig(frame[g])
    BY <1>2 DEF NewReject, NewCacheFails, NewDatasetFails
  <2> QED
    BY <1>1, <2>2, <2>3
       DEF API!NewEffect, API!ValidConfig, ValidConfig, AbstractCall, API!Failed, Failed
<1>3. CASE NewPublish(g)
  <2>1. Edits(g, OK) /\ pc[g] = "publish"
    BY <1>3, NewPublishFacts DEF Base, Turns, HandOverEdited, Edits, Keeps
  <2>2. frame[g].key # NoKey /\ frame[g].mode \in {"light", "fast"}
    BY <2>1 DEF Base, ControlOK, Control, BuildLabels, WithCache
  <2>3. PICK h \in Hashers : h = frame[g].h
    BY DEF Base, ControlOK, Control
  <2>4. /\ hasher'[h] = [exists |-> TRUE, mode |-> frame[g].mode,
                          stored |-> frame[g].key, aliased |-> TRUE,
                          cache |-> frame[g].c, ds |-> frame[g].d, closed |-> FALSE]
        /\ \A k \in Hashers : k # h => hasher'[k] = hasher[k]
    BY <1>3, <2>3, NewPublishHasher
  <2>5. /\ AbstractObj(h)' = API!Open(frame[g].key)
        /\ \A k \in Hashers : k # h => AbstractObj(k)' = AbstractObj(k)
    BY <2>4 DEF AbstractObj, API!Open
  <2>6. API!Answers(g, OK) /\ API!Sets(h, API!Open(frame[g].key))
    BY <2>1, <2>5, Answering, Setting
  <2> QED
    BY <1>1, <2>2, <2>3, <2>6 DEF API!NewEffect, API!ValidConfig, AbstractCall, API!OK, OK
<1> QED
  BY <1>2, <1>3

LEMMA HashEffects ==
  ASSUME ~CallerReusesBuffer, Base, HeapOK, HashOK', NEW g \in Goroutines,
         HashOnClosed(g) \/ HashFinalize(g)
  PROVE  API!HashEffect(g)
<1>1. /\ pc[g] \in {"check", "run"} /\ hasher' = hasher /\ UNCHANGED caches
      /\ frame[g].op = "hash"
  BY HashOnClosedFacts, HashFinalizeFacts, OpsOf DEF Base, Turns
<1>2. API!Pending(g, "hash")
  BY <1>1, Waiting DEF Answered
<1>3. PICK h \in Hashers : h = frame[g].h /\ hasher[h].exists
  BY <1>1 DEF Base, ControlOK, Control, HeapOK, ExistsOK
<1>4. \A k \in Hashers : AbstractObj(k)' = AbstractObj(k)
  BY <1>1, SameObjects
<1>5. CASE HashOnClosed(g)
  <2>1. Edits(g, Panicked)
    BY <1>5, HashOnClosedFacts DEF Base, Turns, OutEdited, Edits, Keeps
  <2>2. AbstractObj(h).status = "closed"
    BY <1>3, <1>5 DEF HashOnClosed, AbstractObj
  <2> QED
    BY <1>2, <1>3, <1>4, <2>1, <2>2, Answering
       DEF API!HashEffect, AbstractCall, API!Panicked, Panicked
<1>6. CASE HashFinalize(g)
  <2>1. /\ OutEdited(frame'[g], frame[g],
               [tag |-> "hash", of |-> vms[frame[g].vm].regs \cup vms[frame[g].vm].mem])
        /\ Others(g) /\ pc'[g] = "putvm"
    BY <1>6, HashFinalizeFacts DEF Base, Turns
  <2>2. frame'[g].out.tag = "hash" /\ frame'[g].h = h /\ frame'[g].input = frame[g].input
    BY <1>3, <2>1 DEF OutEdited
  <2>3. /\ ~hasher[h].closed
        /\ frame'[g].out.of = {frame[g].input, caches[hasher[h].cache]}
    <3>1. HashOf(g)'
      BY DEF HashOK
    <3> QED
      BY <1>1, <2>1, <2>2, <3>1 DEF HashOf, InHash
  <2>4. caches[hasher[h].cache] = hasher[h].stored
    <3>1. ~Swapping(h)
      <4>1. pc[g] \in ReadLabels /\ \A o \in Goroutines : pc[o] = "swap" => Writes(o)
        BY <1>1 DEF ReadLabels, Writes
      <4> QED
        BY <1>3, <4>1, Alone DEF Swapping
    <3> QED
      BY <1>3, <2>3, <3>1 DEF HeapOK, MemoryOK, MemoryOf, IsOpen
  <2>5. AbstractObj(h).status = "open" /\ AbstractObj(h).key = hasher[h].stored
    BY <1>3, <2>3 DEF AbstractObj
  <2>6. frame'[g].out = API!HashOf(hasher[h].stored, frame[g].input)
    <3>1. frame'[g].out = [tag |-> "hash", of |-> frame'[g].out.of]
      BY <2>1 DEF OutEdited
    <3>2. frame'[g].out.of = {hasher[h].stored, frame[g].input}
      BY <2>3, <2>4
    <3> QED
      BY <3>1, <3>2 DEF API!HashOf
  <2>7. API!Answers(g, API!HashOf(hasher[h].stored, frame[g].input))
    <3>1. Edits(g, frame'[g].out)
      BY <2>1 DEF OutEdited, Edits, Keeps
    <3>2. PICK x : x = frame'[g].out
      OBVIOUS
    <3> QED
      BY <2>6, <3>1, <3>2, Answering
  <2>8. AbstractCall(g).h = h /\ AbstractCall(g).input = frame[g].input
    BY <1>3 DEF AbstractCall
  <2> QED
    BY <1>2, <1>3, <1>4, <2>5, <2>7, <2>8 DEF API!HashEffect
<1> QED
  BY <1>5, <1>6

LEMMA IsReadyEffects ==
  ASSUME Base, HeapOK, NEW g \in Goroutines, IsReadyRead(g)
  PROVE  API!IsReadyEffect(g)
<1> DEFINE x == IF hasher[frame[g].h].closed THEN NotReady ELSE Ready
<1>1. pc[g] = "isready" /\ hasher' = hasher /\ Edits(g, x)
  BY IsReadyReadFacts DEF Base, Turns, OutEdited, Edits, Keeps
<1>2. frame[g].op = "isready"
  BY <1>1 DEF Base, TypeOK, Frames, ControlOK, Control, OpLabels, Ops
<1>3. API!Pending(g, "isready")
  BY <1>1, <1>2, Waiting DEF Answered
<1>4. PICK h \in Hashers : h = frame[g].h /\ hasher[h].exists
  BY <1>2 DEF Base, ControlOK, Control, HeapOK, ExistsOK
<1>5. API!Answers(g, x) /\ \A k \in Hashers : AbstractObj(k)' = AbstractObj(k)
  BY <1>1, Answering, SameObjects
<1>6. x = IF AbstractObj(h).status = "open" THEN API!Ready ELSE API!NotReady
  BY <1>4 DEF AbstractObj, Ready, NotReady, API!Ready, API!NotReady
<1>7. AbstractCall(g).h = h
  BY <1>4 DEF AbstractCall
<1> HIDE DEF x
<1> QED
  BY <1>3, <1>4, <1>5, <1>6, <1>7 DEF API!IsReadyEffect

LEMMA CloseEffects ==
  ASSUME Base, HeapOK, NEW g \in Goroutines, CloseAgain(g) \/ CloseRelease(g)
  PROVE  API!CloseEffect(g)
<1>1. pc[g] = "close" /\ Edits(g, OK)
  BY CloseAgainFacts, CloseReleaseFacts DEF Base, Turns, OutEdited, Edits, Keeps
<1>2. frame[g].op = "close"
  BY <1>1, OpsOf
<1>3. API!Pending(g, "close") /\ API!Answers(g, OK)
  BY <1>1, <1>2, Waiting, Answering DEF Answered
<1>4. PICK h \in Hashers : h = frame[g].h /\ hasher[h].exists
  BY <1>2 DEF Base, ControlOK, Control, HeapOK, ExistsOK
<1>5. /\ AbstractObj(h)' = API!Closed
      /\ \A k \in Hashers : k # h => AbstractObj(k)' = AbstractObj(k)
  <2>1. CASE CloseAgain(g)
    <3>1. hasher' = hasher /\ hasher[h].closed
      BY <1>4, <2>1 DEF CloseAgain
    <3> QED
      BY <1>4, <3>1 DEF AbstractObj, API!Closed
  <2>2. CASE CloseRelease(g)
    <3>1. /\ hasher'[h].exists = hasher[h].exists /\ hasher'[h].closed = TRUE
          /\ \A k \in Hashers : k # h => hasher'[k] = hasher[k]
      BY <1>4, <2>2, CloseReleaseHasher
    <3> QED
      BY <1>4, <3>1 DEF AbstractObj, API!Closed
  <2> QED
    BY <2>1, <2>2
<1>6. API!Sets(h, API!Closed)
  BY <1>5, Setting
<1>7. AbstractCall(g).h = h
  BY <1>4 DEF AbstractCall
<1> QED
  BY <1>3, <1>4, <1>6, <1>7 DEF API!CloseEffect, API!OK, OK

LEMMA UpdateEffects ==
  ASSUME ~CallerReusesBuffer, Base, HeapOK, LacksOK, NEW g \in Goroutines,
         frame[g].op = "update", pc[g] \notin Answered,
         \/ UpdateReject(g) \/ UpdateOnClosed(g) \/ UpdateSameKey(g) \/ UpdateSwap(g)
         \/ NewCacheFails(g) \/ NewDatasetFails(g)
  PROVE  API!UpdateEffect(g)
<1>1. API!Pending(g, "update")
  BY Waiting
<1>2. PICK h \in Hashers : h = frame[g].h /\ hasher[h].exists
  BY DEF Base, ControlOK, Control, HeapOK, ExistsOK
<1>3. AbstractCall(g).h = h /\ AbstractCall(g).key = frame[g].key
  BY <1>2 DEF AbstractCall
<1>4. CASE \/ UpdateReject(g) \/ UpdateOnClosed(g) \/ NewCacheFails(g) \/ NewDatasetFails(g)
  <2>1. Edits(g, Failed) /\ hasher' = hasher
    BY <1>4, UpdateRejectFacts, UpdateOnClosedFacts, NewCacheFailsFacts, NewDatasetFailsFacts
       DEF Base, Turns, OutEdited, DropEdited, Edits, Keeps
  <2>2. API!Answers(g, Failed) /\ \A k \in Hashers : AbstractObj(k)' = AbstractObj(k)
    BY <2>1, Answering, SameObjects
  <2>3. \/ frame[g].key = NoKey
        \/ AbstractObj(h).status = "closed"
        \/ BuildMayFail /\ AbstractObj(h).key # frame[g].key
    <3>1. CASE UpdateReject(g)
      BY <3>1 DEF UpdateReject
    <3>2. CASE UpdateOnClosed(g)
      BY <1>2, <3>2 DEF UpdateOnClosed, AbstractObj
    <3>3. CASE NewCacheFails(g) \/ NewDatasetFails(g)
      <4>1. BuildMayFail /\ pc[g] \in {"buildcache", "builddataset"}
        BY <3>3 DEF NewCacheFails, NewDatasetFails, Goto
      <4>2. hasher[h].stored # frame[g].key /\ ~hasher[h].closed
        BY <1>2, <4>1 DEF LacksOK, LacksOf, HeapOK, BuildOK, BuildLabels, WithCache
      <4> QED
        BY <1>2, <4>1, <4>2 DEF AbstractObj
    <3> QED
      BY <1>4, <3>1, <3>2, <3>3
  <2> QED
    BY <1>1, <1>2, <1>3, <2>2, <2>3 DEF API!UpdateEffect, API!Failed, Failed
<1>5. CASE UpdateSameKey(g) \/ UpdateSwap(g)
  <2>1. Edits(g, OK) /\ pc[g] \in {"compare", "swap"}
    BY <1>5, UpdateSameKeyFacts, UpdateSwapFacts
       DEF Base, Turns, OutEdited, HandOverEdited, Edits, Keeps
  <2>2. frame[g].key # NoKey
    BY <2>1 DEF Base, ControlOK, Control, BuildLabels, WithCache
  <2>3. /\ AbstractObj(h).status = "open"
        /\ AbstractObj(h)' = API!Open(frame[g].key)
        /\ \A k \in Hashers : k # h => AbstractObj(k)' = AbstractObj(k)
    <3>1. CASE UpdateSameKey(g)
      <4>1. hasher' = hasher /\ ~hasher[h].closed /\ hasher[h].stored = frame[g].key
        BY <1>2, <3>1 DEF UpdateSameKey, HoldsKey
      <4> QED
        BY <1>2, <4>1 DEF AbstractObj, API!Open
    <3>2. CASE UpdateSwap(g)
      <4>1. ~hasher[h].closed
        BY <1>2, <3>2 DEF UpdateSwap, Goto, HeapOK, BuildOK, BuildLabels, WithCache
      <4>2. /\ hasher'[h].exists = hasher[h].exists /\ hasher'[h].closed = hasher[h].closed
            /\ hasher'[h].stored = frame[g].key
            /\ \A k \in Hashers : k # h => hasher'[k] = hasher[k]
        BY <1>2, <3>2, UpdateSwapHasher
      <4> QED
        BY <1>2, <4>1, <4>2 DEF AbstractObj, API!Open
    <3> QED
      BY <1>5, <3>1, <3>2
  <2>4. API!Answers(g, OK) /\ API!Sets(h, API!Open(frame[g].key))
    BY <2>1, <2>3, Answering, Setting
  <2> QED
    BY <1>1, <1>2, <1>3, <2>2, <2>3, <2>4 DEF API!UpdateEffect, API!OK, OK
<1> QED
  BY <1>4, <1>5

(* Invocations and returns. *)
CallOf(f) ==
    [op |-> f.op, h |-> f.h, key |-> f.key, input |-> f.input, out |-> f.out,
     mode |-> IF f.op = "new" THEN f.mode ELSE "light"]

LEMMA Invocation ==
  ASSUME Base, HeapOK, NEW g \in Goroutines, Calls(g)
  PROVE  API!Invoke(g)
<1>1. pc[g] = "idle" /\ hasher' = hasher
  BY CallFacts DEF Base, Turns
<1>2. AbstractCall(g) = API!NoCall
  <2>1. frame[g] = NoFrame
    BY <1>1, OpsOf DEF Base, ControlOK, Control
  <2> QED
    BY <2>1 DEF AbstractCall, NoFrame, NoOut, API!NoCall, API!NoOut
<1>3. ASSUME NEW h \in Hashers
      PROVE  /\ API!UnderConstruction(h) <=> UnderConstruction(h)
             /\ AbstractObj(h) = API!Absent <=> ~hasher[h].exists
  <2>1. \A o \in Goroutines :
            AbstractCall(o).op = frame[o].op /\ AbstractCall(o).h = frame[o].h
    BY DEF AbstractCall
  <2>2. AbstractObj(h) = API!Absent <=> ~hasher[h].exists
    BY DEF AbstractObj, API!Absent
  <2> QED
    BY <2>1, <2>2 DEF API!UnderConstruction, UnderConstruction
<1>4. \A h \in Hashers : AbstractObj(h)' = AbstractObj(h)
  BY <1>1, SameObjects
<1>5. ASSUME NEW f, NEW c, NEW l, Call(g, f, l), CallOf(f) = c
      PROVE  [o \in Goroutines |-> AbstractCall(o)]' =
                 [[o \in Goroutines |-> AbstractCall(o)] EXCEPT ![g] = c]
  <2>1. frame'[g] = f /\ \A o \in Goroutines : o # g => frame'[o] = frame[o]
    BY <1>5 DEF Call, Locals, Base, TypeOK
  <2>2. AbstractCall(g)' = c
    BY <1>5, <2>1 DEF AbstractCall, CallOf
  <2>3. \A o \in Goroutines : o # g => AbstractCall(o)' = AbstractCall(o)
    BY <2>1 DEF AbstractCall
  <2> QED
    BY <2>2, <2>3
<1> DEFINE Now(c) == [o \in Goroutines |-> AbstractCall(o)]' =
                          [[o \in Goroutines |-> AbstractCall(o)] EXCEPT ![g] = c]
<1>6. CASE CallNew(g)
  <2>1. PICK h \in Hashers, k \in Keys \cup {NoKey}, m \in Modes :
            /\ ~hasher[h].exists /\ ~UnderConstruction(h)
            /\ Call(g, [NoFrame EXCEPT !.op = "new", !.h = h, !.key = k, !.mode = m],
                    "validate")
    BY <1>6 DEF CallNew
  <2>2. CallOf([NoFrame EXCEPT !.op = "new", !.h = h, !.key = k, !.mode = m])
            = API!Calls("new", h, k, m, NoInput)
    BY DEF CallOf, API!Calls, NoFrame, NoOut, API!NoOut
  <2>3. Now(API!Calls("new", h, k, m, NoInput))
    BY <1>5, <2>1, <2>2
  <2> QED
    BY <1>2, <1>3, <1>4, <2>1, <2>3 DEF API!Invoke
<1>7. CASE CallHash(g)
  <2>1. PICK h \in Hashers, i \in Inputs :
            /\ Usable(h)
            /\ Call(g, [NoFrame EXCEPT !.op = "hash", !.h = h, !.input = i], "rlock")
    BY <1>7 DEF CallHash
  <2>2. CallOf([NoFrame EXCEPT !.op = "hash", !.h = h, !.input = i])
            = API!Calls("hash", h, NoKey, "light", i)
    BY DEF CallOf, API!Calls, NoFrame, NoOut, API!NoOut
  <2>3. Now(API!Calls("hash", h, NoKey, "light", i))
    BY <1>5, <2>1, <2>2
  <2> QED
    BY <1>2, <1>3, <1>4, <2>1, <2>3 DEF Usable, API!Invoke
<1>8. CASE CallUpdateCacheKey(g)
  <2>1. PICK h \in Hashers, k \in Keys \cup {NoKey} :
            /\ Usable(h)
            /\ Call(g, [NoFrame EXCEPT !.op = "update", !.h = h, !.key = k], "checkkey")
    BY <1>8 DEF CallUpdateCacheKey
  <2>2. CallOf([NoFrame EXCEPT !.op = "update", !.h = h, !.key = k])
            = API!Calls("update", h, k, "light", NoInput)
    BY DEF CallOf, API!Calls, NoFrame, NoOut, API!NoOut
  <2>3. Now(API!Calls("update", h, k, "light", NoInput))
    BY <1>5, <2>1, <2>2
  <2> QED
    BY <1>2, <1>3, <1>4, <2>1, <2>3 DEF Usable, API!Invoke
<1>9. CASE CallClose(g)
  <2>1. PICK h \in Hashers :
            Usable(h) /\ Call(g, [NoFrame EXCEPT !.op = "close", !.h = h], "lock")
    BY <1>9 DEF CallClose
  <2>2. CallOf([NoFrame EXCEPT !.op = "close", !.h = h])
            = API!Calls("close", h, NoKey, "light", NoInput)
    BY DEF CallOf, API!Calls, NoFrame, NoOut, API!NoOut
  <2>3. Now(API!Calls("close", h, NoKey, "light", NoInput))
    BY <1>5, <2>1, <2>2
  <2> QED
    BY <1>2, <1>3, <1>4, <2>1, <2>3 DEF Usable, API!Invoke
<1>10. CASE CallIsReady(g)
  <2>1. PICK h \in Hashers :
            Usable(h) /\ Call(g, [NoFrame EXCEPT !.op = "isready", !.h = h], "rlock")
    BY <1>10 DEF CallIsReady
  <2>2. CallOf([NoFrame EXCEPT !.op = "isready", !.h = h])
            = API!Calls("isready", h, NoKey, "light", NoInput)
    BY DEF CallOf, API!Calls, NoFrame, NoOut, API!NoOut
  <2>3. Now(API!Calls("isready", h, NoKey, "light", NoInput))
    BY <1>5, <2>1, <2>2
  <2> QED
    BY <1>2, <1>3, <1>4, <2>1, <2>3 DEF Usable, API!Invoke
<1> QED
  BY <1>6, <1>7, <1>8, <1>9, <1>10 DEF Calls

LEMMA Returning ==
  ASSUME Base, NEW g \in Goroutines, Return(g)
  PROVE  API!Return(g)
<1>1. pc[g] = "return" /\ frame'[g] = NoFrame /\ Others(g) /\ hasher' = hasher
  BY ReturnFacts DEF Base, Turns
<1>2. frame[g].out # NoOut /\ frame[g].op # "none"
  BY <1>1, OpsOf DEF Base, ControlOK, Control, Answered
<1>3. AbstractCall(g).op # "none" /\ AbstractCall(g).out # API!NoOut
  BY <1>2 DEF AbstractCall, NoOut, API!NoOut
<1>4. /\ AbstractCall(g)' = API!NoCall
      /\ \A o \in Goroutines : o # g => AbstractCall(o)' = AbstractCall(o)
  BY <1>1 DEF AbstractCall, Others, NoFrame, NoOut, API!NoCall, API!NoOut
<1>5. \A h \in Hashers : AbstractObj(h)' = AbstractObj(h)
  BY <1>1, SameObjects
<1> QED
  BY <1>3, <1>4, <1>5 DEF API!Return

(* Steps that callers do not see. *)
LEMMA Silent ==
  ASSUME Base, NEW g \in Goroutines,
         \/ Locking(g) \/ NewAccept(g) \/ NewCache(g) \/ NewDataset(g)
         \/ UpdateAccept(g) \/ UpdateNewKey(g) \/ UpdateRelease(g)
         \/ HashOnOpen(g) \/ PoolGetVM(g) \/ HashInit(g) \/ HashProgram(g) \/ PoolPutVM(g)
  PROVE  UNCHANGED API!apiVars
<1>1. Edits(g, frame[g].out) /\ hasher' = hasher
  <2>1. CASE Locking(g)
    BY <2>1, RLockFacts, RLockedFacts, RUnlockFacts, LockAnnounceFacts, LockedFacts,
       UnlockFacts DEF Base, Locking, Turns, Edits, Keeps
  <2>2. CASE NewAccept(g) \/ UpdateAccept(g) \/ UpdateRelease(g) \/ HashOnOpen(g)
    BY <2>2, NewAcceptFacts, UpdateAcceptFacts, UpdateReleaseFacts, HashOnOpenFacts
       DEF Base, Turns, Edits, Keeps
  <2>3. CASE NewCache(g)
    BY <2>3, NewCacheFacts DEF Base, Turns, CacheEdited, Edits, Keeps
  <2>4. CASE NewDataset(g)
    BY <2>4, NewDatasetFacts DEF Base, Turns, DatasetEdited, Edits, Keeps
  <2>5. CASE UpdateNewKey(g)
    BY <2>5, UpdateNewKeyFacts, OpsOf DEF Base, Turns, ModeEdited, Edits, Keeps
  <2>6. CASE PoolGetVM(g)
    BY <2>6, PoolGetVMFacts DEF Base, Turns, VMEdited, Edits, Keeps
  <2>7. CASE PoolPutVM(g)
    BY <2>7, PoolPutVMFacts DEF Base, Turns, VMEdited, Edits, Keeps
  <2>8. CASE HashInit(g)
    BY <2>8, HashInitFacts DEF Base, Turns, LeftEdited, Edits, Keeps
  <2>9. CASE HashProgram(g)
    BY <2>9, HashProgramFacts DEF Base, Turns, LeftEdited, Edits, Keeps
  <2> QED
    BY <2>1, <2>2, <2>3, <2>4, <2>5, <2>6, <2>7, <2>8, <2>9
<1> QED
  BY <1>1, SameObjects, Unseen

LEMMA StepImplements ==
  ASSUME ~CallerReusesBuffer, Base, HeapOK, LacksOK, HashOK', [Next]_vars
  PROVE  [API!APINext]_(API!apiVars)
<1>1. CASE Environment \/ UNCHANGED vars
  <2>1. UNCHANGED <<frame, hasher>>
    BY <1>1 DEF Environment, CallerWritesBuffer, PoolDrop, vars, heapVars, vmVars
  <2>2. /\ \A g \in Goroutines : AbstractCall(g)' = AbstractCall(g)
        /\ \A h \in Hashers : AbstractObj(h)' = AbstractObj(h)
    BY <2>1 DEF AbstractCall, AbstractObj
  <2> QED
    BY <2>2 DEF API!apiVars
<1>2. ASSUME NEW g \in Goroutines, Calls(g) \/ Step(g)
      PROVE  [API!APINext]_(API!apiVars)
  <2>1. CASE Calls(g) \/ Return(g)
    BY <2>1, Invocation, Returning DEF API!APINext
  <2>2. CASE Locking(g)
    BY <2>2, Silent
  <2>3. CASE Building(g)
    <3>1. CASE NewAccept(g) \/ NewCache(g) \/ NewDataset(g)
      BY <3>1, Silent
    <3>2. CASE NewReject(g) \/ NewPublish(g) \/ NewCacheFails(g) \/ NewDatasetFails(g)
      <4>1. pc[g] \in {"validate", "publish", "buildcache", "builddataset"}
        BY <3>2 DEF NewReject, NewPublish, NewCacheFails, NewDatasetFails, Goto
      <4>2. /\ pc[g] \notin Answered /\ frame[g].op \in {"new", "update"}
            /\ frame[g].op = "update" => NewCacheFails(g) \/ NewDatasetFails(g)
        BY <3>2, <4>1, OpsOf
           DEF Answered, BuildLabels, WithCache, NewReject, NewPublish, Goto
      <4> QED
        BY <3>2, <4>2, NewEffects, UpdateEffects DEF API!APINext
    <3> QED
      BY <2>3, <3>1, <3>2 DEF Building
  <2>4. CASE Updating(g)
    <3>1. CASE UpdateAccept(g) \/ UpdateNewKey(g) \/ UpdateRelease(g)
      BY <3>1, Silent
    <3>2. CASE UpdateReject(g) \/ UpdateOnClosed(g) \/ UpdateSameKey(g) \/ UpdateSwap(g)
      <4>1. pc[g] \in {"checkkey", "compare", "swap"}
        BY <3>2 DEF UpdateReject, UpdateOnClosed, UpdateSameKey, UpdateSwap, Goto
      <4>2. pc[g] \notin Answered /\ frame[g].op = "update"
        BY <4>1, OpsOf DEF Answered
      <4> QED
        BY <3>2, <4>2, UpdateEffects DEF API!APINext
    <3>3. CASE CloseAgain(g) \/ CloseRelease(g)
      BY <3>3, CloseEffects DEF API!APINext
    <3> QED
      BY <2>4, <3>1, <3>2, <3>3 DEF Updating
  <2>5. CASE Hashing(g)
    <3>1. CASE \/ HashOnOpen(g) \/ PoolGetVM(g) \/ HashInit(g) \/ HashProgram(g)
               \/ PoolPutVM(g)
      BY <3>1, Silent
    <3>2. CASE HashOnClosed(g) \/ HashFinalize(g)
      BY <3>2, HashEffects DEF API!APINext
    <3>3. CASE IsReadyRead(g)
      BY <3>3, IsReadyEffects DEF API!APINext
    <3> QED
      BY <2>5, <3>1, <3>2, <3>3 DEF Hashing
  <2> QED
    BY <1>2, <2>1, <2>2, <2>3, <2>4, <2>5 DEF Step
<1> QED
  BY <1>1, <1>2 DEF Next

LEMMA InitImplements == Init => API!APIInit
<1> SUFFICES ASSUME Init PROVE API!APIInit
  OBVIOUS
<1>1. \A g \in Goroutines : AbstractCall(g) = API!NoCall
  BY DEF Init, AbstractCall, NoFrame, NoOut, API!NoCall, API!NoOut
<1>2. \A h \in Hashers : AbstractObj(h) = API!Absent
  BY DEF Init, AbstractObj, AbsentHasher, API!Absent
<1> QED
  BY <1>1, <1>2 DEF API!APIInit

(* If callers leave the CacheKey slice they passed to New alone, every     *)
(* interleaving of calls is one of the atomic object: each call takes      *)
(* effect at one instant inside it (randomx.go:96-244).                    *)
THEOREM Atomic ==
  ASSUME CallerReusesBuffer = FALSE
  PROVE  Spec => ImplementsAPI
<1>1. Spec => []LacksOK
  <2>1. IInv /\ LacksOK /\ [Next]_vars => LacksOK'
    BY LacksNext, Parts
  <2> QED
    BY <2>1, LacksInit, Invariant, PTL DEF Spec
<1>2. IInv /\ IInv' /\ LacksOK /\ [Next]_vars => [API!APINext]_(API!apiVars)
  <2>1. IInv' => HashOK'
    BY DEF IInv
  <2> QED
    BY <2>1, StepImplements, Parts
<1> QED
  BY <1>1, <1>2, InitImplements, Invariant, PTL DEF Spec, ImplementsAPI, API!APISpec
=============================================================================
