------------------------------- MODULE Hasher -------------------------------
(***************************************************************************)
(* The Hasher of package randomx: goroutines that call New, Hash,          *)
(* UpdateCacheKey, Close and IsReady on shared hashers (randomx.go), the   *)
(* caches and datasets those calls allocate and release (cache.go,         *)
(* dataset.go), and the package-wide pool of virtual machines that every   *)
(* hasher draws from (memory.go, vm.go).                                   *)
(*                                                                         *)
(* A cache or dataset is an address whose contents are the key they were   *)
(* generated from, NoKey once released.  A dataset has the address of the  *)
(* cache it was generated from: each cache has at most one.  What a        *)
(* register, the scratchpad or a generator holds is abstracted to the set  *)
(* of inputs and keys it was computed from, which is what tells a right    *)
(* hash from one that mixes in another call's data.                        *)
(***************************************************************************)
EXTENDS Naturals, RWMutex

CONSTANTS
    Hashers, NoHasher,
    Keys, NoKey,            \* cache keys, and the empty byte slice
    Inputs, NoInput,
    Modes,                  \* what callers put in Config.Mode
    Addrs, NoAddr,          \* names of caches and datasets; nil
    VMs, NoVM,              \* names of virtual machines; nil
    Used,                   \* the operations callers use
    Programs,               \* programCount of run, 8 in the code
    BuildMayFail,           \* newCache and newDataset may return an error
    CallerReusesBuffer      \* the caller of New writes its CacheKey slice again

ASSUME ProgramsAssumption == Programs \in Nat \ {0}
ASSUME NoneAssumption ==
    /\ NoHasher \notin Hashers /\ NoKey \notin Keys /\ NoInput \notin Inputs
    /\ NoAddr \notin Addrs /\ NoVM \notin VMs
ASSUME NamesAssumption == Addrs \subseteq Nat /\ VMs \subseteq Nat
ASSUME DataAssumption == Keys \cap Inputs = {} /\ NoKey \notin Inputs
ASSUME FlagsAssumption ==
    BuildMayFail \in BOOLEAN /\ CallerReusesBuffer \in BOOLEAN

VARIABLES
    pc,         \* pc[g]: where goroutine g is in its call
    frame,      \* frame[g]: the arguments, locals and result of that call
    hasher,     \* hasher[h]: the struct Hasher, without its lock
    mu,         \* mu[h]: Hasher.mu
    caches,     \* caches[a]: the key the cache at a was generated from
    datasets,   \* datasets[a]: likewise for the dataset made from that cache
    vms,        \* vms[v]: the struct virtualMachine
    pool        \* vmPool: the idle virtual machines

vars == <<pc, frame, hasher, mu, caches, datasets, vms, pool>>

(* Names are arbitrary: of those that are free the allocator takes the     *)
(* least.                                                                  *)
Least(S) == {x \in S : \A y \in S : x <= y}

(* What a call answers. *)
NoOut    == [tag |-> "none",     of |-> {}]
OK       == [tag |-> "ok",       of |-> {}]
Failed   == [tag |-> "error",    of |-> {}]
Panicked == [tag |-> "panic",    of |-> {}]
Ready    == [tag |-> "ready",    of |-> {}]
NotReady == [tag |-> "notready", of |-> {}]

NoFrame == [op |-> "none", h |-> NoHasher, key |-> NoKey, mode |-> "light",
            input |-> NoInput, vm |-> NoVM, left |-> 0, c |-> NoAddr,
            d |-> NoAddr, out |-> NoOut]

AbsentHasher == [exists |-> FALSE, mode |-> "light", stored |-> NoKey,
                 aliased |-> FALSE, cache |-> NoAddr, ds |-> NoAddr,
                 closed |-> FALSE]

NewVM == [c |-> NoAddr, ds |-> NoAddr, regs |-> {}, mem |-> {}, gen |-> {}]

Init ==
    /\ pc = [g \in Goroutines |-> "idle"]
    /\ frame = [g \in Goroutines |-> NoFrame]
    /\ hasher = [h \in Hashers |-> AbsentHasher]
    /\ mu = [h \in Hashers |-> UnlockedMutex]
    /\ caches = [a \in Addrs |-> NoKey]
    /\ datasets = [a \in Addrs |-> NoKey]
    /\ vms = [v \in VMs |-> NewVM]
    /\ pool = {}

-----------------------------------------------------------------------------
(* Moves of a goroutine. *)
Goto(g, from, to) == pc[g] = from /\ pc' = [pc EXCEPT ![g] = to]
Locals(g, f) == frame' = [frame EXCEPT ![g] = f]
Answer(g, out) == Locals(g, [frame[g] EXCEPT !.out = out])

heapVars == <<caches, datasets>>
vmVars == <<vms, pool>>

-----------------------------------------------------------------------------
(* The calls.  A hasher exists for its callers once New has returned it. *)
UnderConstruction(h) ==
    \E g \in Goroutines : frame[g].op = "new" /\ frame[g].h = h
Usable(h) == hasher[h].exists /\ ~UnderConstruction(h)

Call(g, args, start) ==
    /\ Goto(g, "idle", start)
    /\ args.op \in Used
    /\ Locals(g, args)
    /\ UNCHANGED <<hasher, mu, heapVars, vmVars>>

CallNew(g) ==
    \E h \in Hashers, k \in Keys \cup {NoKey}, m \in Modes :
        /\ ~hasher[h].exists /\ ~UnderConstruction(h)
        /\ Call(g, [NoFrame EXCEPT !.op = "new", !.h = h, !.key = k, !.mode = m],
                "validate")

CallHash(g) ==
    \E h \in Hashers, i \in Inputs :
        /\ Usable(h)
        /\ Call(g, [NoFrame EXCEPT !.op = "hash", !.h = h, !.input = i], "rlock")

CallUpdateCacheKey(g) ==
    \E h \in Hashers, k \in Keys \cup {NoKey} :
        /\ Usable(h)
        /\ Call(g, [NoFrame EXCEPT !.op = "update", !.h = h, !.key = k],
                "checkkey")

CallClose(g) ==
    \E h \in Hashers :
        /\ Usable(h)
        /\ Call(g, [NoFrame EXCEPT !.op = "close", !.h = h], "lock")

CallIsReady(g) ==
    \E h \in Hashers :
        /\ Usable(h)
        /\ Call(g, [NoFrame EXCEPT !.op = "isready", !.h = h], "rlock")

Return(g) ==
    /\ Goto(g, "return", "idle")
    /\ Locals(g, NoFrame)
    /\ UNCHANGED <<hasher, mu, heapVars, vmVars>>

-----------------------------------------------------------------------------
(* h.mu.  The deferred unlocks run after every other step of their call. *)
WithReadLock(g) == IF frame[g].op = "hash" THEN "check" ELSE "isready"
WithWriteLock(g) == IF frame[g].op = "update" THEN "compare" ELSE "close"

RLock(g) ==
    LET h == frame[g].h IN
    /\ Goto(g, "rlock", "rwait")
    /\ mu' = [mu EXCEPT ![h] = RLockBy(mu[h], g)]
    /\ UNCHANGED <<frame, hasher, heapVars, vmVars>>

RLocked(g) ==
    /\ Goto(g, "rwait", WithReadLock(g))
    /\ g \in mu[frame[g].h].readers
    /\ UNCHANGED <<frame, hasher, mu, heapVars, vmVars>>

RUnlock(g) ==
    LET h == frame[g].h IN
    /\ Goto(g, "runlock", "return")
    /\ mu' = [mu EXCEPT ![h] = RUnlockBy(mu[h], g)]
    /\ UNCHANGED <<frame, hasher, heapVars, vmVars>>

LockAnnounce(g) ==
    LET h == frame[g].h IN
    /\ Goto(g, "lock", "drain")
    /\ CanAnnounce(mu[h])
    /\ mu' = [mu EXCEPT ![h] = AnnounceBy(mu[h], g)]
    /\ UNCHANGED <<frame, hasher, heapVars, vmVars>>

(* Mutant: a Lock that does not wait for the readers inside. *)
LockedUndrained(g) ==
    /\ Goto(g, "drain", WithWriteLock(g))
    /\ UNCHANGED <<frame, hasher, mu, heapVars, vmVars>>

Locked(g) ==
    /\ Goto(g, "drain", WithWriteLock(g))
    /\ Drained(mu[frame[g].h])
    /\ UNCHANGED <<frame, hasher, mu, heapVars, vmVars>>

Unlock(g) ==
    LET h == frame[g].h IN
    /\ Goto(g, "unlock", "return")
    /\ mu' = [mu EXCEPT ![h] = UnlockBy(mu[h])]
    /\ UNCHANGED <<frame, hasher, heapVars, vmVars>>

-----------------------------------------------------------------------------
(* newCache and newDataset, as New and UpdateCacheKey call them.  A new    *)
(* object has an address that nothing in the program refers to.            *)
Referenced ==
    {frame[g].c : g \in Goroutines}
        \cup {hasher[h].cache : h \in Hashers} \cup {hasher[h].ds : h \in Hashers}
        \cup {vms[v].c : v \in VMs} \cup {vms[v].ds : v \in VMs}

FreshAddrs ==
    {a \in Addrs \ Referenced : caches[a] = NoKey /\ datasets[a] = NoKey}

AfterBuild(g) == IF frame[g].op = "new" THEN "publish" ELSE "release"
AfterError(g) == IF frame[g].op = "new" THEN "return" ELSE "unlock"

NewCache(g) ==
    /\ Goto(g, "buildcache",
            IF frame[g].mode = "fast" THEN "builddataset" ELSE AfterBuild(g))
    /\ \E a \in Least(FreshAddrs) :
          /\ caches' = [caches EXCEPT ![a] = frame[g].key]
          /\ Locals(g, [frame[g] EXCEPT !.c = a])
    /\ UNCHANGED <<hasher, mu, datasets, vmVars>>

NewCacheFails(g) ==
    /\ BuildMayFail
    /\ Goto(g, "buildcache", AfterError(g))
    /\ Answer(g, Failed)
    /\ UNCHANGED <<hasher, mu, heapVars, vmVars>>

NewDataset(g) ==
    LET c == frame[g].c IN
    /\ Goto(g, "builddataset", AfterBuild(g))
    /\ datasets' = [datasets EXCEPT ![c] = caches[c]]
    /\ Locals(g, [frame[g] EXCEPT !.d = c])
    /\ UNCHANGED <<hasher, mu, caches, vmVars>>

(* Mutant: the error path that forgets newCache.release(). *)
NewDatasetFailsKeepingCache(g) ==
    /\ BuildMayFail
    /\ Goto(g, "builddataset", AfterError(g))
    /\ Locals(g, [frame[g] EXCEPT !.c = NoAddr, !.out = Failed])
    /\ UNCHANGED <<hasher, mu, heapVars, vmVars>>

(* release of a cache or dataset; nothing when the pointer is nil. *)
Release(heap, p) == [a \in Addrs |-> IF a = p THEN NoKey ELSE heap[a]]

NewDatasetFails(g) ==
    /\ BuildMayFail
    /\ Goto(g, "builddataset", AfterError(g))
    /\ caches' = Release(caches, frame[g].c)
    /\ Locals(g, [frame[g] EXCEPT !.c = NoAddr, !.out = Failed])
    /\ UNCHANGED <<hasher, mu, datasets, vmVars>>

-----------------------------------------------------------------------------
(* New.  The Config it keeps holds the caller's own CacheKey slice. *)

(* Mutant: Validate that does not look at the mode. *)
ValidConfigAnyMode(f) == f.key # NoKey

ValidConfig(f) == f.key # NoKey /\ f.mode \in {"light", "fast"}

NewAccept(g) ==
    /\ Goto(g, "validate", "buildcache")
    /\ ValidConfig(frame[g])
    /\ UNCHANGED <<frame, hasher, mu, heapVars, vmVars>>

NewReject(g) ==
    /\ Goto(g, "validate", "return")
    /\ ~ValidConfig(frame[g])
    /\ Answer(g, Failed)
    /\ UNCHANGED <<hasher, mu, heapVars, vmVars>>

NewPublish(g) ==
    LET f == frame[g] IN
    /\ Goto(g, "publish", "return")
    /\ hasher' = [hasher EXCEPT ![f.h] =
                     [exists |-> TRUE, mode |-> f.mode, stored |-> f.key,
                      aliased |-> TRUE, cache |-> f.c, ds |-> f.d,
                      closed |-> FALSE]]
    /\ Locals(g, [f EXCEPT !.c = NoAddr, !.d = NoAddr, !.out = OK])
    /\ UNCHANGED <<mu, heapVars, vmVars>>

(* The caller of New puts another key into the slice it passed. *)
CallerWritesBuffer(h) ==
    /\ CallerReusesBuffer
    /\ hasher[h].exists /\ hasher[h].aliased
    /\ \E k \in Keys : hasher' = [hasher EXCEPT ![h].stored = k]
    /\ UNCHANGED <<pc, frame, mu, heapVars, vmVars>>

-----------------------------------------------------------------------------
(* The virtual machine a hash runs on. *)

(* Clears registers and scratchpad; leaves ds, c and the generator. *)
Reset(m) == [m EXCEPT !.regs = {}, !.mem = {}]

(* Mutant: init that keeps a dataset pointer when the hasher has none. *)
InitVMKeepingDataset(m, ds, c) ==
    Reset([m EXCEPT !.c = c, !.ds = IF ds = NoAddr THEN m.ds ELSE ds])

InitVM(m, ds, c) == Reset([m EXCEPT !.ds = ds, !.c = c])

(* initialize fills the whole scratchpad and makes a new generator. *)
Initialize(m, input) == [m EXCEPT !.mem = {input}, !.gen = {input}]

(* mixDataset: a stored item, or one computed from the cache. *)
DatasetItem(m) ==
    IF m.ds # NoAddr THEN {datasets[m.ds]}
    ELSE IF m.c # NoAddr THEN {caches[m.c]} ELSE {}

(* One program: generated from the generator, run over registers and       *)
(* scratchpad with dataset items mixed in, then reseeding the generator.   *)
ProgramRun(m) ==
    LET all == m.regs \cup m.mem \cup m.gen \cup DatasetItem(m)
    IN  [m EXCEPT !.regs = all, !.mem = all, !.gen = all]

-----------------------------------------------------------------------------
(* Hash, with the read lock held. *)
HashOnOpen(g) ==
    /\ Goto(g, "check", "getvm")
    /\ ~hasher[frame[g].h].closed
    /\ UNCHANGED <<frame, hasher, mu, heapVars, vmVars>>

(* Mutant: a panic that is not followed by the deferred RUnlock. *)
HashOnClosedKeepingLock(g) ==
    /\ Goto(g, "check", "return")
    /\ hasher[frame[g].h].closed
    /\ Answer(g, Panicked)
    /\ UNCHANGED <<hasher, mu, heapVars, vmVars>>

HashOnClosed(g) ==
    /\ Goto(g, "check", "runlock")
    /\ hasher[frame[g].h].closed
    /\ Answer(g, Panicked)
    /\ UNCHANGED <<hasher, mu, heapVars, vmVars>>

(* Machines that vmPool.New has still to make. *)
UnmadeVMs == {v \in VMs \ pool : \A o \in Goroutines : frame[o].vm # v}

(* Mutant: Get that leaves the machine in the pool for others. *)
PoolGetVMShared(g) ==
    /\ Goto(g, "getvm", "init")
    /\ \E v \in pool \cup Least(UnmadeVMs) :
          /\ vms' = [vms EXCEPT ![v] = Reset(vms[v])]
          /\ Locals(g, [frame[g] EXCEPT !.vm = v])
    /\ UNCHANGED <<hasher, mu, heapVars, pool>>

(* poolGetVM: an idle machine or a new one, reset. *)
PoolGetVM(g) ==
    /\ Goto(g, "getvm", "init")
    /\ \E v \in pool \cup Least(UnmadeVMs) :
          /\ pool' = pool \ {v}
          /\ vms' = [vms EXCEPT ![v] = Reset(vms[v])]
          /\ Locals(g, [frame[g] EXCEPT !.vm = v])
    /\ UNCHANGED <<hasher, mu, heapVars>>

HashInit(g) ==
    LET v == frame[g].vm
        h == hasher[frame[g].h]
    IN  /\ Goto(g, "init", "run")
        /\ vms' = [vms EXCEPT ![v] =
                      Initialize(InitVM(vms[v], h.ds, h.cache), frame[g].input)]
        /\ Locals(g, [frame[g] EXCEPT !.left = Programs])
        /\ UNCHANGED <<hasher, mu, heapVars, pool>>

HashProgram(g) ==
    LET v == frame[g].vm IN
    /\ Goto(g, "run", "run")
    /\ frame[g].left > 0
    /\ vms' = [vms EXCEPT ![v] = ProgramRun(vms[v])]
    /\ Locals(g, [frame[g] EXCEPT !.left = frame[g].left - 1])
    /\ UNCHANGED <<hasher, mu, heapVars, pool>>

HashFinalize(g) ==
    LET m == vms[frame[g].vm] IN
    /\ Goto(g, "run", "putvm")
    /\ frame[g].left = 0
    /\ Answer(g, [tag |-> "hash", of |-> m.regs \cup m.mem])
    /\ UNCHANGED <<hasher, mu, heapVars, vmVars>>

PoolPutVM(g) ==
    /\ Goto(g, "putvm", "runlock")
    /\ pool' = pool \cup {frame[g].vm}
    /\ Locals(g, [frame[g] EXCEPT !.vm = NoVM])
    /\ UNCHANGED <<hasher, mu, heapVars, vms>>

(* The garbage collector empties a sync.Pool; a machine of that name is    *)
(* then one that vmPool.New has still to make.                             *)
PoolDrop(v) ==
    /\ v \in pool
    /\ pool' = pool \ {v}
    /\ vms' = [vms EXCEPT ![v] = NewVM]
    /\ UNCHANGED <<pc, frame, hasher, mu, heapVars>>

-----------------------------------------------------------------------------
(* UpdateCacheKey, with the write lock held from "compare" on. *)
UpdateAccept(g) ==
    /\ Goto(g, "checkkey", "lock")
    /\ frame[g].key # NoKey
    /\ UNCHANGED <<frame, hasher, mu, heapVars, vmVars>>

UpdateReject(g) ==
    /\ Goto(g, "checkkey", "return")
    /\ frame[g].key = NoKey
    /\ Answer(g, Failed)
    /\ UNCHANGED <<hasher, mu, heapVars, vmVars>>

UpdateOnClosed(g) ==
    /\ Goto(g, "compare", "unlock")
    /\ hasher[frame[g].h].closed
    /\ Answer(g, Failed)
    /\ UNCHANGED <<hasher, mu, heapVars, vmVars>>

HoldsKey(g) ==
    LET h == hasher[frame[g].h] IN ~h.closed /\ h.stored = frame[g].key
LacksKey(g) ==
    LET h == hasher[frame[g].h] IN ~h.closed /\ h.stored # frame[g].key

(* Mutant: an early return for the same key that keeps the lock. *)
UpdateSameKeyKeepingLock(g) ==
    /\ Goto(g, "compare", "return")
    /\ HoldsKey(g)
    /\ Answer(g, OK)
    /\ UNCHANGED <<hasher, mu, heapVars, vmVars>>

UpdateSameKey(g) ==
    /\ Goto(g, "compare", "unlock")
    /\ HoldsKey(g)
    /\ Answer(g, OK)
    /\ UNCHANGED <<hasher, mu, heapVars, vmVars>>

UpdateNewKey(g) ==
    /\ Goto(g, "compare", "buildcache")
    /\ LacksKey(g)
    /\ Locals(g, [frame[g] EXCEPT !.mode = hasher[frame[g].h].mode])
    /\ UNCHANGED <<hasher, mu, heapVars, vmVars>>

UpdateRelease(g) ==
    LET h == hasher[frame[g].h] IN
    /\ Goto(g, "release", "swap")
    /\ datasets' = Release(datasets, h.ds)
    /\ caches' = Release(caches, h.cache)
    /\ UNCHANGED <<frame, hasher, mu, vmVars>>

(* Mutant: the swap that leaves the old dataset in place. *)
UpdateSwapCacheOnly(g) ==
    LET f == frame[g] IN
    /\ Goto(g, "swap", "unlock")
    /\ hasher' = [hasher EXCEPT ![f.h] =
                     [@ EXCEPT !.cache = f.c, !.stored = f.key, !.aliased = FALSE]]
    /\ Locals(g, [f EXCEPT !.c = NoAddr, !.d = NoAddr, !.out = OK])
    /\ UNCHANGED <<mu, heapVars, vmVars>>

(* Mutant: the swap that forgets to record the new key. *)
UpdateSwapOldKey(g) ==
    LET f == frame[g] IN
    /\ Goto(g, "swap", "unlock")
    /\ hasher' = [hasher EXCEPT ![f.h] = [@ EXCEPT !.cache = f.c, !.ds = f.d]]
    /\ Locals(g, [f EXCEPT !.c = NoAddr, !.d = NoAddr, !.out = OK])
    /\ UNCHANGED <<mu, heapVars, vmVars>>

UpdateSwap(g) ==
    LET f == frame[g] IN
    /\ Goto(g, "swap", "unlock")
    /\ hasher' = [hasher EXCEPT ![f.h] =
                     [@ EXCEPT !.cache = f.c, !.ds = f.d,
                               !.stored = f.key, !.aliased = FALSE]]
    /\ Locals(g, [f EXCEPT !.c = NoAddr, !.d = NoAddr, !.out = OK])
    /\ UNCHANGED <<mu, heapVars, vmVars>>

-----------------------------------------------------------------------------
(* Close and IsReady. *)
CloseAgain(g) ==
    /\ Goto(g, "close", "unlock")
    /\ hasher[frame[g].h].closed
    /\ Answer(g, OK)
    /\ UNCHANGED <<hasher, mu, heapVars, vmVars>>

CloseRelease(g) ==
    LET h == frame[g].h IN
    /\ Goto(g, "close", "unlock")
    /\ ~hasher[h].closed
    /\ datasets' = Release(datasets, hasher[h].ds)
    /\ caches' = Release(caches, hasher[h].cache)
    /\ hasher' = [hasher EXCEPT ![h] =
                     [@ EXCEPT !.closed = TRUE, !.ds = NoAddr, !.cache = NoAddr]]
    /\ Answer(g, OK)
    /\ UNCHANGED <<mu, vmVars>>

IsReadyRead(g) ==
    /\ Goto(g, "isready", "runlock")
    /\ Answer(g, IF hasher[frame[g].h].closed THEN NotReady ELSE Ready)
    /\ UNCHANGED <<hasher, mu, heapVars, vmVars>>

-----------------------------------------------------------------------------
Calls(g) ==
    CallNew(g) \/ CallHash(g) \/ CallUpdateCacheKey(g) \/ CallClose(g) \/ CallIsReady(g)

Locking(g) ==
    RLock(g) \/ RLocked(g) \/ RUnlock(g) \/ LockAnnounce(g) \/ Locked(g) \/ Unlock(g)

Building(g) ==
    \/ NewAccept(g) \/ NewReject(g) \/ NewPublish(g)
    \/ NewCache(g) \/ NewCacheFails(g) \/ NewDataset(g) \/ NewDatasetFails(g)

Updating(g) ==
    \/ UpdateAccept(g) \/ UpdateReject(g) \/ UpdateOnClosed(g) \/ UpdateSameKey(g)
    \/ UpdateNewKey(g) \/ UpdateRelease(g) \/ UpdateSwap(g)
    \/ CloseAgain(g) \/ CloseRelease(g)

Hashing(g) ==
    \/ HashOnOpen(g) \/ HashOnClosed(g) \/ PoolGetVM(g) \/ HashInit(g)
    \/ HashProgram(g) \/ HashFinalize(g) \/ PoolPutVM(g) \/ IsReadyRead(g)

(* A step of a call that has begun. *)
Step(g) ==
    Locking(g) \/ Building(g) \/ Updating(g) \/ Hashing(g) \/ Return(g)

Environment ==
    \/ \E h \in Hashers : CallerWritesBuffer(h)
    \/ \E v \in VMs : PoolDrop(v)

Next == (\E g \in Goroutines : Calls(g) \/ Step(g)) \/ Environment

Spec == Init /\ [][Next]_vars

(* The scheduler runs every runnable goroutine.  Lock wins the inner mutex *)
(* if it is released again and again, which sync.Mutex ensures: a waiter   *)
(* that has starved for a millisecond is handed the mutex.  Calls need not *)
(* be made.                                                                *)
Fairness == \A g \in Goroutines : WF_vars(Step(g)) /\ SF_vars(LockAnnounce(g))

FairSpec == Spec /\ Fairness
=============================================================================
