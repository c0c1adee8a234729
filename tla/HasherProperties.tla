------------------------- MODULE HasherProperties -------------------------
(***************************************************************************)
(* What makes Hasher correct.  The type invariant, the safety invariants,  *)
(* that Hasher implements the atomic object of HasherAPI, and that every   *)
(* call returns.                                                           *)
(***************************************************************************)
EXTENDS Hasher

Labels ==
    {"idle", "validate", "buildcache", "builddataset", "publish", "return",
     "rlock", "rwait", "check", "getvm", "init", "run", "putvm", "isready",
     "runlock", "checkkey", "lock", "drain", "compare", "release", "swap",
     "close", "unlock"}

Ops == {"none", "new", "hash", "update", "close", "isready"}
Tags == {"none", "ok", "error", "panic", "ready", "notready", "hash"}
Data == Keys \cup {NoKey} \cup Inputs \cup {NoInput}

Outcomes == [tag : Tags, of : SUBSET Data]

Frames == [op : Ops, h : Hashers \cup {NoHasher}, key : Keys \cup {NoKey},
           mode : Modes \cup {"light", "fast"}, input : Inputs \cup {NoInput},
           vm : VMs \cup {NoVM}, left : 0..Programs, c : Addrs \cup {NoAddr},
           d : Addrs \cup {NoAddr}, out : Outcomes]

HasherStructs == [exists : BOOLEAN, mode : {"light", "fast"},
                  stored : Keys \cup {NoKey}, aliased : BOOLEAN,
                  cache : Addrs \cup {NoAddr}, ds : Addrs \cup {NoAddr},
                  closed : BOOLEAN]

VMStructs == [c : Addrs \cup {NoAddr}, ds : Addrs \cup {NoAddr},
              regs : SUBSET Data, mem : SUBSET Data, gen : SUBSET Data]

(* Every variable holds what its Go type and use allow. *)
TypeOK ==
    /\ pc \in [Goroutines -> Labels]
    /\ frame \in [Goroutines -> Frames]
    /\ hasher \in [Hashers -> HasherStructs]
    /\ mu \in [Hashers -> Mutexes]
    /\ caches \in [Addrs -> Keys \cup {NoKey}]
    /\ datasets \in [Addrs -> Keys \cup {NoKey}]
    /\ vms \in [VMs -> VMStructs]
    /\ pool \in SUBSET VMs

-----------------------------------------------------------------------------
(* Where a call of each operation can be. *)
OpLabels(op) ==
    CASE op = "none"    -> {"idle"}
      [] op = "new"     -> {"validate", "buildcache", "builddataset", "publish", "return"}
      [] op = "hash"    -> {"rlock", "rwait", "check", "getvm", "init", "run", "putvm",
                            "runlock", "return"}
      [] op = "update"  -> {"checkkey", "lock", "drain", "compare", "buildcache",
                            "builddataset", "release", "swap", "unlock", "return"}
      [] op = "close"   -> {"lock", "drain", "close", "unlock", "return"}
      [] op = "isready" -> {"rlock", "rwait", "isready", "runlock", "return"}

WithVM     == {"init", "run", "putvm"}
WithCache  == {"builddataset", "publish", "release", "swap"}
WithBoth   == {"publish", "release", "swap"}
BuildLabels == {"buildcache"} \cup WithCache
Answered   == {"putvm", "runlock", "unlock", "return"}

(* What the locals of a call hold where it is. *)
Control(l, f) ==
    /\ l \in OpLabels(f.op)
    /\ f.op = "none" => f = NoFrame
    /\ f.op # "none" => f.h \in Hashers
    /\ f.vm # NoVM <=> l \in WithVM
    /\ f.c # NoAddr <=> l \in WithCache
    /\ f.d # NoAddr <=> l \in WithBoth /\ f.mode = "fast"
    /\ f.out # NoOut <=> l \in Answered
    /\ f.op = "update" /\ l \in {"lock", "drain", "compare"} => f.key # NoKey
    /\ l \in BuildLabels => f.key # NoKey /\ f.mode \in {"light", "fast"}
    /\ l = "builddataset" => f.mode = "fast"
    /\ f.op = "hash" => f.input \in Inputs
    /\ l = "putvm" => f.out.tag = "hash"
    /\ f.out.tag = "hash" => f.op = "hash"

ControlOK == \A g \in Goroutines : Control(pc[g], frame[g])

-----------------------------------------------------------------------------
(* No virtual machine serves two hashes at once, and none that serves one  *)
(* is in vmPool, whatever hasher, goroutine and collection got there       *)
(* first (memory.go: poolGetVM, poolPutVM; randomx.go: the deferred put).  *)
VMExclusive ==
    \A g \in Goroutines : frame[g].vm # NoVM =>
        /\ frame[g].vm \notin pool
        /\ \A o \in Goroutines \ {g} : frame[o].vm # frame[g].vm

(* A hash in progress never reads a cache or a dataset that UpdateCacheKey *)
(* or Close has released, nor one that another hasher left behind in a     *)
(* pooled machine: the memory it would read is gone and the read panics.   *)
NoUseAfterRelease ==
    \A g \in Goroutines : pc[g] = "run" =>
        LET m == vms[frame[g].vm]
            h == hasher[frame[g].h]
        IN  /\ m.c = h.cache /\ m.ds = h.ds
            /\ m.c # NoAddr /\ caches[m.c] # NoKey
            /\ m.ds # NoAddr => datasets[m.ds] # NoKey

(* A hash depends on its input and on the key its hasher holds, on nothing *)
(* an earlier hash, another goroutine or another hasher left in the        *)
(* machine, and still does when the read lock is about to be dropped.      *)
HashOfInputAndKey ==
    \A g \in Goroutines :
        frame[g].out.tag = "hash" /\ pc[g] \in {"putvm", "runlock"} =>
            frame[g].out.of = {frame[g].input, caches[hasher[frame[g].h].cache]}

(* An open hasher holds a live cache of the key its config records and, in *)
(* fast mode only, the dataset of that cache; between the release of the   *)
(* old pair and the swap of UpdateCacheKey alone is it otherwise.  A       *)
(* failed update therefore leaves the old pair usable (randomx.go:164).    *)
Swapping(h) == \E g \in Goroutines : pc[g] = "swap" /\ frame[g].h = h

ResourcesMatchConfig ==
    \A h \in Hashers : hasher[h].exists /\ ~Swapping(h) =>
        LET s == hasher[h] IN
        IF s.closed THEN s.cache = NoAddr /\ s.ds = NoAddr
        ELSE /\ s.cache # NoAddr /\ s.stored # NoKey
             /\ caches[s.cache] = s.stored
             /\ s.mode = "fast"  => s.ds = s.cache /\ datasets[s.ds] = s.stored
             /\ s.mode = "light" => s.ds = NoAddr

(* Memory that has not been released belongs to a hasher that is not       *)
(* closed or to a build under way: no error path, update or Close leaves a *)
(* cache or a 2 GB dataset behind for a pooled machine to pin.             *)
LiveMemoryOwned ==
    \A a \in Addrs : caches[a] # NoKey \/ datasets[a] # NoKey =>
        \/ \E h \in Hashers : hasher[h].cache = a
        \/ \E g \in Goroutines : frame[g].c = a

(* UpdateCacheKey answers nil only when the hasher holds the new key, be   *)
(* it that the key was installed or that it was the current one            *)
(* (randomx.go:160-162).                                                   *)
UpdateTakesEffect ==
    \A g \in Goroutines :
        frame[g].op = "update" /\ frame[g].out = OK /\ pc[g] = "unlock" =>
            caches[hasher[frame[g].h].cache] = frame[g].key

(* Every call returns: readers and writers of h.mu do not starve each      *)
(* other, and no error or panic path keeps the lock.                       *)
CallsReturn == \A g \in Goroutines : pc[g] # "idle" ~> pc[g] = "idle"

-----------------------------------------------------------------------------
(* Hasher as the atomic object.  A call has taken effect once it has its   *)
(* answer; the key of an open hasher is the one its config records.        *)
AbstractObj(h) ==
    IF ~hasher[h].exists THEN [status |-> "absent", key |-> NoKey]
    ELSE IF hasher[h].closed THEN [status |-> "closed", key |-> NoKey]
    ELSE [status |-> "open", key |-> hasher[h].stored]

AbstractCall(g) ==
    LET f == frame[g] IN
    [op |-> f.op, h |-> f.h, key |-> f.key, input |-> f.input, out |-> f.out,
     mode |-> IF f.op = "new" THEN f.mode ELSE "light"]

API == INSTANCE HasherAPI WITH
           obj  <- [h \in Hashers |-> AbstractObj(h)],
           call <- [g \in Goroutines |-> AbstractCall(g)]

(* Every interleaving of New, Hash, UpdateCacheKey, Close and IsReady is   *)
(* one of the atomic object: each call takes effect at one instant inside  *)
(* it ("It is safe for concurrent use", randomx.go:100).                   *)
ImplementsAPI == API!APISpec
=============================================================================
