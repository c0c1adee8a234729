-------------------------- MODULE HasherInvariant --------------------------
(***************************************************************************)
(* The inductive invariant of Hasher: why the properties hold.  Each part  *)
(* is named for the mechanism of the code that keeps it.                   *)
(***************************************************************************)
EXTENDS HasherProperties

(* h.mu: who is inside, as reader or as writer, and who is about to be.  A *)
(* writer past Lock finds nobody inside and keeps everybody out.           *)
ReadLabels == {"check", "getvm", "init", "run", "putvm", "isready", "runlock"}

Writes(g) ==
    \/ pc[g] \in {"compare", "release", "swap", "close", "unlock"}
    \/ pc[g] \in {"buildcache", "builddataset"} /\ frame[g].op = "update"

LockOK ==
    /\ \A g \in Goroutines : pc[g] \in ReadLabels => g \in mu[frame[g].h].readers
    /\ \A h \in Hashers, g \in Goroutines :
          g \in mu[h].readers => frame[g].h = h /\ pc[g] \in ReadLabels \cup {"rwait"}
    /\ \A h \in Hashers, g \in Goroutines :
          g \in mu[h].waiting => frame[g].h = h /\ pc[g] = "rwait"
    /\ \A h \in Hashers : mu[h].readers \cap mu[h].waiting = {}
    /\ \A g \in Goroutines :
          pc[g] = "drain" \/ Writes(g) => mu[frame[g].h].writer = g
    /\ \A g \in Goroutines : Writes(g) => mu[frame[g].h].readers = {}

(* A hasher exists for the calls on it, and not for the New that makes it. *)
ExistsOK ==
    /\ \A h \in Hashers : ~hasher[h].exists => hasher[h] = AbsentHasher
    /\ \A g \in Goroutines :
          frame[g].op \notin {"none", "new"} => hasher[frame[g].h].exists
    /\ \A g \in Goroutines :
          frame[g].op = "new" /\ pc[g] # "return" => ~hasher[frame[g].h].exists
    /\ \A g, o \in Goroutines :
          frame[g].op = "new" /\ frame[o].op = "new" /\ frame[g].h = frame[o].h => g = o

IsOpen(h) == hasher[h].exists /\ ~hasher[h].closed

(* What an open hasher points to, and that a closed one points to nothing. *)
PointersOK ==
    \A h \in Hashers :
        /\ ~IsOpen(h) => hasher[h].cache = NoAddr /\ hasher[h].ds = NoAddr
        /\ IsOpen(h) =>
              /\ hasher[h].cache # NoAddr /\ hasher[h].stored # NoKey
              /\ hasher[h].mode = "fast"  => hasher[h].ds = hasher[h].cache
              /\ hasher[h].mode = "light" => hasher[h].ds = NoAddr

(* The memory behind the pointers of an open hasher. *)
MemoryOf(h) ==
    LET a == hasher[h].cache IN
    /\ Swapping(h) => caches[a] = NoKey /\ datasets[a] = NoKey
    /\ ~Swapping(h) =>
          /\ caches[a] # NoKey
          /\ datasets[a] = IF hasher[h].mode = "fast" THEN caches[a] ELSE NoKey
          /\ ~CallerReusesBuffer => caches[a] = hasher[h].stored

MemoryOK == \A h \in Hashers : IsOpen(h) => MemoryOf(h)

(* The memory a build under way has allocated. *)
BuildOK ==
    \A g \in Goroutines :
        LET f == frame[g] IN
        /\ pc[g] \in WithCache => caches[f.c] = f.key
        /\ pc[g] \in WithCache =>
              datasets[f.c] = IF f.d = NoAddr THEN NoKey ELSE f.key
        /\ f.d # NoAddr => f.d = f.c
        /\ f.op = "update" /\ pc[g] \in BuildLabels =>
              ~hasher[f.h].closed /\ f.mode = hasher[f.h].mode

(* No two owners of one address. *)
OwnersOK ==
    /\ \A h, k \in Hashers :
          hasher[h].cache = hasher[k].cache /\ hasher[h].cache # NoAddr => h = k
    /\ \A g, o \in Goroutines : frame[g].c = frame[o].c /\ frame[g].c # NoAddr => g = o
    /\ \A g \in Goroutines, h \in Hashers :
          frame[g].c = hasher[h].cache => frame[g].c = NoAddr

(* An update that answers nil has its key in the config.                   *)
UpdateOf(g) ==
    frame[g].op = "update" /\ frame[g].out = OK /\ pc[g] = "unlock" =>
        IsOpen(frame[g].h) /\ hasher[frame[g].h].stored = frame[g].key

UpdateOK == ~CallerReusesBuffer => \A g \in Goroutines : UpdateOf(g)

(* A hash in progress: its hasher stays open, its machine points to what   *)
(* the hasher points to and holds the data of this hash alone.             *)
InHash(g) ==
    \/ pc[g] \in {"getvm", "init", "run", "putvm"}
    \/ pc[g] = "runlock" /\ frame[g].out.tag = "hash"

HashOf(g) ==
    LET f == frame[g]
        h == hasher[f.h]
        m == vms[f.vm]
        k == caches[h.cache]
    IN  /\ InHash(g) => ~h.closed
        /\ pc[g] = "run" =>
              /\ m.c = h.cache /\ m.ds = h.ds
              /\ m.regs \cup m.mem \cup m.gen \subseteq {f.input, k}
              /\ f.input \in m.mem
              /\ f.left # Programs => k \in m.mem
        /\ InHash(g) /\ f.out.tag = "hash" => f.out.of = {f.input, k}

HashOK == \A g \in Goroutines : HashOf(g)

IInv ==
    /\ TypeOK /\ ControlOK /\ LockOK /\ ExistsOK /\ VMExclusive
    /\ PointersOK /\ MemoryOK /\ BuildOK /\ OwnersOK /\ LiveMemoryOwned
    /\ UpdateOK /\ HashOK
=============================================================================
