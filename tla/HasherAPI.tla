----------------------------- MODULE HasherAPI -----------------------------
(***************************************************************************)
(* What package randomx promises to its callers: a Hasher behaves as one   *)
(* atomic object.  A call is invoked, takes effect at one instant between  *)
(* its invocation and its return, and returns.  While a hasher is open it  *)
(* has exactly one key, every hash is the hash of the input under that     *)
(* key, an update installs its key or leaves the old one, and a closed     *)
(* hasher stays closed.                                                    *)
(***************************************************************************)
CONSTANTS
    Goroutines,     \* the callers
    Hashers,        \* the hashers they share
    NoHasher,       \* no hasher
    Keys,           \* cache keys (seeds)
    NoKey,          \* the empty byte slice, which is no key
    Inputs,         \* inputs of Hash
    NoInput,        \* the input of a call that takes none
    Modes,          \* the values callers put in Config.Mode
    BuildMayFail    \* whether newCache and newDataset may return an error

VARIABLES
    obj,            \* obj[h]: the status and the key of hasher h
    call            \* call[g]: the call goroutine g is in

apiVars == <<obj, call>>

NoOut    == [tag |-> "none",     of |-> {}]
OK       == [tag |-> "ok",       of |-> {}]
Failed   == [tag |-> "error",    of |-> {}]
Panicked == [tag |-> "panic",    of |-> {}]
Ready    == [tag |-> "ready",    of |-> {}]
NotReady == [tag |-> "notready", of |-> {}]
HashOf(k, i) == [tag |-> "hash", of |-> {k, i}]

Absent == [status |-> "absent", key |-> NoKey]
Closed == [status |-> "closed", key |-> NoKey]
Open(k) == [status |-> "open", key |-> k]

NoCall == [op |-> "none", h |-> NoHasher, key |-> NoKey,
           mode |-> "light", input |-> NoInput, out |-> NoOut]

Calls(op, h, k, m, i) ==
    [op |-> op, h |-> h, key |-> k, mode |-> m, input |-> i, out |-> NoOut]

-----------------------------------------------------------------------------
APIInit ==
    /\ obj = [h \in Hashers |-> Absent]
    /\ call = [g \in Goroutines |-> NoCall]

(* New is called for a hasher that does not exist and nobody is making. *)
UnderConstruction(h) ==
    \E g \in Goroutines : call[g].op = "new" /\ call[g].h = h

Invoke(g) ==
    /\ call[g] = NoCall
    /\ \E h \in Hashers :
          /\ ~UnderConstruction(h)
          /\ \/ /\ obj[h] = Absent
                /\ \E k \in Keys \cup {NoKey}, m \in Modes :
                      call' = [call EXCEPT ![g] = Calls("new", h, k, m, NoInput)]
             \/ /\ obj[h] # Absent
                /\ \/ \E i \in Inputs :
                         call' = [call EXCEPT ![g] = Calls("hash", h, NoKey, "light", i)]
                   \/ \E k \in Keys \cup {NoKey} :
                         call' = [call EXCEPT ![g] = Calls("update", h, k, "light", NoInput)]
                   \/ call' = [call EXCEPT ![g] = Calls("close", h, NoKey, "light", NoInput)]
                   \/ call' = [call EXCEPT ![g] = Calls("isready", h, NoKey, "light", NoInput)]
    /\ UNCHANGED obj

(* The instant a call takes effect: what it answers and what it changes. *)
Pending(g, op) == call[g].op = op /\ call[g].out = NoOut
Answers(g, out) == call' = [call EXCEPT ![g].out = out]
Sets(h, o) == obj' = [obj EXCEPT ![h] = o]

ValidConfig(c) == c.key # NoKey /\ c.mode \in {"light", "fast"}

NewEffect(g) ==
    LET c == call[g] IN
    /\ Pending(g, "new")
    /\ \/ ValidConfig(c) /\ Answers(g, OK) /\ Sets(c.h, Open(c.key))
       \/ /\ BuildMayFail \/ ~ValidConfig(c)
          /\ Answers(g, Failed) /\ UNCHANGED obj

HashEffect(g) ==
    LET c == call[g] IN
    /\ Pending(g, "hash")
    /\ \/ /\ obj[c.h].status = "open"
          /\ Answers(g, HashOf(obj[c.h].key, c.input))
       \/ obj[c.h].status = "closed" /\ Answers(g, Panicked)
    /\ UNCHANGED obj

UpdateEffect(g) ==
    LET c == call[g] IN
    /\ Pending(g, "update")
    /\ \/ /\ obj[c.h].status = "open" /\ c.key # NoKey
          /\ Answers(g, OK) /\ Sets(c.h, Open(c.key))
       \/ /\ \/ c.key = NoKey
             \/ obj[c.h].status = "closed"
             \/ BuildMayFail /\ obj[c.h].key # c.key
          /\ Answers(g, Failed) /\ UNCHANGED obj

CloseEffect(g) ==
    /\ Pending(g, "close")
    /\ Answers(g, OK) /\ Sets(call[g].h, Closed)

IsReadyEffect(g) ==
    /\ Pending(g, "isready")
    /\ Answers(g, IF obj[call[g].h].status = "open" THEN Ready ELSE NotReady)
    /\ UNCHANGED obj

Return(g) ==
    /\ call[g].op # "none"
    /\ call[g].out # NoOut
    /\ call' = [call EXCEPT ![g] = NoCall]
    /\ UNCHANGED obj

APINext ==
    \E g \in Goroutines :
        \/ Invoke(g) \/ Return(g)
        \/ NewEffect(g) \/ HashEffect(g) \/ UpdateEffect(g)
        \/ CloseEffect(g) \/ IsReadyEffect(g)

APISpec == APIInit /\ [][APINext]_apiVars
=============================================================================
