--------------------------- MODULE TranslateTable ---------------------------
(***************************************************************************)
(* The open-addressing table of runtime/backend/translate_table.h that     *)
(* maps guest locations to translated code, under its shared_mutex.        *)
(*                                                                         *)
(* One iteration of a probe loop is one step.  The stores of value and key *)
(* are steps of their own and may become visible in either order: the      *)
(* fence between them is an acquire fence, which orders no two stores.     *)
(* Only code that reads without the lock can tell (module Dispatcher).     *)
(***************************************************************************)
EXTENDS Integers

CONSTANTS
    Thread,    \* threads calling the table
    Key,       \* guest locations
    Value,     \* host code addresses; 0 is "nothing translated"
    Code,      \* the addresses that are translations of a location
    Size,      \* 1 << hash_bits
    Pad,       \* entries past the hashed part, the last one the sentinel (10)
    Hash,      \* TranslateTable::Hash, as a function
    Ops        \* the operations the program calls

Sentinel == -1
NoAnswer == -1
Slot     == 0 .. Size + Pad - 1

ASSUME TableAssumption ==
    /\ Size \in Nat \ {0, 1} /\ Pad \in Nat \ {0, 1}
    /\ 0 \notin Key /\ Sentinel \notin Key /\ 0 \in Value
    /\ Code \in [Key -> SUBSET Value]
    /\ Hash \in [Key -> 0 .. Size - 1]
    /\ Ops \subseteq {"Put", "GetOrPut", "Lookup", "Replace", "Remove", "Clear"}

VARIABLES
    key, val,   \* the two words of every entry
    pc,         \* where each thread is
    op,         \* the operation a thread is in
    k, v,       \* its arguments
    index,      \* its probe position
    todo,       \* the stores of Put not yet visible
    found,      \* what the thread's last Lookup returned; NoAnswer once it calls again
    aborted     \* abort() was called

local == <<pc, op, k, v, index, todo, found>>
vars  == <<key, val, local, aborted>>

PC == {"idle", "want", "probe", "store", "stuck"}
Writes(o) == o \in {"Put", "GetOrPut", "Replace", "Remove"}

\* Reset, called by the constructor: every entry zero but the sentinel.
Init ==
    /\ key = [i \in Slot |-> IF i = Size + Pad - 1 THEN Sentinel ELSE 0]
    /\ val = [i \in Slot |-> 0]
    /\ pc = [t \in Thread |-> "idle"]
    /\ op = [t \in Thread |-> "none"]
    /\ k = [t \in Thread |-> 0] /\ v = [t \in Thread |-> 0]
    /\ index = [t \in Thread |-> 0]
    /\ todo = [t \in Thread |-> {}]
    /\ found = [t \in Thread |-> NoAnswer]
    /\ aborted = FALSE

----------------------------------------------------------------------------
\* A thread enters an operation: the hash is computed before the lock is taken.
Call(t, o, a, b) ==
    /\ pc[t] = "idle"
    /\ pc' = [pc EXCEPT ![t] = "want"]
    /\ op' = [op EXCEPT ![t] = o]
    /\ k' = [k EXCEPT ![t] = a] /\ v' = [v EXCEPT ![t] = b]
    /\ index' = [index EXCEPT ![t] = Hash[a]]
    /\ found' = [found EXCEPT ![t] = NoAnswer]
    /\ UNCHANGED <<key, val, todo, aborted>>

Inside(t) == pc[t] \in {"probe", "store", "stuck"}

\* Mutant: every operation takes the lock shared.
AcquireShared(t) ==
    /\ pc[t] = "want"
    /\ pc' = [pc EXCEPT ![t] = "probe"]
    /\ UNCHANGED <<key, val, op, k, v, index, todo, found, aborted>>

\* unique_lock for the operations that write, shared_lock for Lookup.
Acquire(t) ==
    /\ pc[t] = "want"
    /\ \A u \in Thread \ {t} : Inside(u) => ~Writes(op[u]) /\ ~Writes(op[t])
    /\ pc' = [pc EXCEPT ![t] = "probe"]
    /\ UNCHANGED <<key, val, op, k, v, index, todo, found, aborted>>

\* The guard's destructor: the operation is over and its frame is gone.
Return(t) ==
    /\ pc' = [pc EXCEPT ![t] = "idle"] /\ op' = [op EXCEPT ![t] = "none"]
    /\ k' = [k EXCEPT ![t] = 0] /\ v' = [v EXCEPT ![t] = 0]
    /\ index' = [index EXCEPT ![t] = 0]

\* Mutant: the probe wraps around instead of aborting.
AdvanceWraps(t) ==
    /\ pc[t] = "probe" /\ op[t] \in {"Put", "GetOrPut"}
    /\ key[index[t]] \notin {0, k[t]}
    /\ index' = [index EXCEPT ![t] = (@ + 1) % Size]
    /\ UNCHANGED <<key, val, pc, op, k, v, todo, found, aborted>>

\* Mutant: the probe aborts at the end of the padding.
AdvanceFillsPad(t) ==
    /\ pc[t] = "probe" /\ op[t] \in {"Put", "GetOrPut"}
    /\ key[index[t]] \notin {0, k[t]}
    /\ index' = [index EXCEPT ![t] = @ + 1]
    /\ aborted' = (index[t] + 1 >= Size + Pad - 1)
    /\ UNCHANGED <<key, val, pc, op, k, v, todo, found>>

\* Put and GetOrPut step past an entry of another key, up to the last entry but
\* one of the hashed part, where they abort.
Advance(t) ==
    /\ pc[t] = "probe" /\ op[t] \in {"Put", "GetOrPut"}
    /\ key[index[t]] \notin {0, k[t]}
    /\ index' = [index EXCEPT ![t] = @ + 1]
    /\ aborted' = (index[t] + 1 >= Size - 1)
    /\ UNCHANGED <<key, val, pc, op, k, v, todo, found>>

\* Mutant: GetOrPut stores whether or not there is a value.
ArriveOverwrites(t) ==
    /\ pc[t] = "probe" /\ op[t] \in {"Put", "GetOrPut"}
    /\ key[index[t]] \in {0, k[t]}
    /\ pc' = [pc EXCEPT ![t] = "store"]
    /\ todo' = [todo EXCEPT ![t] = {"value", "key"}]
    /\ UNCHANGED <<key, val, op, k, v, index, found, aborted>>

\* They find the key or an empty entry and are about to store.
Arrive(t) ==
    /\ pc[t] = "probe" /\ op[t] \in {"Put", "GetOrPut"}
    /\ key[index[t]] \in {0, k[t]}
    /\ op[t] = "GetOrPut" => key[index[t]] = 0 \/ val[index[t]] = 0
    /\ pc' = [pc EXCEPT ![t] = "store"]
    /\ todo' = [todo EXCEPT ![t] = {"value", "key"}]
    /\ UNCHANGED <<key, val, op, k, v, index, found, aborted>>

\* GetOrPut leaves a key that has a value.
AlreadyThere(t) ==
    /\ pc[t] = "probe" /\ op[t] = "GetOrPut"
    /\ key[index[t]] = k[t] /\ val[index[t]] # 0
    /\ Return(t)
    /\ UNCHANGED <<key, val, todo, found, aborted>>

\* Mutant: the lock is released after the first of the two stores.
StoreUnlocksEarly(t, w) ==
    /\ pc[t] = "store" /\ w \in todo[t]
    /\ IF w = "value" THEN val' = [val EXCEPT ![index[t]] = v[t]] /\ UNCHANGED key
                      ELSE key' = [key EXCEPT ![index[t]] = k[t]] /\ UNCHANGED val
    /\ todo' = [todo EXCEPT ![t] = {}]
    /\ Return(t)
    /\ UNCHANGED <<found, aborted>>

\* entries[index].value = value; entries[index].key = key, in the order in which
\* they become visible.  The lock is released after both.
Store(t, w) ==
    /\ pc[t] = "store" /\ w \in todo[t]
    /\ IF w = "value" THEN val' = [val EXCEPT ![index[t]] = v[t]] /\ UNCHANGED key
                      ELSE key' = [key EXCEPT ![index[t]] = k[t]] /\ UNCHANGED val
    /\ todo' = [todo EXCEPT ![t] = @ \ {w}]
    /\ IF todo[t] = {w} THEN Return(t) ELSE UNCHANGED <<pc, op, k, v, index>>
    /\ UNCHANGED <<found, aborted>>

\* Mutant: index++ is missing.
LookOnStays(t) ==
    /\ pc[t] = "probe" /\ op[t] \in {"Lookup", "Replace"}
    /\ key[index[t]] \notin {0, k[t]} /\ index[t] + 1 < Size - 1
    /\ UNCHANGED vars

\* Lookup and Replace go on while the entry is in use by another key.
LookOn(t) ==
    /\ pc[t] = "probe" /\ op[t] \in {"Lookup", "Replace"}
    /\ key[index[t]] \notin {0, k[t]} /\ index[t] + 1 < Size - 1
    /\ index' = [index EXCEPT ![t] = @ + 1]
    /\ UNCHANGED <<key, val, pc, op, k, v, todo, found, aborted>>

\* Mutant: the loop ends one entry too early.
MissingEarly(t) == key[index[t]] # k[t] /\ (key[index[t]] = 0 \/ index[t] + 1 >= Size - 2)

\* The loop ended without the key: at an empty entry, or at the end.
Missing(t) == key[index[t]] # k[t] /\ (key[index[t]] = 0 \/ index[t] + 1 >= Size - 1)

\* Lookup returns the entry's value, or 0 when the loop ends without the key.
LookupReturns(t) ==
    /\ pc[t] = "probe" /\ op[t] = "Lookup"
    /\ \/ key[index[t]] = k[t] /\ found' = [found EXCEPT ![t] = val[index[t]]]
       \/ Missing(t) /\ found' = [found EXCEPT ![t] = 0]
    /\ Return(t)
    /\ UNCHANGED <<key, val, todo, aborted>>

\* Replace overwrites the value of a key that is there.
ReplaceValue(t) ==
    /\ pc[t] = "probe" /\ op[t] = "Replace"
    /\ key[index[t]] = k[t]
    /\ val' = [val EXCEPT ![index[t]] = v[t]]
    /\ Return(t)
    /\ UNCHANGED <<key, todo, found, aborted>>

\* Replace of a key that is not there calls Put, which locks the mutex its caller
\* holds: undefined, in practice either an exception (the guard unlocks) or a
\* wait that never ends.
ReplaceMissing(t) ==
    /\ pc[t] = "probe" /\ op[t] = "Replace" /\ Missing(t)
    /\ \/ Return(t)
       \/ pc' = [pc EXCEPT ![t] = "stuck"] /\ UNCHANGED <<op, k, v, index>>
    /\ UNCHANGED <<key, val, todo, found, aborted>>

\* One iteration of Remove.  The next index is (index + 1) & size, which is 0
\* until index is the last hashed entry and size from there; end is the hash
\* minus one (for hash 0 it wraps to 2^32 - 1, which no index equals).
RemoveStep(t) ==
    LET n == IF index[t] >= Size - 1 THEN Size ELSE 0
        ends == key[index[t]] = 0 \/ n + 1 = Hash[k[t]]
    IN
    /\ pc[t] = "probe" /\ op[t] = "Remove"
    /\ \/ /\ key[index[t]] = k[t]
          /\ key' = [key EXCEPT ![index[t]] = 0]
          /\ Return(t)
       \/ key[index[t]] # k[t] /\ ends /\ Return(t) /\ UNCHANGED key
       \/ /\ key[index[t]] # k[t] /\ ~ends
          /\ index' = [index EXCEPT ![t] = n]
          /\ UNCHANGED <<key, pc, op, k, v>>
    /\ UNCHANGED <<val, todo, found, aborted>>

\* Clear takes no lock and wipes the sentinel with the rest.  Its memset is one step
\* here.  It only writes zeros, so that a Lookup or Replace that it overtakes
\* between reading the key and using the value gets 0 or what was there before.
Clear ==
    /\ "Clear" \in Ops
    /\ key' = [i \in Slot |-> 0] /\ val' = [i \in Slot |-> 0]
    /\ UNCHANGED <<local, aborted>>

Step(t) ==
    \/ Acquire(t) \/ Advance(t) \/ Arrive(t) \/ AlreadyThere(t)
    \/ \E w \in {"value", "key"} : Store(t, w)
    \/ LookOn(t) \/ LookupReturns(t) \/ ReplaceValue(t) \/ ReplaceMissing(t) \/ RemoveStep(t)

Next ==
    /\ ~aborted
    /\ \/ \E t \in Thread : Step(t)
       \/ \E t \in Thread, o \in Ops \cap {"Put", "GetOrPut", "Replace"}, a \in Key :
            \E b \in Code[a] : Call(t, o, a, b)
       \/ \E t \in Thread, o \in Ops \cap {"Lookup", "Remove"}, a \in Key : Call(t, o, a, 0)
       \/ Clear

Spec == Init /\ [][Next]_vars

Fairness == \A t \in Thread : WF_vars(~aborted /\ Step(t))
LiveSpec == Spec /\ Fairness
----------------------------------------------------------------------------
(* Properties                                                              *)

\* Nothing is ever taken out of the table.
NoRemoval == Ops \cap {"Remove", "Clear"} = {}

\* The variables hold what the code can put there; a probe that aborts may be one
\* entry past the hashed part.
TypeOK ==
    /\ key \in [Slot -> Key \cup {0, Sentinel}] /\ val \in [Slot -> Value]
    /\ pc \in [Thread -> PC] /\ op \in [Thread -> Ops \cup {"none"}]
    /\ k \in [Thread -> Key \cup {0}] /\ v \in [Thread -> Value]
    /\ index \in [Thread -> 0 .. Size]
    /\ todo \in [Thread -> SUBSET {"value", "key"}]
    /\ found \in [Thread -> Value \cup {NoAnswer}]
    /\ aborted \in BOOLEAN

\* Every key can be found from its hash: the entries before it are all in use,
\* none of them by the key itself, so that it is in the table once; the last
\* hashed entry only holds a key that hashes there, since no probe gets that far.
ChainIntact ==
    \A i \in 0 .. Size - 1 : key[i] # 0 =>
        /\ key[i] \in Key /\ Hash[key[i]] <= i
        /\ i = Size - 1 => Hash[key[i]] = i
        /\ \A j \in Hash[key[i]] .. i - 1 : key[j] \notin {0, key[i]}

\* The entries past the hashed part are never written: an unlocked probe that
\* runs off the hashed part stops at the first of them.
PadIntact == \A i \in Size .. Size + Pad - 1 : key[i] = IF i = Size + Pad - 1 THEN Sentinel ELSE 0

\* With removals and clears too, which move probes and wipe the sentinel: no probe
\* ever stores past the hashed part, so an unlocked one still stops there.
PadFree == \A i \in Size .. Size + Pad - 2 : key[i] = 0

\* Lookup returns code translated for the location it was asked about, or 0,
\* even with removals and unlocked clears in between.
LookupSound ==
    [][\A t \in Thread : LookupReturns(t) => found'[t] \in Code[k[t]] \cup {0}]_vars

\* The table is a map: every call takes effect at once for the key and the value
\* it was given, GetOrPut only where there is no code, and Lookup answers what is
\* there at that moment, however calls on colliding locations interleave.
MapOf == [a \in Key |-> IF \E i \in 0 .. Size - 1 : key[i] = a
                        THEN val[CHOOSE i \in 0 .. Size - 1 : key[i] = a]
                        ELSE 0]
CallOf == [t \in Thread |-> [op |-> op[t], key |-> k[t], value |-> v[t]]]
Map == INSTANCE TranslateMap WITH map <- MapOf, call <- CallOf, answer <- found
ImplementsMap == Map!MapSpec

\* GetOrPut never replaces code that is already there, even if two threads
\* translate the same location and race to register it.
GetOrPutKeeps ==
    [][\A t \in Thread, w \in {"value", "key"} :
          op[t] = "GetOrPut" /\ Store(t, w) => MapOf[k[t]] \in {0, MapOf'[k[t]]}]_vars

\* Whoever holds the lock gives it back, unless the process aborts or a Replace
\* of a missing key waits for the lock it holds.
LockReleased == \A t \in Thread : Inside(t) ~> ~Inside(t) \/ aborted \/ pc[t] = "stuck"

(* The inductive invariant behind them.                                    *)

\* Of the operations that lock, one that writes is alone (Clear does not lock).
Exclusive == \A t, u \in Thread : t # u /\ Inside(t) /\ Inside(u) => ~Writes(op[t])

\* What a probe knows: it passed only entries of other keys.
Probing ==
    \A t \in Thread : pc[t] \in {"probe", "store"} =>
        /\ Hash[k[t]] <= index[t]
        /\ \A j \in Hash[k[t]] .. index[t] - 1 : j < Size => key[j] \notin {0, k[t]}
        /\ ~aborted => index[t] < Size /\ (index[t] = Size - 1 => Hash[k[t]] = Size - 1)

\* What a store in progress knows.
Storing ==
    \A t \in Thread :
        /\ pc[t] = "store" => /\ todo[t] # {} /\ key[index[t]] \in {0, k[t]}
                              /\ op[t] \in {"Put", "GetOrPut"} /\ ~aborted
                              /\ "key" \notin todo[t] => key[index[t]] = k[t]
                              /\ "value" \notin todo[t] => val[index[t]] = v[t]
                              /\ op[t] = "GetOrPut" /\ "value" \in todo[t] => val[index[t]] = 0
        /\ pc[t] = "want" => index[t] = Hash[k[t]]
        /\ pc[t] = "idle" => op[t] = "none"
        /\ pc[t] # "idle" => k[t] \in Key /\ v[t] \in Code[k[t]] \cup {0}

\* A free entry has no value yet, unless a store in progress has just written it.
FreeIsZero ==
    \A i \in 0 .. Size - 1 :
        key[i] = 0 /\ val[i] # 0 =>
            \E t \in Thread : pc[t] = "store" /\ index[t] = i /\ todo[t] = {"key"}

IInv == TypeOK /\ Exclusive /\ ChainIntact /\ PadIntact /\ Probing /\ Storing /\ FreeIsZero
=============================================================================
