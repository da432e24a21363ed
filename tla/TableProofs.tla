---------------------------- MODULE TableProofs ----------------------------
(***************************************************************************)
(* The translate table keeps its probe chains and is the map of            *)
(* TranslateMap, for any number of threads, any keys and any hash          *)
(* function, as long as nothing is removed.                                *)
(***************************************************************************)
EXTENDS TranslateTable, TLAPS

\* The empty table, as the constructor leaves it, satisfies the invariant.
LEMMA TableInit == Init => IInv
<1> SUFFICES ASSUME Init PROVE IInv
  BY Zenon
<1> USE TableAssumption DEF Init
<1>1. TypeOK
  <2>1. key \in [Slot -> Key \cup {0, Sentinel}] /\ val \in [Slot -> Value]
    BY Zenon
  <2>2. index \in [Thread -> 0 .. Size] /\ pc \in [Thread -> PC]
    BY DEF PC
  <2> QED
    BY Zenon, <2>1, <2>2 DEF TypeOK
<1>2. \A i \in 0 .. Size - 1 : i \in Slot /\ key[i] = 0 /\ val[i] = 0
  BY DEF Slot, Sentinel
<1>3. ChainIntact /\ FreeIsZero
  BY Zenon, <1>2 DEF ChainIntact, FreeIsZero
<1>4. PadIntact
  BY DEF PadIntact, Slot
<1>5. Exclusive /\ Probing /\ Storing
  BY Zenon DEF Exclusive, Inside, Probing, Storing
<1> QED
  BY Zenon, <1>1, <1>3, <1>4, <1>5 DEF IInv

\* Facts about the table's indices that the steps need.
LEMMA Indices ==
  /\ Size \in Nat /\ Size > 1 /\ Pad \in Nat /\ Pad > 1
  /\ \A i \in 0 .. Size : i \in Slot
  /\ \A a \in Key : Hash[a] \in 0 .. Size - 1 /\ a # 0 /\ a # Sentinel
  /\ 0 \in Value /\ \A a \in Key : Code[a] \subseteq Value
BY TableAssumption DEF Slot

\* A thread that enters the table, leaves it, or waits for it, writing nothing,
\* disturbs none of the table's own invariants.
LEMMA Outside ==
  ASSUME IInv, UNCHANGED <<key, val, aborted>>, NEW t \in Thread, ~aborted,
         pc[t] # "store",
         \A u \in Thread \ {t} : pc'[u] = pc[u] /\ op'[u] = op[u] /\ k'[u] = k[u] /\ v'[u] = v[u]
                                 /\ index'[u] = index[u] /\ todo'[u] = todo[u]
  PROVE  ChainIntact' /\ PadIntact' /\ FreeIsZero'
<1>1. ChainIntact'
  BY Zenon DEF IInv, ChainIntact
<1>2. PadIntact'
  BY Zenon DEF IInv, PadIntact
<1>3. FreeIsZero'
  BY DEF IInv, FreeIsZero
<1> QED
  BY Zenon, <1>1, <1>2, <1>3

\* A thread that probes or stores has a key, and stands on a hashed entry.
LEMMA Prober ==
  ASSUME IInv, ~aborted, NEW t \in Thread, pc[t] \in {"probe", "store"}
  PROVE  k[t] \in Key /\ index[t] \in 0 .. Size - 1 /\ v[t] \in Value
<1>1. k[t] \in Key
  BY Zenon DEF IInv, Storing
<1>2. index[t] < Size
  BY Zenon DEF IInv, Probing
<1>3. index[t] \in 0 .. Size /\ v[t] \in Value
  BY Zenon DEF IInv, TypeOK
<1> QED
  BY <1>1, <1>2, <1>3, Indices

\* Replace of a key that is there keeps the invariant.
LEMMA ReplaceKeeps ==
  ASSUME IInv, ~aborted, NEW t \in Thread, ReplaceValue(t)
  PROVE  IInv'
<1> USE Indices DEF ReplaceValue, Return
<1>1. /\ k[t] \in Key /\ index[t] \in 0 .. Size - 1 /\ key[index[t]] # 0
      /\ \A u \in Thread \ {t} : ~Inside(u)
  BY DEF IInv, TypeOK, Probing, Storing, Exclusive, Inside, Writes
<1>2. TypeOK'
  BY <1>1 DEF IInv, TypeOK, PC
<1>3. ChainIntact' /\ PadIntact'
  BY Zenon DEF IInv, ChainIntact, PadIntact
<1>4. FreeIsZero'
  <2>1. \A i \in 0 .. Size - 1 : key[i] = 0 => val'[i] = val[i]
    BY <1>1 DEF IInv, TypeOK
  <2>2. \A u \in Thread : pc[u] # "store"
    BY Zenon, <1>1 DEF Inside
  <2> QED
    BY Zenon, <2>1, <2>2 DEF IInv, FreeIsZero
<1>5. Exclusive' /\ Probing' /\ Storing'
  BY <1>1 DEF IInv, TypeOK, Exclusive, Inside, Probing, Storing
<1> QED
  BY Zenon, <1>2, <1>3, <1>4, <1>5 DEF IInv

\* Either store of Put and GetOrPut writes words of the right types.
LEMMA StoreTyped ==
  ASSUME TypeOK, NEW t \in Thread, NEW w, Store(t, w), k[t] \in Key, index[t] \in Slot
  PROVE  TypeOK'
<1>1. key' \in [Slot -> Key \cup {0, Sentinel}] /\ val' \in [Slot -> Value]
  <2>1. /\ key \in [Slot -> Key \cup {0, Sentinel}] /\ val \in [Slot -> Value] /\ v[t] \in Value
    BY Zenon DEF TypeOK
  <2>2. \/ val' = [val EXCEPT ![index[t]] = v[t]] /\ key' = key
        \/ key' = [key EXCEPT ![index[t]] = k[t]] /\ val' = val
    BY Zenon DEF Store
  <2> QED
    BY ONLY Zenon, k[t] \in Key, <2>1, <2>2
<1>2. todo' \in [Thread -> SUBSET {"value", "key"}]
  <2>1. todo \in [Thread -> SUBSET {"value", "key"}] /\ todo' = [todo EXCEPT ![t] = todo[t] \ {w}]
    BY Zenon DEF Store, TypeOK
  <2> QED
    BY ONLY Zenon, t \in Thread, <2>1
<1>3. pc' \in [Thread -> PC] /\ op' \in [Thread -> Ops \cup {"none"}]
  <2>1. pc \in [Thread -> PC] /\ op \in [Thread -> Ops \cup {"none"}] /\ "idle" \in PC
    BY Zenon DEF TypeOK, PC
  <2>2. \/ pc' = pc /\ op' = op
        \/ pc' = [pc EXCEPT ![t] = "idle"] /\ op' = [op EXCEPT ![t] = "none"]
    BY Zenon DEF Store, Return
  <2> QED
    BY ONLY Zenon, <2>1, <2>2
<1>4. k' \in [Thread -> Key \cup {0}] /\ v' \in [Thread -> Value] /\ index' \in [Thread -> 0 .. Size]
  <2>1. 0 \in Value /\ 0 \in 0 .. Size
    BY ONLY TableAssumption
  <2>2. k \in [Thread -> Key \cup {0}] /\ v \in [Thread -> Value] /\ index \in [Thread -> 0 .. Size]
    BY Zenon DEF TypeOK
  <2>3. \/ k' = k /\ v' = v /\ index' = index
        \/ /\ k' = [k EXCEPT ![t] = 0] /\ v' = [v EXCEPT ![t] = 0]
           /\ index' = [index EXCEPT ![t] = 0]
    BY Zenon DEF Store, Return
  <2> QED
    BY ONLY Zenon, <2>1, <2>2, <2>3
<1> QED
  BY Zenon, <1>1, <1>2, <1>3, <1>4 DEF TypeOK, Store

\* Either store of Put and GetOrPut keeps the invariant.
LEMMA StoreKeeps ==
  ASSUME IInv, ~aborted, NEW t \in Thread, NEW w \in {"value", "key"}, Store(t, w)
  PROVE  IInv'
<1> USE Indices DEF Store
<1>1. /\ k[t] \in Key /\ index[t] \in 0 .. Size - 1 /\ key[index[t]] \in {0, k[t]}
      /\ Hash[k[t]] <= index[t] /\ (index[t] = Size - 1 => Hash[k[t]] = index[t])
      /\ \A j \in Hash[k[t]] .. index[t] - 1 : key[j] \notin {0, k[t]}
      /\ \A u \in Thread \ {t} : ~Inside(u)
  <2>1. pc[t] = "store" /\ Probing /\ Storing /\ Exclusive /\ TypeOK
    BY Zenon DEF IInv
  <2>2. \A u \in Thread \ {t} : ~Inside(u)
    BY <2>1 DEF Storing, Exclusive, Inside, Writes
  <2>3. k[t] \in Key /\ index[t] \in 0 .. Size - 1 /\ key[index[t]] \in {0, k[t]}
    BY <2>1 DEF Storing, Probing, TypeOK
  <2> QED
    BY <2>1, <2>2, <2>3 DEF Storing, Probing
<1>2. TypeOK'
  <2>1. index[t] \in Slot
    BY <1>1 DEF Slot
  <2> QED
    BY Zenon, <1>1, <2>1, StoreTyped DEF IInv
<1>3. \A u \in Thread \ {t} : pc'[u] = pc[u] /\ k'[u] = k[u] /\ v'[u] = v[u]
                              /\ index'[u] = index[u]
  BY Zenon DEF Return, IInv, TypeOK
<1>4. Exclusive'
  BY Zenon, <1>1, <1>3 DEF Exclusive, Inside
<1>5. CASE w = "value"
  <2>1. ChainIntact' /\ PadIntact'
    BY Zenon, <1>5 DEF IInv, ChainIntact, PadIntact
  <2>2. FreeIsZero'
    BY <1>1, <1>5 DEF IInv, TypeOK, FreeIsZero, Storing, Inside, Return
  <2>3. Probing' /\ Storing'
    BY <1>1, <1>3, <1>5 DEF IInv, TypeOK, Probing, Storing, Inside, Return
  <2> QED
    BY Zenon, <1>2, <1>4, <2>1, <2>2, <2>3 DEF IInv
<1>6. CASE w = "key"
  <2>0. /\ key'[index[t]] = k[t]
        /\ \A i \in Slot : i # index[t] => key'[i] = key[i]
    BY Zenon, <1>1, <1>6 DEF IInv, TypeOK
  <2>1. ChainIntact'
    <3> SUFFICES ASSUME NEW i \in 0 .. Size - 1, key'[i] # 0
                 PROVE  /\ key'[i] \in Key /\ Hash[key'[i]] <= i
                        /\ i = Size - 1 => Hash[key'[i]] = i
                        /\ \A j \in Hash[key'[i]] .. i - 1 : key'[j] \notin {0, key'[i]}
      BY Zenon DEF ChainIntact
    <3>1. CASE i = index[t]
      BY <3>1, <2>0, <1>1
    <3>2. CASE i # index[t]
      BY <3>2, <2>0, <1>1 DEF IInv, ChainIntact
    <3> QED
      BY Zenon, <3>1, <3>2
  <2>2. PadIntact'
    BY <2>0, <1>1 DEF IInv, PadIntact, Slot
  <2>3. FreeIsZero'
    BY <1>1, <2>0, <1>6 DEF IInv, TypeOK, FreeIsZero, Storing, Inside, Return
  <2>4. Probing'
    BY <1>1, <1>3, <2>0 DEF IInv, TypeOK, Probing, Inside, Return
  <2>5. Storing'
    BY <1>1, <1>3, <2>0, <1>6 DEF IInv, TypeOK, Storing, Inside, Return
  <2> QED
    BY Zenon, <1>2, <1>4, <2>1, <2>2, <2>3, <2>4, <2>5 DEF IInv
<1> QED
  BY Zenon, <1>5, <1>6

\* A call that begins keeps the invariant.
LEMMA CallKeeps ==
  ASSUME IInv, ~aborted, NEW t \in Thread, NEW o \in Ops, NEW a \in Key,
         NEW b \in Code[a] \cup {0}, Call(t, o, a, b)
  PROVE  IInv'
<1> USE Indices DEF Call
<1>1. TypeOK'
  BY DEF IInv, TypeOK, PC
<1>2. ChainIntact' /\ PadIntact' /\ FreeIsZero'
  BY Zenon, Outside DEF IInv, TypeOK
<1>3. Exclusive'
  BY Zenon DEF IInv, TypeOK, Exclusive, Inside, Writes
<1>4. Probing' /\ Storing'
  BY DEF IInv, TypeOK, Probing, Storing
<1> QED
  BY Zenon, <1>1, <1>2, <1>3, <1>4 DEF IInv

\* Taking the lock keeps the invariant.
LEMMA AcquireKeeps ==
  ASSUME IInv, ~aborted, NEW t \in Thread, Acquire(t)
  PROVE  IInv'
<1> USE Indices DEF Acquire
<1>1. TypeOK'
  BY Zenon DEF IInv, TypeOK, PC
<1>2. ChainIntact' /\ PadIntact' /\ FreeIsZero'
  BY Zenon, Outside DEF IInv, TypeOK
<1>3. Exclusive'
  BY DEF IInv, TypeOK, Exclusive, Inside, Writes
<1>4. k[t] \in Key /\ index[t] = Hash[k[t]]
  BY Zenon DEF IInv, TypeOK, Storing
<1>5. Probing' /\ Storing'
  BY <1>4 DEF IInv, TypeOK, Probing, Storing
<1> QED
  BY Zenon, <1>1, <1>2, <1>3, <1>5 DEF IInv

\* So does a return that has written nothing.
LEMMA ReturnKeeps ==
  ASSUME IInv, ~aborted, NEW t \in Thread, pc[t] = "probe", Return(t),
         UNCHANGED <<key, val, todo, aborted>>, found' \in [Thread -> Value \cup {NoAnswer}]
  PROVE  IInv'
<1> USE Indices DEF Return
<1>1. TypeOK'
  <2>1. pc' \in [Thread -> PC] /\ op' \in [Thread -> Ops \cup {"none"}]
    BY Zenon DEF IInv, TypeOK, PC
  <2>2. k' \in [Thread -> Key \cup {0}] /\ v' \in [Thread -> Value]
    BY Zenon DEF IInv, TypeOK
  <2>3. index' \in [Thread -> 0 .. Size]
    BY DEF IInv, TypeOK
  <2> QED
    BY Zenon, <2>1, <2>2, <2>3 DEF IInv, TypeOK
<1>2. ChainIntact' /\ PadIntact' /\ FreeIsZero'
  BY Zenon, Outside DEF IInv, TypeOK
<1>3. Exclusive'
  BY Zenon DEF IInv, TypeOK, Exclusive, Inside, Writes
<1>4. Probing' /\ Storing'
  BY DEF IInv, TypeOK, Probing, Storing
<1> QED
  BY Zenon, <1>1, <1>2, <1>3, <1>4 DEF IInv

\* Put and GetOrPut pass an entry of another key.
LEMMA AdvanceKeeps ==
  ASSUME IInv, ~aborted, NEW t \in Thread, Advance(t)
  PROVE  IInv'
<1> USE Indices DEF Advance
<1>1. /\ k[t] \in Key /\ index[t] \in 0 .. Size - 1 /\ Hash[k[t]] <= index[t]
      /\ \A u \in Thread \ {t} : ~Inside(u)
  BY DEF IInv, TypeOK, Probing, Storing, Exclusive, Inside, Writes
<1>2. TypeOK'
  BY <1>1 DEF IInv, TypeOK, PC
<1>3. ChainIntact' /\ PadIntact' /\ Exclusive'
  BY Zenon DEF IInv, ChainIntact, PadIntact, Exclusive, Inside
<1>6. FreeIsZero'
  <2>1. \A u \in Thread : pc[u] # "store"
    BY DEF IInv, TypeOK, Storing, Exclusive, Inside, Writes
  <2> QED
    BY Zenon, <2>1 DEF IInv, FreeIsZero
<1>4. Probing'
  <2>1. \A u \in Thread \ {t} : pc'[u] \notin {"probe", "store"}
    BY Zenon, <1>1 DEF Inside
  <2>2. /\ pc'[t] = "probe" /\ k'[t] = k[t] /\ index'[t] = index[t] + 1 /\ key' = key
        /\ aborted' = (index[t] + 1 >= Size - 1)
    BY Zenon DEF IInv, TypeOK
  <2>3. \A j \in Hash[k[t]] .. index[t] : key[j] \notin {0, k[t]}
    BY <1>1 DEF IInv, Probing
  <2> QED
    <3>1. Hash[k'[t]] <= index'[t]
      BY <1>1, <2>2
    <3>2. \A j \in Hash[k'[t]] .. index'[t] - 1 : j < Size => key'[j] \notin {0, k'[t]}
      BY <1>1, <2>2, <2>3
    <3>3. ~aborted' => ~(index[t] + 1 >= Size - 1)
      BY Zenon, <2>2
    <3>4. ~aborted' => index'[t] < Size /\ (index'[t] = Size - 1 => Hash[k'[t]] = Size - 1)
      BY <1>1, <2>2, <3>3
    <3> QED
      BY Zenon, <2>1, <3>1, <3>2, <3>4 DEF Probing
<1>5. Storing'
  BY <1>1 DEF IInv, TypeOK, Storing, Inside
<1> QED
  BY Zenon, <1>2, <1>3, <1>6, <1>4, <1>5 DEF IInv

\* Put and GetOrPut reach the entry they will write.
LEMMA ArriveKeeps ==
  ASSUME IInv, ~aborted, NEW t \in Thread, Arrive(t)
  PROVE  IInv'
<1> USE Indices DEF Arrive
<1>1. TypeOK'
  BY Zenon DEF IInv, TypeOK, PC
<1>2. ChainIntact' /\ PadIntact' /\ FreeIsZero'
  BY Zenon, Outside DEF IInv, TypeOK
<1>3. Exclusive'
  BY Zenon DEF IInv, TypeOK, Exclusive, Inside, Writes
<1>4. Probing'
  BY DEF IInv, TypeOK, Probing, Storing
<1>5. op[t] = "GetOrPut" => val[index[t]] = 0
  <2>1. k[t] \in Key /\ index[t] \in 0 .. Size - 1
    BY Zenon, Prober
  <2>2. Inside(t) /\ (op[t] = "GetOrPut" => Writes(op[t])) /\ pc[t] # "store"
    BY Zenon DEF Inside, Writes
  <2>3. op[t] = "GetOrPut" => \A u \in Thread : pc[u] # "store"
    <3>1. ASSUME op[t] = "GetOrPut", NEW u \in Thread, pc[u] = "store" PROVE FALSE
      BY Zenon, <2>2, <3>1 DEF IInv, Exclusive, Inside
    <3> QED
      BY Zenon, <3>1
  <2> QED
    BY Zenon, <2>1, <2>3 DEF IInv, FreeIsZero
<1>6. Storing'
  <2>1. \A u \in Thread \ {t} : pc'[u] = pc[u] /\ todo'[u] = todo[u]
    BY Zenon DEF IInv, TypeOK
  <2>2. pc'[t] = "store" /\ todo'[t] = {"value", "key"}
    BY Zenon DEF IInv, TypeOK
  <2> QED
    BY <1>5, <2>1, <2>2 DEF IInv, Storing
<1> QED
  BY Zenon, <1>1, <1>2, <1>3, <1>4, <1>6 DEF IInv

\* Lookup and Replace pass an entry of another key.
LEMMA LookOnKeeps ==
  ASSUME IInv, ~aborted, NEW t \in Thread, LookOn(t)
  PROVE  IInv'
<1> USE Indices DEF LookOn
<1>1. k[t] \in Key /\ index[t] \in 0 .. Size - 1 /\ Hash[k[t]] <= index[t]
  BY DEF IInv, TypeOK, Probing, Storing
<1>2. TypeOK'
  BY <1>1 DEF IInv, TypeOK, PC
<1>3. ChainIntact' /\ PadIntact' /\ Exclusive'
  BY Zenon DEF IInv, ChainIntact, PadIntact, Exclusive, Inside
<1>6. FreeIsZero'
  <2>1. \A u \in Thread : pc[u] # "store"
    BY DEF IInv, TypeOK, Storing, Exclusive, Inside, Writes
  <2> QED
    BY Zenon, <2>1 DEF IInv, FreeIsZero
<1>4. Probing'
  BY <1>1 DEF IInv, TypeOK, Probing
<1>5. Storing'
  BY <1>1 DEF IInv, TypeOK, Storing
<1> QED
  BY Zenon, <1>2, <1>3, <1>6, <1>4, <1>5 DEF IInv

\* GetOrPut leaves a key that has code.
LEMMA AlreadyThereKeeps ==
  ASSUME IInv, ~aborted, NEW t \in Thread, AlreadyThere(t)
  PROVE  IInv'
<1>1. pc[t] = "probe" /\ Return(t) /\ UNCHANGED <<key, val, todo, found, aborted>>
  BY Zenon DEF AlreadyThere
<1>2. found' \in [Thread -> Value \cup {NoAnswer}]
  BY Zenon, <1>1 DEF IInv, TypeOK
<1> QED
  BY Zenon, <1>1, <1>2, ReturnKeeps

\* Lookup returns.
LEMMA LookupKeeps ==
  ASSUME IInv, ~aborted, NEW t \in Thread, LookupReturns(t)
  PROVE  IInv'
<1> USE Indices
<1>1. index[t] \in Slot
  BY Zenon DEF LookupReturns, IInv, TypeOK, Probing
<1>2. found' \in [Thread -> Value \cup {NoAnswer}]
  BY Zenon, <1>1 DEF LookupReturns, IInv, TypeOK
<1> QED
  BY Zenon, ReturnKeeps, <1>2 DEF LookupReturns

\* Replace does not find its key: it throws or waits for itself.
LEMMA ReplaceMissingKeeps ==
  ASSUME IInv, ~aborted, NEW t \in Thread, ReplaceMissing(t)
  PROVE  IInv'
<1> USE Indices
<1>1. CASE Return(t)
  BY Zenon, ReturnKeeps, <1>1 DEF ReplaceMissing, IInv, TypeOK
<1>2. CASE pc' = [pc EXCEPT ![t] = "stuck"] /\ UNCHANGED <<op, k, v, index>>
  <2> USE <1>2 DEF ReplaceMissing
  <2>1. TypeOK'
    BY Zenon DEF IInv, TypeOK, PC
  <2>2. ChainIntact' /\ PadIntact' /\ FreeIsZero'
    BY Zenon, Outside DEF IInv, TypeOK
  <2>3. Exclusive'
    BY Zenon DEF IInv, TypeOK, Exclusive, Inside, Writes
  <2>4. Probing' /\ Storing'
    BY DEF IInv, TypeOK, Probing, Storing
  <2> QED
    BY Zenon, <2>1, <2>2, <2>3, <2>4 DEF IInv
<1> QED
  BY Zenon, <1>1, <1>2 DEF ReplaceMissing

\* The invariant depends on the table's variables only.
LEMMA StutterKeeps ==
  ASSUME IInv, UNCHANGED vars
  PROVE  IInv'
<1>1. UNCHANGED <<key, val, pc, op, k, v, index, todo, found, aborted>>
  BY Zenon DEF vars, local
<1>2. TypeOK' /\ Exclusive'
  BY Zenon, <1>1 DEF IInv, TypeOK, Exclusive, Inside, Writes
<1>3. ChainIntact' /\ PadIntact'
  BY Zenon, <1>1 DEF IInv, ChainIntact, PadIntact
<1>4. FreeIsZero'
  BY Zenon, <1>1 DEF IInv, FreeIsZero
<1>5. Probing' /\ Storing'
  BY Zenon, <1>1 DEF IInv, Probing, Storing
<1> QED
  BY Zenon, <1>2, <1>3, <1>4, <1>5 DEF IInv

\* Every step keeps the invariant, as long as nothing is removed.
LEMMA TableNext == NoRemoval /\ IInv /\ [Next]_vars => IInv'
<1> SUFFICES ASSUME NoRemoval, IInv, [Next]_vars PROVE IInv'
  BY Zenon
<1>1. ~Clear /\ \A t \in Thread : ~RemoveStep(t)
  BY Zenon DEF NoRemoval, Clear, RemoveStep, IInv, TypeOK
<1>2. CASE UNCHANGED vars
  BY Zenon, <1>2, StutterKeeps
<1>3. CASE Next
  <2>1. ~aborted
    BY Zenon, <1>3 DEF Next
  <2>2. CASE \E t \in Thread : Step(t)
    BY Zenon, <2>1, <2>2, <1>1, AcquireKeeps, AdvanceKeeps, ArriveKeeps, LookOnKeeps,
       AlreadyThereKeeps, LookupKeeps, ReplaceMissingKeeps, ReplaceKeeps, StoreKeeps DEF Step
  <2> QED
    BY Zenon, <2>1, <2>2, <1>1, <1>3, CallKeeps DEF Next
<1> QED
  BY Zenon, <1>2, <1>3

\* The invariant holds in every reachable state while nothing is removed.
THEOREM TableInvariant == ASSUME NoRemoval PROVE Spec => []IInv
<1>1. IInv /\ [Next]_vars => IInv'
  BY Zenon, TableNext
<1> QED
  BY <1>1, TableInit, PTL DEF Spec

\* Put and GetOrPut keep every key reachable from its hash and in the table once.
THEOREM TableChainIntact == ASSUME NoRemoval PROVE Spec => []ChainIntact
<1>1. IInv => ChainIntact
  BY Zenon DEF IInv
<1> QED
  BY <1>1, TableInvariant, PTL

\* They never write past the hashed part, where unlocked readers stop.
THEOREM TablePadIntact == ASSUME NoRemoval PROVE Spec => []PadIntact
<1>1. IInv => PadIntact
  BY Zenon DEF IInv
<1> QED
  BY <1>1, TableInvariant, PTL

\* The lock as the other invariants use it: who is in, and what they do.
LockInv == pc \in [Thread -> PC] /\ op \in [Thread -> Ops \cup {"none"}] /\ Exclusive

\* A thread that stays where it is, or leaves, keeps exclusion.
LEMMA LeavingExcludes ==
  ASSUME LockInv, NEW t \in Thread, Inside(t), Return(t) \/ UNCHANGED <<pc, op>>
  PROVE  LockInv'
BY Zenon DEF LockInv, Return, PC, Exclusive, Inside, Writes

\* Every step, removals and clears included, keeps the lock exclusive.
LEMMA LockNext == LockInv /\ [Next]_vars => LockInv'
<1> SUFFICES ASSUME LockInv, [Next]_vars PROVE LockInv'
  BY Zenon
<1>1. ASSUME UNCHANGED <<pc, op>> PROVE LockInv'
  BY Zenon, <1>1 DEF LockInv, Exclusive, Inside, Writes
<1>2. ASSUME NEW t \in Thread, Step(t) PROVE LockInv'
  <2>1. CASE Acquire(t)
    BY <2>1 DEF LockInv, Acquire, PC, Exclusive, Inside, Writes
  <2>2. CASE Arrive(t)
    BY Zenon, <2>2 DEF LockInv, Arrive, PC, Exclusive, Inside, Writes
  <2>3. CASE Advance(t) \/ LookOn(t)
    BY Zenon, <1>1, <2>3 DEF Advance, LookOn
  <2>4. CASE AlreadyThere(t) \/ LookupReturns(t) \/ ReplaceValue(t)
    BY Zenon, <2>4, LeavingExcludes DEF AlreadyThere, LookupReturns, ReplaceValue, Inside
  <2>5. CASE \E w \in {"value", "key"} : Store(t, w)
    BY Zenon, <2>5, LeavingExcludes DEF Store, Inside
  <2>6. CASE ReplaceMissing(t)
    <3>1. CASE Return(t)
      BY Zenon, <2>6, <3>1, LeavingExcludes DEF ReplaceMissing, Inside
    <3>2. CASE pc' = [pc EXCEPT ![t] = "stuck"] /\ op' = op
      BY Zenon, <2>6, <3>2 DEF ReplaceMissing, LockInv, PC, Exclusive, Inside, Writes
    <3> QED
      BY Zenon, <2>6, <3>1, <3>2 DEF ReplaceMissing
  <2>7. CASE RemoveStep(t)
    BY Zenon, <2>7, LeavingExcludes DEF RemoveStep, Inside
  <2> QED
    BY Zenon, <1>2, <2>1, <2>2, <2>3, <2>4, <2>5, <2>6, <2>7 DEF Step
<1>3. ASSUME NEW t \in Thread, NEW o \in Ops, NEW a, NEW b, Call(t, o, a, b) PROVE LockInv'
  BY Zenon, <1>3 DEF LockInv, Call, PC, Exclusive, Inside, Writes
<1>4. ASSUME Clear \/ UNCHANGED vars PROVE LockInv'
  BY Zenon, <1>1, <1>4 DEF Clear, vars, local
<1> QED
  BY Zenon, <1>2, <1>3, <1>4 DEF Next

-----------------------------------------------------------------------------
(* Lookups, with removals and clears.                                      *)

\* The value of entry i is code of the entry's key, or 0, unless a store of it
\* is still to come.
EntrySound(i) ==
    key[i] \in Key => \/ val[i] \in Code[key[i]] \cup {0}
                      \/ \E t \in Thread : pc[t] = "store" /\ index[t] = i /\ "value" \in todo[t]

\* What a thread knows in an operation, removals and clears included: a store in
\* progress still has the entry for itself, though Clear may have wiped it.
Knows(t) ==
    /\ pc[t] = "idle" <=> op[t] = "none"
    /\ pc[t] # "idle" => k[t] \in Key
    /\ op[t] \in {"Put", "GetOrPut", "Replace"} => v[t] \in Code[k[t]]
    /\ op[t] \in {"Put", "GetOrPut", "Replace", "Lookup"} /\ ~aborted => index[t] < Size
    /\ pc[t] = "store" => /\ op[t] \in {"Put", "GetOrPut"} /\ ~aborted /\ key[index[t]] \in {0, k[t]}
                          /\ "value" \notin todo[t] => val[index[t]] \in {v[t], 0}

LookInv ==
    /\ TypeOK /\ Exclusive
    /\ \A t \in Thread : Knows(t)
    /\ \A i \in Slot : EntrySound(i)

\* Whoever is in an operation that writes is alone.
LEMMA Alone ==
  ASSUME LookInv, NEW t \in Thread, Inside(t), Writes(op[t])
  PROVE  \A u \in Thread \ {t} : ~Inside(u) /\ pc[u] # "store"
BY Zenon DEF LookInv, Exclusive, Inside

\* While a reader is in the table no store is in progress.
LEMMA NoStoreSeen ==
  ASSUME LookInv, NEW t \in Thread, Inside(t), pc[t] # "store"
  PROVE  \A u \in Thread : pc[u] # "store"
<1> SUFFICES ASSUME NEW u \in Thread, pc[u] = "store" PROVE FALSE
  BY Zenon
<1>1. op[u] \in {"Put", "GetOrPut"} /\ u # t
  BY Zenon DEF LookInv, Knows
<1> QED
  BY Zenon, <1>1 DEF LookInv, Exclusive, Inside, Writes

\* A step of thread t that writes no entry: the others know what they knew.
LEMMA NothingWritten ==
  ASSUME LookInv, NEW t \in Thread, UNCHANGED <<key, val>>, aborted => aborted', TypeOK', Exclusive', Knows(t)',
         pc[t] # "store", aborted' => \A u \in Thread : pc[u] # "store",
         \A u \in Thread \ {t} : pc'[u] = pc[u] /\ op'[u] = op[u] /\ k'[u] = k[u] /\ v'[u] = v[u]
                                 /\ index'[u] = index[u] /\ todo'[u] = todo[u]
  PROVE  LookInv'
<1>1. ASSUME NEW u \in Thread \ {t} PROVE Knows(u)'
  <2>1. Knows(u) /\ (~aborted' => ~aborted) /\ (pc[u] = "store" => ~aborted')
    BY Zenon DEF LookInv
  <2> QED
    BY Zenon, <2>1 DEF Knows
<1>2. \A i \in Slot : EntrySound(i)'
  BY DEF LookInv, EntrySound
<1> QED
  BY Zenon, <1>1, <1>2 DEF LookInv

\* Put and GetOrPut store a word: the entry is sound again when both are there.
LEMMA StoreSound ==
  ASSUME LookInv, ~aborted, NEW t \in Thread, NEW w \in {"value", "key"}, Store(t, w)
  PROVE  LookInv'
<1> USE Indices
<1>0. PICK e, b : e = index[t] /\ b = k[t]
  BY Zenon
<1> USE <1>0
<1>1. /\ pc[t] = "store" /\ Knows(t) /\ Inside(t) /\ Writes(op[t]) /\ aborted' = aborted
  BY Zenon DEF Store, LookInv, Knows, Inside, Writes
<1>2. /\ b \in Key /\ e \in 0 .. Size - 1 /\ e \in Slot /\ key[e] \in {0, b} /\ v[t] \in Code[b]
      /\ "value" \notin todo[t] => val[e] \in {v[t], 0}
  BY <1>1 DEF LookInv, TypeOK, Knows
<1>3. \A u \in Thread \ {t} : ~Inside(u) /\ pc[u] # "store"
  BY Zenon, <1>1, Alone
<1>4. /\ key \in [Slot -> Key \cup {0, Sentinel}] /\ val \in [Slot -> Value]
      /\ todo \in [Thread -> SUBSET {"value", "key"}]
  BY Zenon DEF LookInv, TypeOK
<1>5. TypeOK'
  BY Zenon, <1>2, StoreTyped DEF LookInv
<1>6. \A u \in Thread \ {t} : pc'[u] = pc[u] /\ k'[u] = k[u] /\ v'[u] = v[u] /\ op'[u] = op[u]
                              /\ index'[u] = index[u] /\ todo'[u] = todo[u]
  BY DEF Store, Return, LookInv, TypeOK
<1>7. Exclusive'
  BY Zenon, <1>3, <1>6 DEF Exclusive, Inside
<1>8. /\ \A i \in Slot : i # e => key'[i] = key[i] /\ val'[i] = val[i]
      /\ w = "value" => val'[e] = v[t] /\ key'[e] = key[e]
      /\ w = "key" => val'[e] = val[e] /\ key'[e] = b
  BY Zenon, <1>2, <1>4 DEF Store
<1>9. /\ todo[t] = {w} => pc'[t] = "idle" /\ op'[t] = "none"
      /\ todo[t] # {w} => /\ pc'[t] = "store" /\ op'[t] = op[t] /\ k'[t] = b /\ v'[t] = v[t]
                          /\ index'[t] = e /\ todo'[t] = todo[t] \ {w}
  BY Zenon, <1>1 DEF Store, Return, LookInv, TypeOK
<1>10. \A u \in Thread \ {t} : Knows(u)'
  BY <1>1, <1>3, <1>6 DEF LookInv, Knows
<1>11. Knows(t)'
  <2>1. CASE todo[t] = {w}
    BY Zenon, <1>9, <2>1 DEF Knows
  <2>2. CASE todo[t] # {w}
    BY Zenon, <1>1, <1>2, <1>8, <1>9, <2>2 DEF Knows
  <2> QED
    BY Zenon, <2>1, <2>2
<1>12. ASSUME NEW i \in Slot PROVE EntrySound(i)'
  <2>1. CASE i # e
    BY <1>2, <1>3, <1>8, <2>1 DEF LookInv, EntrySound
  <2>2. CASE i = e /\ w = "value"
    BY Zenon, <1>2, <1>8, <2>2 DEF EntrySound
  <2>3. CASE i = e /\ w = "key" /\ "value" \notin todo[t]
    BY Zenon, <1>2, <1>8, <2>3 DEF EntrySound
  <2>4. CASE i = e /\ w = "key" /\ "value" \in todo[t]
    BY <1>9, <2>4 DEF EntrySound
  <2> QED
    BY Zenon, <2>1, <2>2, <2>3, <2>4
<1> QED
  BY Zenon, <1>5, <1>7, <1>10, <1>11, <1>12 DEF LookInv

\* Replace stores code of the key it has found.
LEMMA ReplaceSound ==
  ASSUME LookInv, ~aborted, NEW t \in Thread, ReplaceValue(t)
  PROVE  LookInv'
<1> USE Indices
<1>1. /\ pc[t] = "probe" /\ Knows(t) /\ Inside(t) /\ Writes(op[t]) /\ op[t] = "Replace" /\ key' = key
  BY Zenon DEF ReplaceValue, LookInv, Inside, Writes
<1>2. index[t] \in Slot /\ k[t] \in Key /\ v[t] \in Code[k[t]] /\ key[index[t]] = k[t]
  BY Zenon, <1>1 DEF LookInv, TypeOK, Knows, ReplaceValue
<1>3. \A u \in Thread : pc[u] # "store"
  BY Zenon, <1>1, NoStoreSeen
<1>4. TypeOK'
  BY <1>2 DEF LookInv, TypeOK, PC, ReplaceValue, Return
<1>5. \A u \in Thread \ {t} : pc'[u] = pc[u] /\ k'[u] = k[u] /\ v'[u] = v[u] /\ op'[u] = op[u]
                              /\ index'[u] = index[u] /\ todo'[u] = todo[u]
  BY Zenon DEF ReplaceValue, Return, LookInv, TypeOK
<1>6. pc'[t] = "idle" /\ op'[t] = "none" /\ aborted' = aborted
  BY Zenon DEF ReplaceValue, Return, LookInv, TypeOK
<1>7. Exclusive'
  BY Zenon, <1>5, <1>6 DEF LookInv, Exclusive, Inside
<1>8. \A u \in Thread : Knows(u)'
  BY <1>3, <1>5, <1>6 DEF LookInv, Knows
<1>9. \A i \in Slot : EntrySound(i)'
  <2>1. val' = [val EXCEPT ![index[t]] = v[t]] /\ val \in [Slot -> Value]
    BY Zenon DEF ReplaceValue, LookInv, TypeOK
  <2> QED
    BY Zenon, <1>1, <1>2, <1>3, <2>1 DEF LookInv, EntrySound
<1> QED
  BY Zenon, <1>4, <1>7, <1>8, <1>9 DEF LookInv

\* Remove wipes the key, and leaves the value.
LEMMA RemoveSound ==
  ASSUME LookInv, ~aborted, NEW t \in Thread, RemoveStep(t)
  PROVE  LookInv'
<1> USE Indices
<1>1. pc[t] = "probe" /\ op[t] = "Remove" /\ Knows(t) /\ Inside(t) /\ Writes(op[t])
      /\ val' = val /\ todo' = todo /\ aborted' = aborted /\ found' = found
  BY Zenon DEF RemoveStep, LookInv, Inside, Writes
<1>2. \A u \in Thread : pc[u] # "store"
  BY Zenon, <1>1, NoStoreSeen
<1>3. key' = key \/ key' = [key EXCEPT ![index[t]] = 0]
  BY Zenon DEF RemoveStep
<1>4. \/ Return(t)
      \/ \E n \in {0, Size} : index' = [index EXCEPT ![t] = n] /\ UNCHANGED <<pc, op, k, v>>
  BY Zenon DEF RemoveStep
<1>5. TypeOK'
  <2>1. key' \in [Slot -> Key \cup {0, Sentinel}]
    BY Zenon, <1>3 DEF LookInv, TypeOK
  <2>2. /\ pc' \in [Thread -> PC] /\ op' \in [Thread -> Ops \cup {"none"}]
        /\ k' \in [Thread -> Key \cup {0}] /\ v' \in [Thread -> Value]
        /\ index' \in [Thread -> 0 .. Size]
    BY <1>4 DEF LookInv, TypeOK, PC, Return
  <2> QED
    BY Zenon, <1>1, <2>1, <2>2 DEF LookInv, TypeOK
<1>6. \A u \in Thread \ {t} : pc'[u] = pc[u] /\ k'[u] = k[u] /\ v'[u] = v[u] /\ op'[u] = op[u]
                              /\ index'[u] = index[u]
  BY <1>4 DEF Return, LookInv, TypeOK
<1>7. \/ pc'[t] = "idle" /\ op'[t] = "none"
      \/ pc'[t] = pc[t] /\ op'[t] = op[t] /\ k'[t] = k[t]
  BY Zenon, <1>4 DEF Return, LookInv, TypeOK
<1>8. Exclusive'
  BY Zenon, <1>6, <1>7 DEF LookInv, Exclusive, Inside
<1>9. \A u \in Thread : Knows(u)'
  BY <1>1, <1>2, <1>6, <1>7 DEF LookInv, Knows
<1>10. \A i \in Slot : EntrySound(i)'
  BY <1>1, <1>2, <1>3, Indices DEF LookInv, TypeOK, EntrySound
<1> QED
  BY <1>5, <1>8, <1>9, <1>10 DEF LookInv

\* Clear wipes everything, under the feet of whoever is storing.
LEMMA ClearSound ==
  ASSUME LookInv, Clear
  PROVE  LookInv'
<1> USE Indices
<1>1. UNCHANGED <<pc, op, k, v, index, todo, found, aborted>>
      /\ key' = [i \in Slot |-> 0] /\ val' = [i \in Slot |-> 0]
  BY Zenon DEF Clear, local
<1>2. TypeOK'
  BY Zenon, <1>1 DEF LookInv, TypeOK
<1>3. Exclusive'
  BY Zenon, <1>1 DEF LookInv, Exclusive, Inside, Writes
<1>4. \A t \in Thread : Knows(t)'
  BY Zenon, <1>1 DEF LookInv, TypeOK, Knows
<1>5. \A i \in Slot : EntrySound(i)'
  BY Zenon, <1>1 DEF EntrySound
<1> QED
  BY Zenon, <1>2, <1>3, <1>4, <1>5 DEF LookInv

\* An operation begins.
LEMMA CallSound ==
  ASSUME LookInv, ~aborted, NEW t \in Thread, NEW o \in Ops, NEW a \in Key,
         NEW b \in Code[a] \cup {0}, o \in {"Put", "GetOrPut", "Replace"} => b \in Code[a],
         Call(t, o, a, b), Exclusive'
  PROVE  LookInv'
<1> USE Indices DEF Call
<1>1. TypeOK'
  BY DEF LookInv, TypeOK, PC
<1>2. Knows(t)'
  BY TableAssumption DEF LookInv, TypeOK, Knows
<1>3. pc[t] # "store" /\ aborted' = aborted
  BY Zenon
<1>4. \A u \in Thread \ {t} : pc'[u] = pc[u] /\ op'[u] = op[u] /\ k'[u] = k[u] /\ v'[u] = v[u]
                              /\ index'[u] = index[u] /\ todo'[u] = todo[u]
  BY Zenon DEF LookInv, TypeOK
<1> QED
  BY <1>1, <1>2, <1>3, <1>4, NothingWritten

\* An operation takes the lock, or reaches the entry that it will write.
LEMMA EntersSound ==
  ASSUME LookInv, ~aborted, NEW t \in Thread, Acquire(t) \/ Arrive(t), Exclusive'
  PROVE  LookInv'
<1> USE DEF Acquire, Arrive
<1>1. TypeOK'
  BY DEF LookInv, TypeOK, PC
<1>2. Knows(t)'
  BY DEF LookInv, TypeOK, Knows
<1>3. pc[t] # "store" /\ aborted' = aborted
  BY Zenon
<1>4. \A u \in Thread \ {t} : pc'[u] = pc[u] /\ op'[u] = op[u] /\ k'[u] = k[u] /\ v'[u] = v[u]
                              /\ index'[u] = index[u] /\ todo'[u] = todo[u]
  BY Zenon DEF LookInv, TypeOK
<1> QED
  BY Zenon, <1>1, <1>2, <1>3, <1>4, NothingWritten

\* A probe steps on.
LEMMA ProbeSound ==
  ASSUME LookInv, ~aborted, NEW t \in Thread, Advance(t) \/ LookOn(t), Exclusive'
  PROVE  LookInv'
<1> USE Indices DEF Advance, LookOn
<1>1. /\ pc[t] = "probe" /\ Inside(t) /\ index[t] \in 0 .. Size - 1 /\ Knows(t)
      /\ index' = [index EXCEPT ![t] = @ + 1] /\ UNCHANGED <<key, val, pc, op, k, v, todo, found>>
  BY DEF LookInv, TypeOK, Knows, Inside
<1>2. \A u \in Thread : pc[u] # "store"
  BY Zenon, <1>1, NoStoreSeen
<1>3. TypeOK'
  <2>1. aborted' \in BOOLEAN
    <3>1. CASE LookOn(t)
      BY Zenon, <3>1 DEF LookInv, TypeOK
    <3>2. CASE Advance(t)
      <4>1. aborted' = (index[t] + 1 >= Size - 1)
        BY Zenon, <3>2
      <4> QED
        BY ONLY <4>1
    <3> QED
      BY Zenon, <3>1, <3>2
  <2> QED
    BY <1>1, <2>1 DEF LookInv, TypeOK
<1>4. Knows(t)'
  <2>1. index'[t] = index[t] + 1
    BY Zenon, <1>1 DEF LookInv, TypeOK
  <2>2. ~aborted' => ~(index[t] + 1 >= Size - 1)
    <3>1. CASE LookOn(t)
      BY <1>1, <3>1
    <3>2. CASE Advance(t)
      BY Zenon, <3>2
    <3> QED
      BY Zenon, <3>1, <3>2
  <2> QED
    BY <1>1, <2>1, <2>2 DEF Knows
<1>5. \A u \in Thread \ {t} : pc'[u] = pc[u] /\ op'[u] = op[u] /\ k'[u] = k[u] /\ v'[u] = v[u]
                              /\ index'[u] = index[u] /\ todo'[u] = todo[u]
  BY Zenon, <1>1 DEF LookInv, TypeOK
<1> QED
  BY Zenon, <1>1, <1>2, <1>3, <1>4, <1>5, NothingWritten

\* An operation returns without having written, or waits for ever.
LEMMA ReturnSound ==
  ASSUME LookInv, ~aborted, NEW t \in Thread, Exclusive',
         AlreadyThere(t) \/ LookupReturns(t) \/ ReplaceMissing(t)
  PROVE  LookInv'
<1> USE Indices
<1>1. pc[t] = "probe" /\ Inside(t) /\ Knows(t) /\ UNCHANGED <<key, val, todo, aborted>>
  BY Zenon DEF LookInv, Inside, AlreadyThere, LookupReturns, ReplaceMissing
<1>2. Return(t) \/ (pc' = [pc EXCEPT ![t] = "stuck"] /\ UNCHANGED <<op, k, v, index>>)
  BY Zenon DEF AlreadyThere, LookupReturns, ReplaceMissing
<1>3. found' \in [Thread -> Value \cup {NoAnswer}]
  <2>1. index[t] \in Slot /\ val[index[t]] \in Value
    BY Zenon DEF LookInv, TypeOK
  <2>2. found' = found \/ \E x \in Value : found' = [found EXCEPT ![t] = x]
    BY Zenon, <2>1 DEF AlreadyThere, LookupReturns, ReplaceMissing
  <2> QED
    BY Zenon, <2>2 DEF LookInv, TypeOK
<1>4. TypeOK'
  <2>1. /\ pc' \in [Thread -> PC] /\ op' \in [Thread -> Ops \cup {"none"}]
        /\ k' \in [Thread -> Key \cup {0}] /\ v' \in [Thread -> Value]
        /\ index' \in [Thread -> 0 .. Size]
    BY <1>2 DEF LookInv, TypeOK, PC, Return
  <2> QED
    BY Zenon, <1>1, <1>3, <2>1 DEF LookInv, TypeOK
<1>5. Knows(t)'
  BY <1>1, <1>2 DEF LookInv, TypeOK, Knows, Return
<1>6. \A u \in Thread \ {t} : pc'[u] = pc[u] /\ op'[u] = op[u] /\ k'[u] = k[u] /\ v'[u] = v[u]
                              /\ index'[u] = index[u] /\ todo'[u] = todo[u]
  BY <1>1, <1>2 DEF LookInv, TypeOK, Return
<1> QED
  BY Zenon, <1>1, <1>4, <1>5, <1>6, NothingWritten

\* Every step keeps the entries sound.
LEMMA LookNext == LookInv /\ [Next]_vars => LookInv'
<1> SUFFICES ASSUME LookInv, [Next]_vars PROVE LookInv'
  BY Zenon
<1>1. Exclusive'
  <2>1. LockInv
    BY Zenon DEF LookInv, TypeOK, LockInv
  <2> QED
    BY Zenon, <2>1, LockNext DEF LockInv
<1>2. CASE UNCHANGED vars
  <2>1. UNCHANGED <<key, val, pc, op, k, v, index, todo, found, aborted>>
    BY Zenon, <1>2 DEF vars, local
  <2>2. TypeOK' /\ \A t \in Thread : Knows(t)'
    BY Zenon, <2>1 DEF LookInv, TypeOK, Knows
  <2>3. \A i \in Slot : EntrySound(i)'
    BY Zenon, <2>1 DEF LookInv, EntrySound
  <2> QED
    BY Zenon, <1>1, <2>2, <2>3 DEF LookInv
<1>3. CASE Next
  <2>1. ~aborted
    BY Zenon, <1>3 DEF Next
  <2>2. ASSUME NEW t \in Thread, Step(t) PROVE LookInv'
    BY Zenon, <1>1, <2>1, <2>2, EntersSound, ProbeSound, ReturnSound, StoreSound, ReplaceSound,
       RemoveSound DEF Step
  <2> QED
    BY Zenon, <1>1, <1>3, <2>1, <2>2, CallSound, ClearSound DEF Next
<1> QED
  BY Zenon, <1>2, <1>3

\* It holds in the empty table.
LEMMA LookInit == Init => LookInv
<1> SUFFICES ASSUME Init PROVE LookInv
  BY Zenon
<1>1. TypeOK /\ Exclusive
  BY Zenon, TableInit DEF IInv
<1>2. \A t \in Thread : Knows(t)
  BY Zenon DEF Init, Knows
<1>3. \A i \in Slot : EntrySound(i)
  BY Zenon DEF Init, EntrySound
<1> QED
  BY Zenon, <1>1, <1>2, <1>3 DEF LookInv

\* Lookup returns code translated for the location it was asked about, or 0,
\* whatever else runs: stores are never seen half-way, since Lookup holds the
\* lock shared, and neither Remove, which leaves the value in the entry, nor
\* Clear, which takes no lock, makes an entry pair a location with other code.
THEOREM TableLookupSound == Spec => LookupSound
<1>1. LookInv => [\A t \in Thread : LookupReturns(t) => found'[t] \in Code[k[t]] \cup {0}]_vars
  <2> SUFFICES ASSUME LookInv, NEW t \in Thread, LookupReturns(t)
               PROVE  found'[t] \in Code[k[t]] \cup {0}
    BY Zenon
  <2>1. pc[t] = "probe" /\ Inside(t) /\ k[t] \in Key /\ index[t] \in Slot
    BY Zenon, Indices DEF LookupReturns, LookInv, Knows, TypeOK, Inside
  <2>2. \A u \in Thread : pc[u] # "store"
    BY Zenon, <2>1, NoStoreSeen
  <2>3. key[index[t]] = k[t] => val[index[t]] \in Code[k[t]] \cup {0}
    BY Zenon, <2>1, <2>2 DEF LookInv, EntrySound
  <2> QED
    BY Zenon, <2>3 DEF LookupReturns, LookInv, TypeOK
<1> QED
  BY <1>1, LookInit, LookNext, PTL DEF Spec, LookupSound

\* A step writes no entry past the hashed part but with zeros: Put and GetOrPut
\* have aborted before they get there.
LEMMA PadStep == LookInv /\ PadFree /\ [Next]_vars => PadFree'
<1> SUFFICES ASSUME LookInv, PadFree, [Next]_vars, NEW i \in Size .. Size + Pad - 2
             PROVE  key'[i] = 0
  BY Zenon DEF PadFree
<1>1. key[i] = 0 /\ i \in Slot /\ i >= Size /\ key \in [Slot -> Key \cup {0, Sentinel}]
  BY Indices DEF PadFree, Slot, LookInv, TypeOK
<1>2. ASSUME ~aborted, NEW t \in Thread, NEW w \in {"value", "key"}, Store(t, w) PROVE key'[i] = 0
  <2>1. index[t] < Size /\ index[t] \in 0 .. Size
    BY Zenon, <1>2 DEF LookInv, TypeOK, Knows, Store
  <2>2. index[t] # i
    BY ONLY <1>1, <2>1, Indices
  <2> QED
    BY Zenon, <1>1, <1>2, <2>2 DEF Store
<1>3. ASSUME NEW t \in Thread, RemoveStep(t) PROVE key'[i] = 0
  BY Zenon, <1>1, <1>3 DEF RemoveStep
<1>4. ASSUME Clear PROVE key'[i] = 0
  BY Zenon, <1>1, <1>4 DEF Clear
<1>5. ASSUME UNCHANGED key PROVE key'[i] = 0
  BY Zenon, <1>1, <1>5
<1>6. ASSUME ~aborted, NEW t \in Thread, Step(t) PROVE key'[i] = 0
  BY Zenon, <1>2, <1>3, <1>5, <1>6 DEF Step, Acquire, Advance, Arrive, AlreadyThere, LookOn,
     LookupReturns, ReplaceValue, ReplaceMissing
<1> QED
  BY Zenon, <1>4, <1>5, <1>6 DEF Next, Call, vars

\* With any operations, Remove and the unlocked Clear included, the entries between
\* the hashed part and the sentinel stay empty: a reader without the lock that
\* runs off the hashed part stops at the first of them.
THEOREM TablePadFree == Spec => []PadFree
<1>1. Init => PadFree
  BY Indices DEF Init, PadFree, Slot
<1> QED
  BY <1>1, LookInit, LookNext, PadStep, PTL DEF Spec
-----------------------------------------------------------------------------
(* The table is the map of TranslateMap.                                   *)

\* The table's map, slot by slot.
LEMMA MapAt ==
  ASSUME IInv, NEW a \in Key, NEW i \in 0 .. Size - 1, key[i] = a
  PROVE  MapOf[a] = val[i]
<1> DEFINE c == CHOOSE j \in 0 .. Size - 1 : key[j] = a
<1>1. c \in 0 .. Size - 1 /\ key[c] = a
  BY Zenon
<1> HIDE DEF c
<1>2. c = i
  BY <1>1, Indices DEF IInv, ChainIntact
<1> QED
  BY Zenon, <1>2 DEF MapOf, c

\* The same in the next state.
LEMMA MapAtNext ==
  ASSUME IInv', NEW a \in Key, NEW i \in 0 .. Size - 1, key'[i] = a
  PROVE  MapOf'[a] = val'[i]
<1> DEFINE c == CHOOSE j \in 0 .. Size - 1 : key'[j] = a
<1>1. c \in 0 .. Size - 1 /\ key'[c] = a
  BY Zenon
<1> HIDE DEF c
<1>2. c = i
  BY <1>1, Indices DEF IInv, ChainIntact
<1> QED
  BY Zenon, <1>2 DEF MapOf, c

\* A key that is nowhere maps to 0.
LEMMA MapAbsent ==
  ASSUME NEW a \in Key
  PROVE  /\ (\A i \in 0 .. Size - 1 : key[i] # a) => MapOf[a] = 0
         /\ (\A i \in 0 .. Size - 1 : key'[i] # a) => MapOf'[a] = 0
BY Zenon DEF MapOf

\* The initial table is the empty map.
LEMMA MapInitial == Init => Map!MapInit
<1> SUFFICES ASSUME Init PROVE Map!MapInit
  BY Zenon
<1>1. \A i \in 0 .. Size - 1, a \in Key : key[i] # a
  BY Indices DEF Init, Slot
<1>2. MapOf = [a \in Key |-> 0]
  BY Zenon, <1>1 DEF MapOf
<1> QED
  BY Zenon, <1>2 DEF Init, CallOf, Map!MapInit, Map!Idle, Map!NoAnswer, NoAnswer

\* Nothing a key's entry holds changes: the map stays.
LEMMA MapSame ==
  ASSUME \A i \in 0 .. Size - 1, a \in Key : key'[i] = a <=> key[i] = a,
         \A i \in 0 .. Size - 1 : key[i] \in Key => val'[i] = val[i]
  PROVE  MapOf' = MapOf
<1> SUFFICES ASSUME NEW a \in Key
             PROVE  (IF \E i \in 0 .. Size - 1 : key'[i] = a
                     THEN val'[CHOOSE i \in 0 .. Size - 1 : key'[i] = a] ELSE 0)
                  = (IF \E i \in 0 .. Size - 1 : key[i] = a
                     THEN val[CHOOSE i \in 0 .. Size - 1 : key[i] = a] ELSE 0)
  BY ZenonT(30) DEF MapOf
<1>1. (CHOOSE i \in 0 .. Size - 1 : key'[i] = a) = (CHOOSE i \in 0 .. Size - 1 : key[i] = a)
  BY Zenon
<1> QED
  BY Zenon, <1>1

\* One key's entry changes: the map changes at that key.
LEMMA MapSet ==
  ASSUME IInv, IInv', NEW a \in Key, NEW s \in 0 .. Size - 1, key'[s] = a,
         \A i \in 0 .. Size - 1, b \in Key \ {a} : key'[i] = b <=> key[i] = b,
         \A i \in 0 .. Size - 1 : key[i] \in Key \ {a} => val'[i] = val[i]
  PROVE  MapOf' = [MapOf EXCEPT ![a] = val'[s]]
<1>1. MapOf'[a] = val'[s]
  BY Zenon, MapAtNext
<1>2. ASSUME NEW b \in Key \ {a} PROVE MapOf'[b] = MapOf[b]
  <2>1. CASE \E i \in 0 .. Size - 1 : key[i] = b
    <3>1. PICK i \in 0 .. Size - 1 : key[i] = b
      BY Zenon, <2>1
    <3>2. MapOf[b] = val[i] /\ MapOf'[b] = val'[i]
      BY <3>1, MapAt, MapAtNext
    <3> QED
      BY Zenon, <3>1, <3>2
  <2>2. CASE \A i \in 0 .. Size - 1 : key[i] # b
    BY Zenon, <2>2, MapAbsent
  <2> QED
    BY Zenon, <2>1, <2>2
<1>3. MapOf' = [b \in Key |-> MapOf'[b]] /\ MapOf = [b \in Key |-> MapOf[b]]
  BY Zenon DEF MapOf
<1> QED
  BY Zenon, <1>1, <1>2, <1>3

\* A probe that ends without the key: the key is nowhere.
LEMMA MissingMeansAbsent ==
  ASSUME IInv, ~aborted, NEW t \in Thread, pc[t] \in {"probe", "store"}, Missing(t)
  PROVE  \A i \in 0 .. Size - 1 : key[i] # k[t]
<1>1. /\ k[t] \in Key /\ index[t] \in 0 .. Size - 1 /\ Hash[k[t]] <= index[t]
      /\ index[t] = Size - 1 => Hash[k[t]] = Size - 1
      /\ \A j \in Hash[k[t]] .. index[t] - 1 : key[j] # k[t]
  <2>1. k[t] \in Key /\ index[t] \in 0 .. Size - 1
    BY Zenon, Prober
  <2>2. Hash[k[t]] <= index[t] /\ (index[t] = Size - 1 => Hash[k[t]] = Size - 1)
    BY Zenon DEF IInv, Probing
  <2>3. \A j \in Hash[k[t]] .. index[t] - 1 : j < Size => key[j] # k[t]
    BY Zenon DEF IInv, Probing
  <2> QED
    BY <2>1, <2>2, <2>3, Indices
<1> SUFFICES ASSUME NEW i \in 0 .. Size - 1, key[i] = k[t] PROVE FALSE
  BY Zenon
<1>2. /\ Hash[k[t]] <= i /\ (i = Size - 1 => Hash[k[t]] = i)
      /\ \A j \in Hash[k[t]] .. i - 1 : key[j] # 0
  BY Zenon, <1>1, Indices DEF IInv, ChainIntact
<1>3. i > index[t]
  BY <1>1, <1>2, Indices DEF Missing
<1> QED
  BY <1>1, <1>2, <1>3, Indices DEF Missing

\* The calls in progress, as the map sees them.
LEMMA Calls ==
  ASSUME TypeOK, NEW t \in Thread
  PROVE  /\ CallOf[t].op = op[t] /\ CallOf[t].key = k[t] /\ CallOf[t].value = v[t]
         /\ UNCHANGED <<op, k, v>> => CallOf' = CallOf
         /\ Return(t) => Map!End(t)
<1>1. CallOf[t].op = op[t] /\ CallOf[t].key = k[t] /\ CallOf[t].value = v[t]
  BY Zenon DEF CallOf
<1>2. UNCHANGED <<op, k, v>> => CallOf' = CallOf
  BY Zenon DEF CallOf
<1>3. ASSUME Return(t) PROVE Map!End(t)
  <2>1. /\ op'[t] = "none" /\ k'[t] = 0 /\ v'[t] = 0
        /\ \A u \in Thread \ {t} : op'[u] = op[u] /\ k'[u] = k[u] /\ v'[u] = v[u]
    BY Zenon, <1>3 DEF Return, TypeOK
  <2> QED
    BY Zenon, <2>1 DEF CallOf, Map!End, Map!Idle
<1> QED
  BY Zenon, <1>1, <1>2, <1>3

\* A call begins.
LEMMA CallBegins ==
  ASSUME NoRemoval, IInv, NEW t \in Thread, NEW o \in Ops, NEW a \in Key, NEW b \in Value,
         Call(t, o, a, b)
  PROVE  Map!MapNext
<1>1. /\ op'[t] = o /\ k'[t] = a /\ v'[t] = b
      /\ \A u \in Thread \ {t} : op'[u] = op[u] /\ k'[u] = k[u] /\ v'[u] = v[u]
  BY Zenon DEF Call, IInv, TypeOK
<1>2. CallOf' = [CallOf EXCEPT ![t] = [op |-> o, key |-> a, value |-> b]]
  BY Zenon, <1>1 DEF CallOf
<1>3. CallOf[t].op = "none"
  BY Zenon, Calls DEF Call, IInv, Storing
<1>4. UNCHANGED <<key, val>> /\ found' = [found EXCEPT ![t] = NoAnswer]
  BY Zenon DEF Call
<1>5. MapOf' = MapOf
  BY Zenon, <1>4, MapSame
<1>6. Map!Begin(t, o, a, b)
  BY Zenon, <1>2, <1>3, <1>4, <1>5 DEF Map!Begin, Map!NoAnswer, NoAnswer
<1>7. o \in Map!MapOps
  BY Zenon, TableAssumption DEF NoRemoval, Map!MapOps
<1> QED
  BY Zenon, <1>6, <1>7 DEF Map!MapNext

\* A writer's value is about to show in the map, or has just done so: what the
\* map holds for the key afterwards is the value the call was given.
LEMMA EffectShows ==
  ASSUME IInv, NEW t \in Thread, op[t] \in {"Put", "GetOrPut", "Replace"},
         op[t] = "GetOrPut" => MapOf[k[t]] \in {0, v[t]},
         MapOf' = [MapOf EXCEPT ![k[t]] = v[t]], found' = found
  PROVE  /\ UNCHANGED <<op, k, v>> => Map!Write(t)
         /\ Return(t) => Map!Finish(t)
<1>1. Map!Effect(t)
  BY Zenon, Calls DEF IInv, Map!Effect
<1> QED
  BY Zenon, <1>1, Calls DEF IInv, Map!Write, Map!Finish

\* The moment between the two stores of Put and GetOrPut.
LEMMA StoreFacts ==
  ASSUME IInv, ~aborted, NEW t \in Thread, NEW w \in {"value", "key"}, Store(t, w)
  PROVE  /\ k[t] \in Key /\ index[t] \in 0 .. Size - 1 /\ v[t] \in Value
         /\ key[index[t]] \in {0, k[t]} /\ op[t] \in {"Put", "GetOrPut"} /\ found' = found
         /\ "key" \notin todo[t] => key[index[t]] = k[t]
         /\ "value" \notin todo[t] => val[index[t]] = v[t]
         /\ key[index[t]] = 0 => val[index[t]] \in {0, v[t]}
<1>1. pc[t] = "store" /\ found' = found
  BY Zenon DEF Store
<1>2. k[t] \in Key /\ index[t] \in 0 .. Size - 1 /\ v[t] \in Value
  BY Zenon, <1>1, Prober
<1>3. /\ key[index[t]] \in {0, k[t]} /\ op[t] \in {"Put", "GetOrPut"}
      /\ "key" \notin todo[t] => key[index[t]] = k[t]
      /\ "value" \notin todo[t] => val[index[t]] = v[t]
  BY Zenon, <1>1 DEF IInv, Storing
<1>4. ASSUME key[index[t]] = 0, val[index[t]] # 0 PROVE val[index[t]] = v[t]
  <2>1. PICK u \in Thread : pc[u] = "store" /\ todo[u] = {"key"}
    BY Zenon, <1>2, <1>4 DEF IInv, FreeIsZero
  <2>2. u = t
    BY Zenon, <1>1, <1>3, <2>1 DEF IInv, Exclusive, Inside, Writes
  <2> QED
    BY <1>3, <2>1, <2>2
<1> QED
  BY Zenon, <1>1, <1>2, <1>3, <1>4

\* Steps that leave the entries, the calls and the answers alone are invisible.
LEMMA Invisible ==
  ASSUME TypeOK, MapOf' = MapOf, UNCHANGED <<op, k, v, found>>
  PROVE  UNCHANGED Map!mapVars
<1>1. CallOf' = CallOf
  BY Zenon DEF CallOf
<1> QED
  BY Zenon, <1>1 DEF Map!mapVars

\* A store that gives the key its value is the effect of the call.
LEMMA StoreShows ==
  ASSUME IInv, ~aborted, NEW t \in Thread, NEW w \in {"value", "key"}, Store(t, w),
         MapOf' = [MapOf EXCEPT ![k[t]] = v[t]], op[t] = "GetOrPut" => MapOf[k[t]] \in {0, v[t]}
  PROVE  Map!MapNext
<1>1. op[t] \in {"Put", "GetOrPut"} /\ found' = found
  BY Zenon, StoreFacts
<1>2. Return(t) \/ UNCHANGED <<op, k, v>>
  BY Zenon DEF Store
<1>3. Map!Write(t) \/ Map!Finish(t)
  BY Zenon, <1>1, <1>2, EffectShows
<1> QED
  BY Zenon, <1>3 DEF Map!MapNext

\* A store that leaves the map alone and another store to do is invisible.
LEMMA StoreHides ==
  ASSUME IInv, ~aborted, NEW t \in Thread, NEW w \in {"value", "key"}, Store(t, w),
         MapOf' = MapOf, todo[t] # {w}
  PROVE  UNCHANGED Map!mapVars
<1>1. UNCHANGED <<op, k, v, found>>
  BY Zenon DEF Store
<1> QED
  BY Zenon, <1>1, Invisible DEF IInv

\* The value store is seen if the entry already has the key.
LEMMA StoreValueStep ==
  ASSUME IInv, IInv', ~aborted, NEW t \in Thread, Store(t, "value")
  PROVE  [Map!MapNext]_(Map!mapVars)
<1>1. /\ k[t] \in Key /\ index[t] \in 0 .. Size - 1 /\ key[index[t]] \in {0, k[t]}
      /\ "key" \notin todo[t] => key[index[t]] = k[t]
  BY Zenon, StoreFacts
<1>2. /\ pc[t] = "store" /\ "value" \in todo[t]
      /\ key' = key /\ val' = [val EXCEPT ![index[t]] = v[t]]
  BY Zenon DEF Store
<1>3. val \in [Slot -> Value] /\ \A i \in 0 .. Size - 1 : i \in Slot
  BY Indices DEF IInv, TypeOK
<1>4. val'[index[t]] = v[t] /\ \A i \in 0 .. Size - 1 : i # index[t] => val'[i] = val[i]
  BY Zenon, <1>1, <1>2, <1>3
<1>5. CASE key[index[t]] = 0
  <2>1. \A i \in 0 .. Size - 1 : key[i] \in Key => i # index[t]
    BY Zenon, <1>5, Indices
  <2>2. MapOf' = MapOf
    BY Zenon, <1>2, <1>4, <2>1, MapSame
  <2>3. "key" \in todo[t]
    BY Zenon, <1>1, <1>5, Indices
  <2> QED
    BY Zenon, <2>2, <2>3, StoreHides
<1>6. CASE key[index[t]] = k[t]
  <2>1. MapOf' = [MapOf EXCEPT ![k[t]] = val'[index[t]]]
    BY <1>1, <1>2, <1>4, <1>6, MapSet
  <2>2. MapOf[k[t]] = val[index[t]]
    BY Zenon, <1>1, <1>6, MapAt
  <2>3. op[t] = "GetOrPut" => val[index[t]] = 0
    BY Zenon, <1>2 DEF IInv, Storing
  <2> QED
    BY Zenon, <1>4, <2>1, <2>2, <2>3, StoreShows
<1> QED
  BY Zenon, <1>1, <1>5, <1>6

\* The key store makes the entry's key k[t] and leaves the others.
LEMMA StoreKeyFacts ==
  ASSUME IInv, ~aborted, NEW t \in Thread, Store(t, "key")
  PROVE  /\ val' = val /\ key'[index[t]] = k[t]
         /\ \A i \in 0 .. Size - 1 : i # index[t] => key'[i] = key[i]
<1>1. index[t] \in 0 .. Size - 1
  BY Zenon, StoreFacts
<1>2. val' = val /\ key' = [key EXCEPT ![index[t]] = k[t]]
  BY Zenon DEF Store
<1>3. key \in [Slot -> Key \cup {0, Sentinel}] /\ \A i \in 0 .. Size - 1 : i \in Slot
  BY Indices DEF IInv, TypeOK
<1> QED
  BY Zenon, <1>1, <1>2, <1>3

\* Storing a key that is there changes nothing, and ends the call if the value is.
LEMMA StoreKeyAgain ==
  ASSUME IInv, IInv', ~aborted, NEW t \in Thread, Store(t, "key"), key[index[t]] = k[t]
  PROVE  [Map!MapNext]_(Map!mapVars)
<1>1. /\ k[t] \in Key /\ index[t] \in 0 .. Size - 1
      /\ "value" \notin todo[t] => val[index[t]] = v[t]
  BY Zenon, StoreFacts
<1>2. MapOf' = MapOf
  BY Zenon, StoreKeyFacts, MapSame
<1>3. CASE todo[t] = {"key"}
  <2>1. MapOf[k[t]] = v[t]
    BY Zenon, <1>1, <1>3, MapAt
  <2>2. MapOf' = [MapOf EXCEPT ![k[t]] = v[t]]
    BY Zenon, <1>2, <2>1 DEF MapOf
  <2> QED
    BY Zenon, <2>1, <2>2, StoreShows
<1> QED
  BY Zenon, <1>2, <1>3, StoreHides

\* Storing the key into a free entry shows the value, if it is stored already.
LEMMA StoreKeyNew ==
  ASSUME IInv, IInv', ~aborted, NEW t \in Thread, Store(t, "key"), key[index[t]] = 0
  PROVE  [Map!MapNext]_(Map!mapVars)
<1>1. /\ k[t] \in Key /\ index[t] \in 0 .. Size - 1 /\ op[t] \in {"Put", "GetOrPut"}
      /\ "value" \notin todo[t] => val[index[t]] = v[t]
  BY Zenon, StoreFacts
<1>2. MapOf' = [MapOf EXCEPT ![k[t]] = val[index[t]]]
  <2>1. \A i \in 0 .. Size - 1, b \in Key \ {k[t]} : key'[i] = b <=> key[i] = b
    BY Zenon, <1>1, StoreKeyFacts, Indices
  <2> QED
    BY <1>1, <2>1, StoreKeyFacts, MapSet
<1>3. pc[t] = "store"
  BY Zenon DEF Store
<1>4. MapOf[k[t]] = 0
  <2>1. Missing(t)
    BY Zenon, <1>1, Indices DEF Missing
  <2> QED
    BY Zenon, <1>1, <1>3, <2>1, MissingMeansAbsent, MapAbsent
<1>5. CASE todo[t] = {"key"}
  BY Zenon, <1>1, <1>2, <1>4, <1>5, StoreShows
<1>6. CASE todo[t] # {"key"}
  <2>1. ASSUME NEW u \in Thread, pc[u] = "store", todo[u] = {"key"} PROVE FALSE
    <3>1. u # t /\ Inside(u) /\ Inside(t) /\ Writes(op[t])
      BY Zenon, <1>1, <1>3, <1>6, <2>1 DEF Inside, Writes
    <3> QED
      BY Zenon, <3>1 DEF IInv, Exclusive
  <2>2. val[index[t]] = 0
    BY <1>1, <2>1 DEF IInv, FreeIsZero
  <2>3. MapOf' = MapOf
    BY Zenon, <1>2, <1>4, <2>2 DEF MapOf
  <2> QED
    BY Zenon, <1>6, <2>3, StoreHides
<1> QED
  BY Zenon, <1>5, <1>6

\* Put and GetOrPut take effect with the store that makes key and value visible.
LEMMA StoreStep ==
  ASSUME IInv, IInv', ~aborted, NEW t \in Thread, NEW w \in {"value", "key"}, Store(t, w)
  PROVE  [Map!MapNext]_(Map!mapVars)
<1>1. key[index[t]] \in {0, k[t]}
  BY Zenon, StoreFacts
<1> QED
  BY Zenon, <1>1, StoreValueStep, StoreKeyAgain, StoreKeyNew

\* A lookup that returns answers with the code of its location.
LEMMA LookupStep ==
  ASSUME IInv, ~aborted, NEW t \in Thread, LookupReturns(t), MapOf' = MapOf
  PROVE  Map!MapNext
<1>1. k[t] \in Key /\ index[t] \in 0 .. Size - 1
  BY Zenon, Prober DEF LookupReturns
<1>2. pc[t] = "probe" /\ op[t] = "Lookup" /\ Return(t)
  BY Zenon DEF LookupReturns
<1>3. CASE key[index[t]] = k[t] /\ found' = [found EXCEPT ![t] = val[index[t]]]
  <2>1. MapOf[k[t]] = val[index[t]]
    BY Zenon, <1>1, <1>3, MapAt
  <2>2. Map!Reply(t)
    BY Zenon, <1>2, <1>3, <2>1, Calls DEF IInv, Map!Reply
  <2> QED
    BY Zenon, <2>2 DEF Map!MapNext
<1>4. CASE Missing(t) /\ found' = [found EXCEPT ![t] = 0]
  <2>1. MapOf[k[t]] = 0
    BY Zenon, <1>1, <1>2, <1>4, MissingMeansAbsent, MapAbsent
  <2>2. Map!Reply(t)
    BY Zenon, <1>2, <1>4, <2>1, Calls DEF IInv, Map!Reply
  <2> QED
    BY <2>2 DEF Map!MapNext
<1> QED
  BY Zenon, <1>3, <1>4 DEF LookupReturns

\* Replace that finds the key gives it its value.
LEMMA ReplaceStep ==
  ASSUME IInv, IInv', ~aborted, NEW t \in Thread, ReplaceValue(t)
  PROVE  Map!MapNext
<1>1. k[t] \in Key /\ index[t] \in 0 .. Size - 1
  BY Zenon, Prober DEF ReplaceValue
<1>2. /\ key[index[t]] = k[t] /\ key' = key /\ val' = [val EXCEPT ![index[t]] = v[t]]
      /\ op[t] = "Replace" /\ Return(t) /\ found' = found
  BY Zenon DEF ReplaceValue
<1>3. val \in [Slot -> Value] /\ \A i \in 0 .. Size - 1 : i \in Slot
  BY Indices DEF IInv, TypeOK
<1>4. val'[index[t]] = v[t] /\ \A i \in 0 .. Size - 1 : i # index[t] => val'[i] = val[i]
  BY Zenon, <1>1, <1>2, <1>3
<1>5. MapOf' = [MapOf EXCEPT ![k[t]] = val'[index[t]]]
  BY <1>1, <1>2, <1>4, MapSet
<1>6. Map!Finish(t)
  BY Zenon, <1>2, <1>4, <1>5, EffectShows
<1> QED
  BY Zenon, <1>6 DEF Map!MapNext

\* GetOrPut of a key with code, and Replace of a key without, change nothing.
LEMMA NoEffectStep ==
  ASSUME IInv, ~aborted, NEW t \in Thread, MapOf' = MapOf,
         AlreadyThere(t) \/ (ReplaceMissing(t) /\ Return(t))
  PROVE  Map!MapNext
<1>1. pc[t] = "probe" /\ Return(t) /\ found' = found
  BY Zenon DEF AlreadyThere, ReplaceMissing
<1>2. k[t] \in Key /\ index[t] \in 0 .. Size - 1
  BY Zenon, <1>1, Prober
<1>3. CASE AlreadyThere(t)
  <2>1. op[t] = "GetOrPut" /\ key[index[t]] = k[t] /\ val[index[t]] # 0
    BY Zenon, <1>3 DEF AlreadyThere
  <2>2. MapOf[k[t]] # 0
    BY Zenon, <1>2, <2>1, MapAt
  <2>3. Map!Keep(t)
    BY Zenon, <1>1, <2>1, <2>2, Calls DEF IInv, Map!Keep
  <2> QED
    BY Zenon, <2>3 DEF Map!MapNext
<1>4. CASE ReplaceMissing(t)
  <2>1. op[t] = "Replace" /\ Missing(t)
    BY Zenon, <1>4 DEF ReplaceMissing
  <2>2. MapOf[k[t]] = 0
    BY Zenon, <1>1, <1>2, <2>1, MissingMeansAbsent, MapAbsent
  <2>3. Map!Refuse(t)
    BY Zenon, <1>1, <2>1, <2>2, Calls DEF IInv, Map!Refuse
  <2> QED
    BY Zenon, <2>3 DEF Map!MapNext
<1> QED
  BY Zenon, <1>3, <1>4

\* Every step of the table is a step of the map or invisible to it.
LEMMA MapStep == NoRemoval /\ IInv /\ IInv' /\ [Next]_vars => [Map!MapNext]_(Map!mapVars)
<1> SUFFICES ASSUME NoRemoval, IInv, IInv', [Next]_vars
             PROVE  [Map!MapNext]_(Map!mapVars)
  BY Zenon
<1>1. UNCHANGED <<key, val>> => MapOf' = MapOf
  BY Zenon, MapSame
<1>2. UNCHANGED <<key, val, op, k, v, found>> => UNCHANGED Map!mapVars
  BY Zenon, <1>1, Invisible DEF IInv
<1>3. ASSUME NEW t \in Thread, Acquire(t) \/ Advance(t) \/ Arrive(t) \/ LookOn(t)
      PROVE  UNCHANGED Map!mapVars
  BY Zenon, <1>2, <1>3 DEF Acquire, Advance, Arrive, LookOn
<1>4. ASSUME ~aborted, NEW t \in Thread, LookupReturns(t) PROVE Map!MapNext
  BY Zenon, <1>1, <1>4, LookupStep DEF LookupReturns
<1>5. ASSUME ~aborted, NEW t \in Thread, AlreadyThere(t) PROVE Map!MapNext
  BY Zenon, <1>1, <1>5, NoEffectStep DEF AlreadyThere
<1>6. ASSUME ~aborted, NEW t \in Thread, ReplaceMissing(t) PROVE [Map!MapNext]_(Map!mapVars)
  BY Zenon, <1>1, <1>2, <1>6, NoEffectStep DEF ReplaceMissing
<1>7. ~Clear /\ \A t \in Thread : ~RemoveStep(t)
  BY Zenon DEF NoRemoval, Clear, RemoveStep, IInv, TypeOK
<1>8. CASE UNCHANGED vars
  BY Zenon, <1>2, <1>8 DEF vars, local
<1>9. CASE Next
  <2>1. ~aborted
    BY Zenon, <1>9 DEF Next
  <2>2. CASE \E t \in Thread : Step(t)
    BY Zenon, <2>1, <2>2, <1>3, <1>4, <1>5, <1>6, <1>7, ReplaceStep, StoreStep DEF Step
  <2>3. ASSUME NEW t \in Thread, NEW o \in Ops, NEW a \in Key, NEW b \in Code[a] \cup {0},
               Call(t, o, a, b)
        PROVE  Map!MapNext
    BY Zenon, <2>3, CallBegins, Indices
  <2> QED
    BY Zenon, <1>7, <1>9, <2>2, <2>3 DEF Next
<1> QED
  BY Zenon, <1>8, <1>9

\* The table is a map with atomic operations, for any number of threads, any set
\* of keys, any hash and any table size: a Lookup returns the code last registered.
THEOREM TableImplementsMap == ASSUME NoRemoval PROVE Spec => ImplementsMap
<1>1. IInv /\ IInv' /\ [Next]_vars => [Map!MapNext]_(Map!mapVars)
  BY Zenon, MapStep
<1> QED
  BY <1>1, MapInitial, TableInvariant, PTL DEF Spec, ImplementsMap, Map!MapSpec

\* A GetOrPut stores only over a key without code, or leaves the map as it is.
LEMMA GetOrPutStore ==
  ASSUME IInv, IInv', ~aborted, NEW t \in Thread, NEW w \in {"value", "key"}, Store(t, w),
         op[t] = "GetOrPut"
  PROVE  MapOf[k[t]] \in {0, MapOf'[k[t]]}
<1>1. k[t] \in Key /\ index[t] \in 0 .. Size - 1 /\ key[index[t]] \in {0, k[t]}
  BY Zenon, StoreFacts
<1>2. pc[t] = "store" /\ w \in todo[t]
  BY Zenon DEF Store
<1>3. CASE key[index[t]] = 0
  <2>1. Missing(t)
    BY Zenon, <1>1, <1>3, Indices DEF Missing
  <2> QED
    BY Zenon, <1>1, <1>2, <2>1, MissingMeansAbsent, MapAbsent
<1>4. CASE key[index[t]] = k[t] /\ w = "value"
  <2>1. val[index[t]] = 0
    BY Zenon, <1>2, <1>4 DEF IInv, Storing
  <2> QED
    BY Zenon, <1>1, <1>4, <2>1, MapAt
<1>5. CASE key[index[t]] = k[t] /\ w = "key"
  <2>1. MapOf' = MapOf
    BY Zenon, <1>1, <1>5, StoreKeyFacts, MapSame
  <2> QED
    BY Zenon, <2>1
<1> QED
  BY Zenon, <1>1, <1>3, <1>4, <1>5

\* GetOrPut never replaces code that is registered, whoever races to register the
\* same location.
THEOREM TableGetOrPutKeeps == ASSUME NoRemoval PROVE Spec => GetOrPutKeeps
<1> DEFINE Keeps == \A t \in Thread, w \in {"value", "key"} :
                       op[t] = "GetOrPut" /\ Store(t, w) => MapOf[k[t]] \in {0, MapOf'[k[t]]}
<1>1. IInv /\ IInv' /\ [Next]_vars => [Keeps]_vars
  <2> SUFFICES ASSUME IInv, IInv', Next PROVE Keeps
    BY Zenon
  <2>1. ~aborted
    BY Zenon DEF Next
  <2> QED
    BY Zenon, <2>1, GetOrPutStore
<1> QED
  BY <1>1, TableInvariant, PTL DEF Spec, GetOrPutKeeps
=============================================================================
