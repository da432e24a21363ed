-------------------------- MODULE DispatcherProofs --------------------------
(***************************************************************************)
(* The lock-free dispatcher only runs code translated for its location,    *)
(* for any number of guests racing with any number of threads that         *)
(* register code, any keys and hash functions, as long as nothing is       *)
(* removed from the shared table.                                          *)
(***************************************************************************)
EXTENDS Dispatcher, TableProofs

\* Entry i is, or is about to become, the entry of location a: its key is stored,
\* or a store of it is on the way.
Claimed(i, a) ==
    \/ key[i] = a
    \/ key[i] = 0 /\ \E t \in Thread : pc[t] = "store" /\ index[t] = i /\ k[t] = a

\* A thread registers code of its location.
Registers == \A t \in Thread : op[t] \in {"Put", "GetOrPut", "Replace"} => v[t] \in Code[k[t]]

\* A value that a guest may load, before or after its key, is code of the
\* location that the entry is of or will be of.
ValuesClaimed ==
    \A i \in 0 .. Size - 1 : val[i] # 0 => \E a \in Key : Claimed(i, a) /\ val[i] \in Code[a]

\* The shared table has the code of a.
Filled(a) == \E i \in 0 .. Size - 1 : key[i] = a /\ val[i] # 0

\* What a guest on its way knows of the entry it probes and of a value it loaded
\* early.
Loading(g) ==
    /\ gpc[g] \notin {"l2", "l2val"} => early[g] = NotYet
    /\ gpc[g] = "l2" => i2[g] \in 0 .. Size
    /\ gpc[g] = "l2val" => i2[g] \in 0 .. Size - 1 /\ key[i2[g]] = loc[g]
    /\ gpc[g] \in {"l2", "l2val"} /\ i2[g] < Size /\ early[g] \notin {NotYet, 0} =>
         \E a \in Key : /\ Claimed(i2[g], a) /\ early[g] \in Code[a]
                        /\ a \in TranslatedOnce => val[i2[g]] # 0

\* What a guest about to run, or to remember, an address knows of it.
Loaded(g) ==
    /\ gpc[g] \in {"fill", "guest"} => args[g] \in Code[loc[g]] \ {0}
    /\ gpc[g] = "fill" /\ loc[g] \in TranslatedOnce => Filled(loc[g])

\* What a guest's L1 entries remember.
Remembered(g) ==
    \A i \in L1Slot :
        l1key[g][i] \in Key => /\ l1val[g][i] \in Code[l1key[g][i]] \ {0}
                               /\ l1key[g][i] \in TranslatedOnce => Filled(l1key[g][i])

\* Where a guest is.
GuestOK ==
    /\ gpc \in [Guest -> {"host", "l1", "l2", "l2val", "fill", "guest", "wild"}]
    /\ loc \in [Guest -> Key \cup {0}]
    /\ i1 \in [Guest -> Nat] /\ i2 \in [Guest -> Nat]
    /\ early \in [Guest -> Value \cup {NotYet}]
    /\ args \in [Guest -> Value]
    /\ l1key \in [Guest -> [L1Slot -> Key \cup {0, Sentinel}]]
    /\ l1val \in [Guest -> [L1Slot -> Value]]
    /\ \A g \in Guest : gpc[g] \in {"l1", "l2", "l2val", "fill"} => loc[g] \in Key /\ i1[g] \in L1Slot

DInv ==
    /\ IInv /\ Registers /\ ValuesClaimed /\ GuestOK
    /\ \A g \in Guest : Loading(g) /\ Loaded(g) /\ Remembered(g)
-----------------------------------------------------------------------------
(* What the table's steps leave of what a guest has loaded.                *)

\* What a step of the table does not undo: keys stay, claims stay, and a value
\* of a location with one translation stays.
Kept ==
    /\ \A i \in 0 .. Size - 1 : key[i] # 0 => key'[i] = key[i]
    /\ \A i \in 0 .. Size - 1, a \in Key : Claimed(i, a) => Claimed(i, a)'
    /\ \A i \in 0 .. Size - 1, a \in TranslatedOnce : Claimed(i, a) /\ val[i] # 0 => val'[i] # 0

\* A step that stores nothing, and in which nobody gives up a store.
LEMMA QuietKept ==
  ASSUME ValuesClaimed, UNCHANGED <<key, val>>,
         \A t \in Thread : pc[t] = "store" => pc'[t] = "store" /\ index'[t] = index[t] /\ k'[t] = k[t]
  PROVE  Kept /\ ValuesClaimed'
<1>1. \A i \in 0 .. Size - 1, a \in Key : Claimed(i, a) => Claimed(i, a)'
  BY Zenon DEF Claimed
<1>2. Kept
  BY Zenon, <1>1 DEF Kept
<1> QED
  BY Zenon, <1>1, <1>2 DEF ValuesClaimed

\* A store of Put or GetOrPut: nobody else is in the table, and the entry is the
\* writer's own.
LEMMA StoreKept ==
  ASSUME IInv, ~aborted, Registers, ValuesClaimed,
         NEW t \in Thread, NEW w \in {"value", "key"}, Store(t, w)
  PROVE  Kept /\ ValuesClaimed'
<1>0. PICK e, b : e = index[t] /\ b = k[t]
  BY Zenon
<1> USE <1>0, Indices
<1>1. /\ b \in Key /\ e \in 0 .. Size - 1 /\ key[e] \in {0, b}
      /\ "key" \notin todo[t] => key[e] = b
      /\ \A u \in Thread \ {t} : pc[u] # "store"
  BY DEF Store, IInv, TypeOK, Probing, Storing, Exclusive, Inside, Writes
<1>2. v[t] \in Code[b]
  BY Zenon DEF Store, IInv, Storing, Registers
<1>3. /\ pc[t] = "store" /\ \A i \in 0 .. Size - 1 : i \in Slot
      /\ key \in [Slot -> Key \cup {0, Sentinel}] /\ val \in [Slot -> Value]
  BY DEF Store, IInv, TypeOK
<1>4. \A i \in 0 .. Size - 1 : i # e => key'[i] = key[i] /\ val'[i] = val[i]
  BY Zenon, <1>1, <1>3 DEF Store
<1>5. \A a \in Key : Claimed(e, a) => a = b
  BY Zenon, <1>1 DEF Claimed
<1>6. Claimed(e, b)'
  <2>1. CASE w = "key"
    BY Zenon, <1>1, <1>3, <2>1 DEF Store, Claimed
  <2>2. CASE w = "value" /\ todo[t] = {w}
    BY Zenon, <1>1, <2>2 DEF Store, Claimed
  <2>3. CASE w = "value" /\ todo[t] # {w}
    BY <1>1, <1>3, <2>3 DEF Store, Claimed
  <2> QED
    BY Zenon, <2>1, <2>2, <2>3
<1>7. \A i \in 0 .. Size - 1, a \in Key : i # e /\ Claimed(i, a) => Claimed(i, a)'
  BY Zenon, <1>1, <1>4 DEF Claimed
<1>8. \A i \in 0 .. Size - 1, a \in Key : Claimed(i, a) => Claimed(i, a)'
  BY Zenon, <1>5, <1>6, <1>7
<1>9. val'[e] = val[e] \/ val'[e] = v[t]
  BY Zenon, <1>1, <1>3 DEF Store
<1>10. ValuesClaimed'
  <2> SUFFICES ASSUME NEW i \in 0 .. Size - 1, val'[i] # 0
               PROVE  \E a \in Key : Claimed(i, a)' /\ val'[i] \in Code[a]
    BY Zenon DEF ValuesClaimed
  <2>1. CASE val'[i] = val[i]
    BY Zenon, <1>8, <2>1 DEF ValuesClaimed
  <2>2. CASE i = e /\ val'[e] = v[t]
    BY Zenon, <1>1, <1>2, <1>6, <2>2
  <2> QED
    BY Zenon, <1>4, <1>9, <2>1, <2>2
<1>11. \A i \in 0 .. Size - 1, a \in TranslatedOnce : Claimed(i, a) /\ val[i] # 0 => val'[i] # 0
  <2> SUFFICES ASSUME NEW a \in TranslatedOnce, Claimed(e, a), val[e] # 0 PROVE val'[e] # 0
    BY Zenon, <1>4
  <2>1. a = b /\ 0 \notin Code[a]
    BY Zenon, <1>5 DEF TranslatedOnce
  <2> QED
    BY Zenon, <1>2, <1>9, <2>1
<1>12. \A i \in 0 .. Size - 1 : key[i] # 0 => key'[i] = key[i]
  BY Zenon, <1>1, <1>3, <1>4 DEF Store
<1> QED
  BY Zenon, <1>8, <1>10, <1>11, <1>12 DEF Kept

\* Replace stores code of the key it has found.
LEMMA ReplaceKept ==
  ASSUME IInv, ~aborted, Registers, ValuesClaimed, NEW t \in Thread, ReplaceValue(t)
  PROVE  Kept /\ ValuesClaimed'
<1>0. PICK e, b : e = index[t] /\ b = k[t]
  BY Zenon
<1> USE <1>0, Indices
<1>1. b \in Key /\ e \in 0 .. Size - 1 /\ key[e] = b /\ pc[t] = "probe" /\ op[t] = "Replace"
  BY Zenon, Prober DEF ReplaceValue
<1>2. v[t] \in Code[b] /\ val' = [val EXCEPT ![e] = v[t]] /\ key' = key
  BY Zenon, <1>1 DEF ReplaceValue, Registers
<1>3. val \in [Slot -> Value] /\ \A i \in 0 .. Size - 1 : i \in Slot
  BY DEF IInv, TypeOK
<1>4. \A u \in Thread : pc[u] = "store" => pc'[u] = "store" /\ index'[u] = index[u] /\ k'[u] = k[u]
  BY Zenon, <1>1 DEF ReplaceValue, Return, IInv, TypeOK
<1>5. \A i \in 0 .. Size - 1, a \in Key : Claimed(i, a) => Claimed(i, a)'
  BY Zenon, <1>2, <1>4 DEF Claimed
<1>6. \A a \in Key : Claimed(e, a) => a = b
  BY Zenon, <1>1 DEF Claimed
<1>7. val'[e] = v[t] /\ \A i \in 0 .. Size - 1 : i # e => val'[i] = val[i]
  BY Zenon, <1>1, <1>2, <1>3
<1>8. \A i \in 0 .. Size - 1, a \in TranslatedOnce : Claimed(i, a) /\ val[i] # 0 => val'[i] # 0
  <2>1. ASSUME NEW a \in TranslatedOnce, Claimed(e, a) PROVE val'[e] # 0
    <3>1. a = b /\ 0 \notin Code[a]
      BY Zenon, <1>6, <2>1 DEF TranslatedOnce
    <3> QED
      BY Zenon, <1>2, <1>7, <3>1
  <2> QED
    BY Zenon, <1>7, <2>1
<1>9. ValuesClaimed'
  <2>1. Claimed(e, b)'
    BY Zenon, <1>1, <1>2 DEF Claimed
  <2> SUFFICES ASSUME NEW i \in 0 .. Size - 1, val'[i] # 0
               PROVE  \E a \in Key : Claimed(i, a)' /\ val'[i] \in Code[a]
    BY Zenon DEF ValuesClaimed
  <2>2. CASE i = e
    BY Zenon, <1>1, <1>2, <1>7, <2>1, <2>2
  <2>3. CASE i # e
    BY Zenon, <1>5, <1>7, <2>3 DEF ValuesClaimed
  <2> QED
    BY Zenon, <2>2, <2>3
<1> QED
  BY Zenon, <1>2, <1>5, <1>8, <1>9 DEF Kept

\* Every step of the table, as long as nothing is removed.
LEMMA TableKept ==
  ASSUME NoRemoval, IInv, Registers, ValuesClaimed, [Next]_vars
  PROVE  Kept /\ ValuesClaimed' /\ Registers'
<1>1. ~Clear /\ \A t \in Thread : ~RemoveStep(t)
  BY Zenon DEF NoRemoval, Clear, RemoveStep, IInv, TypeOK
<1>2. /\ op \in [Thread -> Ops \cup {"none"}] /\ k \in [Thread -> Key \cup {0}]
      /\ v \in [Thread -> Value] /\ pc \in [Thread -> PC] /\ index \in [Thread -> 0 .. Size]
  BY Zenon DEF IInv, TypeOK
<1>3. ASSUME NEW t \in Thread, Return(t) PROVE Registers'
  BY Zenon, <1>2, <1>3 DEF Return, Registers
<1>4. ASSUME UNCHANGED <<op, k, v>> PROVE Registers'
  BY Zenon, <1>4 DEF Registers
<1>5. CASE UNCHANGED vars
  <2>1. UNCHANGED <<key, val, pc, op, k, v, index>>
    BY Zenon, <1>5 DEF vars, local
  <2> QED
    BY Zenon, <2>1, <1>4, QuietKept
<1>6. CASE Next
  <2>1. ~aborted
    BY Zenon, <1>6 DEF Next
  <2>2. ASSUME NEW t \in Thread, Step(t) PROVE Kept /\ ValuesClaimed' /\ Registers'
    <3>1. CASE Acquire(t)
      BY Zenon, <1>2, <1>4, <3>1, QuietKept DEF Acquire
    <3>2. CASE Advance(t)
      BY Zenon, <1>2, <1>4, <3>2, QuietKept DEF Advance
    <3>3. CASE Arrive(t)
      BY Zenon, <1>2, <1>4, <3>3, QuietKept DEF Arrive
    <3>4. CASE LookOn(t)
      BY Zenon, <1>2, <1>4, <3>4, QuietKept DEF LookOn
    <3>5. CASE AlreadyThere(t)
      BY Zenon, <1>2, <1>3, <3>5, QuietKept DEF AlreadyThere, Return
    <3>6. CASE LookupReturns(t)
      BY Zenon, <1>2, <1>3, <3>6, QuietKept DEF LookupReturns, Return
    <3>7. CASE ReplaceMissing(t)
      BY Zenon, <1>2, <1>3, <1>4, <3>7, QuietKept DEF ReplaceMissing, Return
    <3>8. CASE ReplaceValue(t)
      BY Zenon, <1>3, <2>1, <3>8, ReplaceKept DEF ReplaceValue
    <3>9. CASE \E w \in {"value", "key"} : Store(t, w)
      <4>1. Registers'
        BY Zenon, <1>3, <1>4, <3>9 DEF Store
      <4> QED
        BY Zenon, <2>1, <3>9, <4>1, StoreKept
    <3> QED
      BY Zenon, <1>1, <2>2, <3>1, <3>2, <3>3, <3>4, <3>5, <3>6, <3>7, <3>8, <3>9 DEF Step
  <2>3. ASSUME NEW t \in Thread, NEW o, NEW a \in Key, NEW b, Call(t, o, a, b),
               o \in {"Put", "GetOrPut", "Replace"} => b \in Code[a]
        PROVE  Kept /\ ValuesClaimed' /\ Registers'
    <3>1. Kept /\ ValuesClaimed'
      BY Zenon, <1>2, <2>3, QuietKept DEF Call
    <3>2. Registers'
      BY Zenon, <1>2, <2>3 DEF Call, Registers
    <3> QED
      BY Zenon, <3>1, <3>2
  <2> QED
    BY Zenon, <1>1, <1>6, <2>2, <2>3 DEF Next
<1> QED
  BY Zenon, <1>5, <1>6

\* A location with one translation that the table has, it keeps.
LEMMA FilledKept ==
  ASSUME Kept, NEW a \in TranslatedOnce, Filled(a)
  PROVE  Filled(a)'
<1>1. PICK i \in 0 .. Size - 1 : key[i] = a /\ val[i] # 0
  BY Zenon DEF Filled
<1>2. a \in Key /\ a # 0 /\ Claimed(i, a)
  BY Zenon, <1>1, Indices DEF TranslatedOnce, Claimed
<1>3. key'[i] = a /\ val'[i] # 0
  BY Zenon, <1>1, <1>2 DEF Kept
<1> QED
  BY Zenon, <1>3 DEF Filled

\* A step of the table takes nothing from the guests.
LEMMA GuestsKept ==
  ASSUME DInv, Kept, UNCHANGED guestVars
  PROVE  GuestOK' /\ \A g \in Guest : Loading(g)' /\ Loaded(g)' /\ Remembered(g)'
<1>1. UNCHANGED <<l1key, l1val, gpc, loc, i1, i2, early, args>>
  BY Zenon DEF guestVars
<1>2. GuestOK'
  BY Zenon, <1>1 DEF DInv, GuestOK
<1>3. ASSUME NEW g \in Guest PROVE Loading(g)'
  <2> SUFFICES /\ gpc[g] \notin {"l2", "l2val"} => early[g] = NotYet
               /\ gpc[g] = "l2" => i2[g] \in 0 .. Size
               /\ gpc[g] = "l2val" => i2[g] \in 0 .. Size - 1 /\ key'[i2[g]] = loc[g]
               /\ gpc[g] \in {"l2", "l2val"} /\ i2[g] < Size /\ early[g] \notin {NotYet, 0} =>
                    \E a \in Key : /\ Claimed(i2[g], a)' /\ early[g] \in Code[a]
                                   /\ a \in TranslatedOnce => val'[i2[g]] # 0
    BY Zenon, <1>1 DEF Loading, TranslatedOnce
  <2>0. PICK e : e = i2[g]
    BY Zenon
  <2>1. (gpc[g] = "l2" => e \in 0 .. Size) /\ (gpc[g] \notin {"l2", "l2val"} => early[g] = NotYet)
    BY Zenon, <2>0 DEF DInv, Loading
  <2>2. ASSUME gpc[g] = "l2val" PROVE e \in 0 .. Size - 1 /\ key'[e] = loc[g]
    <3>1. e \in 0 .. Size - 1 /\ key[e] = loc[g] /\ loc[g] \in Key
      BY Zenon, <2>0, <2>2 DEF DInv, Loading, GuestOK
    <3> QED
      BY Zenon, <3>1, Indices DEF Kept
  <2>3. ASSUME gpc[g] \in {"l2", "l2val"}, e < Size, early[g] \notin {NotYet, 0}
        PROVE  \E a \in Key : /\ Claimed(e, a)' /\ early[g] \in Code[a]
                              /\ a \in TranslatedOnce => val'[e] # 0
    <3>1. PICK a \in Key : /\ Claimed(e, a) /\ early[g] \in Code[a]
                           /\ a \in TranslatedOnce => val[e] # 0
      BY Zenon, <2>0, <2>3 DEF DInv, Loading
    <3>2. e \in 0 .. Size - 1
      BY <2>0, <2>3, Indices DEF DInv, Loading
    <3> QED
      BY Zenon, <3>1, <3>2 DEF Kept
  <2> QED
    BY Zenon, <1>1, <2>0, <2>1, <2>2, <2>3
<1>4. ASSUME NEW g \in Guest PROVE Loaded(g)'
  BY Zenon, <1>1, FilledKept DEF DInv, Loaded, TranslatedOnce
<1>5. ASSUME NEW g \in Guest PROVE Remembered(g)'
  BY Zenon, <1>1, FilledKept DEF DInv, Remembered, TranslatedOnce
<1> QED
  BY Zenon, <1>2, <1>3, <1>4, <1>5
-----------------------------------------------------------------------------
(* The guests' steps.                                                      *)

\* A guest changes nothing of the shared table.
LEMMA TableUntouched ==
  ASSUME DInv, UNCHANGED vars
  PROVE  /\ IInv' /\ Registers' /\ ValuesClaimed' /\ key' = key /\ val' = val
         /\ \A i, a : Claimed(i, a)' <=> Claimed(i, a)
         /\ \A a : Filled(a)' <=> Filled(a)
<1>1. UNCHANGED <<key, val, pc, op, k, v, index>>
  BY Zenon DEF vars, local
<1>2. IInv'
  BY Zenon, StutterKeeps DEF DInv
<1>3. Registers'
  BY Zenon, <1>1 DEF DInv, Registers
<1>4. \A i, a : Claimed(i, a)' <=> Claimed(i, a)
  BY Zenon, <1>1 DEF Claimed
<1>5. ValuesClaimed'
  BY Zenon, <1>1, <1>4 DEF DInv, ValuesClaimed
<1>6. \A a : Filled(a)' <=> Filled(a)
  BY Zenon, <1>1 DEF Filled
<1> QED
  BY Zenon, <1>1, <1>2, <1>3, <1>4, <1>5, <1>6

\* Facts about L1 that the steps need.
LEMMA L1Indices ==
  /\ L1Size \in Nat /\ Pad \in Nat
  /\ \A a \in Key : L1Hash[a] \in L1Slot
  /\ \A i \in L1Slot : i \in Nat
BY DispatcherAssumption, TableAssumption DEF L1Slot

\* Only guest g moves; what the others know stays.
Only(g) ==
    /\ UNCHANGED vars
    /\ \A h \in Guest \ {g} : /\ gpc'[h] = gpc[h] /\ loc'[h] = loc[h] /\ i1'[h] = i1[h]
                              /\ i2'[h] = i2[h] /\ early'[h] = early[h] /\ args'[h] = args[h]
                              /\ l1key'[h] = l1key[h] /\ l1val'[h] = l1val[h]

\* A step of one guest needs to be looked at for that guest only.
LEMMA OneGuest ==
  ASSUME DInv, NEW g \in Guest, Only(g), GuestOK', Loading(g)', Loaded(g)', Remembered(g)'
  PROVE  DInv'
<1>1. /\ IInv' /\ Registers' /\ ValuesClaimed' /\ key' = key /\ val' = val
      /\ \A i, a : Claimed(i, a)' <=> Claimed(i, a)
      /\ \A a : Filled(a)' <=> Filled(a)
  BY Zenon, TableUntouched DEF Only
<1>2. ASSUME NEW h \in Guest \ {g} PROVE Loading(h)'
  <2>1. Loading(h)
    BY Zenon DEF DInv, Loading
  <2>2. PICK e : e = i2[h]
    BY Zenon
  <2> QED
    BY Zenon, <1>1, <2>1, <2>2 DEF Loading, Only, TranslatedOnce
<1>3. ASSUME NEW h \in Guest \ {g} PROVE Loaded(h)' /\ Remembered(h)'
  <2>1. Loaded(h) /\ Remembered(h)
    BY Zenon DEF DInv
  <2>2. PICK a : a = loc[h]
    OBVIOUS
  <2>3. Loaded(h)'
    BY Zenon, <1>1, <2>1, <2>2 DEF Loaded, Only, TranslatedOnce
  <2>4. Remembered(h)'
    BY Zenon, <1>1, <2>1 DEF Remembered, Only, TranslatedOnce
  <2> QED
    BY Zenon, <2>3, <2>4
<1> QED
  BY Zenon, <1>1, <1>2, <1>3 DEF DInv

\* A guest that leaves L1, runs, or returns to the host takes no knowledge of L2
\* entries along, and its L1 entries are as they were.
LEMMA GuestMoves ==
  ASSUME DInv, NEW g \in Guest, Only(g), GuestOK', l1key' = l1key, l1val' = l1val,
         gpc'[g] \in {"host", "l1", "wild", "guest"}, early'[g] = NotYet,
         gpc'[g] = "guest" => args'[g] \in Code[loc'[g]] \ {0}
  PROVE  DInv'
<1>1. Loading(g)' /\ Loaded(g)'
  BY Zenon DEF Loading, Loaded
<1>2. Remembered(g)'
  <2>1. \A a : Filled(a)' <=> Filled(a)
    BY Zenon, TableUntouched DEF Only
  <2> QED
    BY Zenon, <2>1 DEF DInv, Remembered, TranslatedOnce
<1> QED
  BY Zenon, <1>1, <1>2, OneGuest

\* The steps that do not look at L2.
LEMMA L1Keeps ==
  ASSUME DInv, NEW g \in Guest,
         \/ L1Next(g) \/ L1Hit(g)
         \/ \E a \in Key : Dispatch(g, a) \/ \E b \in Code[a] : EnterCode(g, a, b)
  PROVE  DInv'
<1> USE Indices, L1Indices
<1>1. GuestOK /\ Remembered(g) /\ (gpc[g] \notin {"l2", "l2val"} => early[g] = NotYet)
  BY Zenon DEF DInv, Loading
<1>2. ASSUME NEW a \in Key, Dispatch(g, a) PROVE DInv'
  <2>1. Only(g) /\ l1key' = l1key /\ l1val' = l1val /\ early'[g] = NotYet /\ gpc'[g] = "l1"
    BY Zenon, <1>1, <1>2 DEF Dispatch, GuestOK, Only
  <2>2. GuestOK'
    BY Zenon, <1>1, <1>2 DEF Dispatch, GuestOK
  <2> QED
    BY Zenon, <2>1, <2>2, GuestMoves
<1>3. ASSUME NEW a \in Key, NEW b \in Code[a], EnterCode(g, a, b) PROVE DInv'
  <2>1. /\ Only(g) /\ l1key' = l1key /\ l1val' = l1val /\ early'[g] = NotYet
        /\ gpc'[g] = "guest" /\ args'[g] = b /\ loc'[g] = a /\ b # 0
    BY <1>1, <1>3 DEF EnterCode, GuestOK, Only
  <2>2. GuestOK'
    BY Zenon, <1>1, <1>3 DEF EnterCode, GuestOK
  <2> QED
    BY Zenon, <2>1, <2>2, GuestMoves
<1>4. ASSUME L1Next(g) PROVE DInv'
  <2>1. Only(g) /\ l1key' = l1key /\ l1val' = l1val /\ early'[g] = NotYet /\ gpc'[g] \in {"l1", "wild"}
    BY Zenon, <1>1, <1>4 DEF L1Next, GuestOK, Only
  <2>2. GuestOK'
    BY <1>1, <1>4 DEF L1Next, GuestOK
  <2> QED
    BY Zenon, <2>1, <2>2, GuestMoves
<1>5. ASSUME L1Hit(g) PROVE DInv'
  <2>1. /\ Only(g) /\ l1key' = l1key /\ l1val' = l1val /\ early'[g] = NotYet
        /\ gpc'[g] = "guest" /\ loc'[g] = loc[g]
        /\ args'[g] = l1val[g][i1[g]]
        /\ l1key[g][i1[g]] = loc[g] /\ loc[g] \in Key /\ i1[g] \in L1Slot
    BY Zenon, <1>1, <1>5 DEF L1Hit, GuestOK, Only
  <2>2. GuestOK'
    BY <1>1, <1>5 DEF L1Hit, GuestOK
  <2>3. args'[g] \in Code[loc'[g]] \ {0}
    BY Zenon, <1>1, <2>1 DEF Remembered
  <2> QED
    BY Zenon, <2>1, <2>2, <2>3, GuestMoves
<1> QED
  BY Zenon, <1>2, <1>3, <1>4, <1>5

\* A guest that keeps its L1 entries, as the steps in L2 do.
LEMMA RememberedKept ==
  ASSUME DInv, NEW g \in Guest, Only(g), l1key' = l1key, l1val' = l1val
  PROVE  Remembered(g)'
<1>1. \A a : Filled(a)' <=> Filled(a)
  BY Zenon, TableUntouched DEF Only
<1> QED
  BY Zenon, <1>1 DEF DInv, Remembered, TranslatedOnce

\* A value loaded before its key is code of whatever location claims the entry.
LEMMA LoadEarlyKeeps ==
  ASSUME DInv, NEW g \in Guest, L2LoadEarly(g)
  PROVE  DInv'
<1> USE Indices
<1>1. GuestOK /\ Loading(g) /\ IInv /\ ValuesClaimed
  BY Zenon DEF DInv
<1>2. PICK e : e = i2[g]
  BY Zenon
<1>3. /\ Only(g) /\ l1key' = l1key /\ l1val' = l1val /\ gpc' = gpc /\ gpc[g] = "l2" /\ i2'[g] = e
      /\ early'[g] = val[e] /\ loc' = loc /\ e \in 0 .. Size
  BY Zenon, <1>1, <1>2 DEF L2LoadEarly, GuestOK, Only, Loading
<1>4. val[e] \in Value
  BY Zenon, <1>1, <1>3 DEF IInv, TypeOK
<1>5. GuestOK'
  BY Zenon, <1>1, <1>2, <1>4 DEF L2LoadEarly, GuestOK
<1>6. Loading(g)'
  <2>1. /\ val' = val /\ \A i, a : Claimed(i, a)' <=> Claimed(i, a)
    BY Zenon, <1>3, TableUntouched DEF Only
  <2>2. e < Size /\ val[e] # 0 => \E a \in Key : Claimed(e, a) /\ val[e] \in Code[a]
    BY <1>1, <1>3 DEF ValuesClaimed
  <2>3. i2'[g] < Size /\ early'[g] \notin {NotYet, 0} =>
          \E a \in Key : Claimed(i2[g], a)' /\ early'[g] \in Code[a] /\ val'[i2'[g]] # 0
    BY Zenon, <1>2, <1>3, <2>1, <2>2
  <2> QED
    BY Zenon, <1>3, <2>3 DEF Loading
<1>7. Loaded(g)'
  BY Zenon, <1>3 DEF Loaded
<1> QED
  BY Zenon, <1>3, <1>5, <1>6, <1>7, RememberedKept, OneGuest

\* A guest that has not found its location in L1 comes to L2.
LEMMA MissKeeps ==
  ASSUME DInv, NEW g \in Guest, L1Miss(g)
  PROVE  DInv'
<1> USE Indices
<1>1. GuestOK /\ Loading(g)
  BY Zenon DEF DInv
<1>2. /\ Only(g) /\ l1key' = l1key /\ l1val' = l1val /\ gpc'[g] = "l2" /\ i2'[g] = Hash[loc[g]]
      /\ early'[g] = NotYet /\ loc[g] \in Key
  BY Zenon, <1>1 DEF L1Miss, GuestOK, Only, Loading
<1>3. GuestOK'
  BY <1>1 DEF L1Miss, GuestOK
<1>4. Loading(g)' /\ Loaded(g)'
  BY <1>2 DEF Loading, Loaded
<1> QED
  BY Zenon, <1>2, <1>3, <1>4, RememberedKept, OneGuest

\* The L2 loop: past the hashed part there is an empty entry, where it stops.
LEMMA LoadKeeps ==
  ASSUME DInv, NEW g \in Guest, L2Load(g)
  PROVE  DInv'
<1> USE Indices
<1>1. GuestOK /\ Loading(g) /\ IInv
  BY Zenon DEF DInv
<1>2. PICK e : e = i2[g]
  BY Zenon
<1>3. Only(g) /\ l1key' = l1key /\ l1val' = l1val /\ gpc[g] = "l2" /\ loc' = loc /\ e \in 0 .. Size
      /\ loc[g] \in Key
  BY <1>1, <1>2 DEF L2Load, GuestOK, Only, Loading
<1>4. e = Size => key[e] = 0
  BY <1>1, <1>3 DEF IInv, PadIntact
<1>5. CASE key[e] = 0
  <2>1. /\ gpc' = [gpc EXCEPT ![g] = "host"]
        /\ i2' = [i2 EXCEPT ![g] = 0] /\ early' = [early EXCEPT ![g] = NotYet]
    BY Zenon, <1>2, <1>3, <1>5 DEF L2Load
  <2>2. GuestOK' /\ gpc'[g] = "host" /\ early'[g] = NotYet
    BY Zenon, <1>1, <2>1 DEF L2Load, GuestOK
  <2> QED
    BY Zenon, <1>3, <2>2, GuestMoves
<1>6. CASE key[e] = loc[g]
  <2>1. gpc' = [gpc EXCEPT ![g] = "l2val"] /\ UNCHANGED <<i2, early>> /\ e \in 0 .. Size - 1
    BY <1>2, <1>3, <1>4, <1>6 DEF L2Load
  <2>2. GuestOK'
    BY Zenon, <1>1, <1>3, <2>1 DEF L2Load, GuestOK
  <2>3. gpc'[g] = "l2val" /\ i2'[g] = e /\ early'[g] = early[g]
    BY Zenon, <1>1, <1>2, <2>1 DEF GuestOK
  <2>4. key' = key /\ val' = val /\ \A i, a : Claimed(i, a)' <=> Claimed(i, a)
    BY Zenon, <1>3, TableUntouched DEF Only
  <2>5. early'[g] \notin {NotYet, 0} => \E a \in Key : /\ Claimed(e, a)' /\ early'[g] \in Code[a]
                                                       /\ a \in TranslatedOnce => val'[e] # 0
    BY <1>1, <1>2, <1>3, <2>1, <2>3, <2>4 DEF Loading
  <2>6. Loading(g)' /\ Loaded(g)'
    BY Zenon, <1>3, <1>6, <2>1, <2>3, <2>4, <2>5 DEF Loading, Loaded, TranslatedOnce
  <2> QED
    BY Zenon, <1>3, <2>2, <2>6, RememberedKept, OneGuest
<1>7. CASE key[e] \notin {0, loc[g]}
  <2>1. /\ i2' = [i2 EXCEPT ![g] = @ + 1] /\ early' = [early EXCEPT ![g] = NotYet]
        /\ gpc' = [gpc EXCEPT ![g] = IF i2[g] + 1 \in Slot THEN "l2" ELSE "wild"]
    BY Zenon, <1>2, <1>7 DEF L2Load
  <2>2. e + 1 \in 0 .. Size /\ e + 1 \in Slot
    BY <1>3, <1>4, <1>7
  <2>3. gpc'[g] = "l2" /\ i2'[g] = e + 1 /\ early'[g] = NotYet
    BY Zenon, <1>1, <1>2, <2>1, <2>2 DEF GuestOK
  <2>4. GuestOK'
    BY <1>1, <1>2, <1>3, <2>1, <2>2 DEF L2Load, GuestOK
  <2>5. Loading(g)' /\ Loaded(g)'
    BY Zenon, <2>2, <2>3 DEF Loading, Loaded
  <2> QED
    BY <1>3, <2>4, <2>5, RememberedKept, OneGuest
<1> QED
  BY Zenon, <1>5, <1>6, <1>7

\* The value of the entry whose key is the guest's location is code of it,
\* whichever of the two words was loaded first.
LEMMA ValueKeeps ==
  ASSUME DInv, NEW g \in Guest, L2Value(g)
  PROVE  DInv'
<1> USE Indices
<1>1. GuestOK /\ Loading(g) /\ IInv /\ ValuesClaimed
  BY Zenon DEF DInv
<1>2. PICK e, w : e = i2[g] /\ w = IF early[g] = NotYet THEN val[e] ELSE early[g]
  BY Zenon
<1>3. /\ Only(g) /\ l1key' = l1key /\ l1val' = l1val /\ gpc[g] = "l2val" /\ loc' = loc
      /\ e \in 0 .. Size - 1 /\ key[e] = loc[g] /\ loc[g] \in Key
  BY Zenon, <1>1, <1>2 DEF L2Value, GuestOK, Only, Loading
<1>4. w \in Value
  <2>1. val[e] \in Value /\ early[g] \in Value \cup {NotYet}
    BY <1>1, <1>3 DEF IInv, TypeOK, GuestOK
  <2> QED
    BY Zenon, <1>2, <2>1
<1>5. /\ args' = [args EXCEPT ![g] = w]
      /\ gpc' = [gpc EXCEPT ![g] = IF w = 0 THEN "host" ELSE "fill"]
      /\ i2' = [i2 EXCEPT ![g] = 0] /\ early' = [early EXCEPT ![g] = NotYet]
  BY Zenon, <1>2 DEF L2Value
<1>6. GuestOK'
  BY <1>1, <1>3, <1>4, <1>5 DEF L2Value, GuestOK
<1>7. /\ args'[g] = w /\ gpc'[g] = (IF w = 0 THEN "host" ELSE "fill") /\ early'[g] = NotYet
  BY Zenon, <1>1, <1>5 DEF GuestOK
<1>8. CASE w = 0
  BY Zenon, <1>3, <1>6, <1>7, <1>8, GuestMoves
<1>9. CASE w # 0
  <2>1. \A a \in Key : Claimed(e, a) => a = loc[g]
    BY Zenon, <1>3 DEF Claimed
  <2>2. w \in Code[loc[g]] /\ (loc[g] \in TranslatedOnce => val[e] # 0)
    <3>1. CASE early[g] = NotYet
      BY Zenon, <1>1, <1>2, <1>3, <1>9, <2>1, <3>1 DEF ValuesClaimed
    <3>2. CASE early[g] # NotYet
      BY <1>1, <1>2, <1>3, <1>9, <2>1, <3>2 DEF Loading
    <3> QED
      BY Zenon, <3>1, <3>2
  <2>3. \A a : Filled(a)' <=> Filled(a)
    BY Zenon, <1>3, TableUntouched DEF Only
  <2>4. loc[g] \in TranslatedOnce => Filled(loc[g])
    BY Zenon, <1>3, <2>2 DEF Filled
  <2>5. Loaded(g)'
    BY Zenon, <1>3, <1>7, <1>9, <2>2, <2>3, <2>4 DEF Loaded, TranslatedOnce
  <2>6. Loading(g)'
    BY Zenon, <1>7, <1>9 DEF Loading
  <2> QED
    BY Zenon, <1>3, <1>6, <2>5, <2>6, RememberedKept, OneGuest
<1> QED
  BY Zenon, <1>8, <1>9

\* What a guest copies into L1 is what it is about to run.
LEMMA FillKeeps ==
  ASSUME DInv, NEW g \in Guest, FillL1(g)
  PROVE  DInv'
<1> USE Indices
<1>1. GuestOK /\ Loading(g) /\ Loaded(g) /\ Remembered(g)
  BY Zenon DEF DInv
<1>2. PICK e, a : e = i1[g] /\ a = loc[g]
  BY Zenon
<1>3. /\ Only(g) /\ gpc[g] = "fill" /\ gpc'[g] = "guest" /\ loc' = loc /\ args' = args
      /\ early'[g] = NotYet /\ a \in Key /\ e \in L1Slot
      /\ args[g] \in Code[a] \ {0} /\ (a \in TranslatedOnce => Filled(a))
  BY Zenon, <1>1, <1>2 DEF FillL1, GuestOK, Only, Loading, Loaded
<1>4. GuestOK'
  <2>1. args[g] \in Value /\ l1key \in [Guest -> [L1Slot -> Key \cup {0, Sentinel}]]
        /\ l1val \in [Guest -> [L1Slot -> Value]]
    BY Zenon, <1>1 DEF GuestOK
  <2>2. l1key' \in [Guest -> [L1Slot -> Key \cup {0, Sentinel}]]
    <3>1. l1key' = l1key \/ l1key' = [l1key EXCEPT ![g][e] = a]
      BY Zenon, <1>2 DEF FillL1
    <3>2. [l1key[g] EXCEPT ![e] = a] \in [L1Slot -> Key \cup {0, Sentinel}]
      BY Zenon, <1>3, <2>1
    <3> QED
      BY Zenon, <2>1, <3>1, <3>2
  <2>3. l1val' \in [Guest -> [L1Slot -> Value]]
    <3>1. l1val' = l1val \/ l1val' = [l1val EXCEPT ![g][e] = args[g]]
      BY Zenon, <1>2 DEF FillL1
    <3>2. [l1val[g] EXCEPT ![e] = args[g]] \in [L1Slot -> Value]
      BY Zenon, <1>3, <2>1
    <3> QED
      BY Zenon, <2>1, <3>1, <3>2
  <2>4. gpc' = [gpc EXCEPT ![g] = "guest"] /\ UNCHANGED <<loc, i1, i2, early, args>>
    BY Zenon DEF FillL1
  <2> QED
    BY Zenon, <1>1, <2>2, <2>3, <2>4 DEF GuestOK
<1>5. Loading(g)' /\ Loaded(g)'
  BY Zenon, <1>2, <1>3 DEF Loading, Loaded
<1>6. Remembered(g)'
  <2>1. \A x : Filled(x)' <=> Filled(x)
    BY Zenon, <1>3, TableUntouched DEF Only
  <2>2. ASSUME NEW i \in L1Slot
        PROVE  \/ l1key'[g][i] = l1key[g][i] /\ l1val'[g][i] = l1val[g][i]
               \/ l1key'[g][i] = a /\ l1val'[g][i] = args[g]
    BY <1>1, <1>2, <1>3 DEF FillL1, GuestOK
  <2> QED
    BY Zenon, <1>1, <1>3, <2>1, <2>2 DEF Remembered, TranslatedOnce
<1> QED
  BY Zenon, <1>3, <1>4, <1>5, <1>6, OneGuest
-----------------------------------------------------------------------------
\* No guest has looked anything up at the start.
LEMMA DispatcherInit == DInit => DInv
<1> SUFFICES ASSUME DInit PROVE DInv
  BY Zenon
<1> USE Indices, L1Indices DEF DInit
<1>1. IInv
  BY Zenon, TableInit
<1>2. Registers
  BY Zenon DEF Init, Registers
<1>3. ValuesClaimed
  BY DEF Init, ValuesClaimed
<1>4. GuestOK
  BY Zenon DEF GuestOK
<1>5. \A g \in Guest : Loading(g) /\ Loaded(g)
  BY Zenon DEF Loading, Loaded
<1>6. \A g \in Guest : Remembered(g)
  BY Zenon DEF Remembered
<1> QED
  BY Zenon, <1>1, <1>2, <1>3, <1>4, <1>5, <1>6 DEF DInv

\* Every step of a guest or of the table keeps the invariant.
LEMMA DispatcherNext == NoRemoval /\ DInv /\ [DNext]_dispVars => DInv'
<1> SUFFICES ASSUME NoRemoval, DInv, [DNext]_dispVars PROVE DInv'
  BY Zenon
<1>1. ASSUME [Next]_vars, UNCHANGED guestVars PROVE DInv'
  <2>1. IInv'
    BY Zenon, <1>1, TableNext DEF DInv
  <2>2. Kept /\ ValuesClaimed' /\ Registers'
    BY Zenon, <1>1, TableKept DEF DInv
  <2> QED
    BY Zenon, <1>1, <2>1, <2>2, GuestsKept DEF DInv
<1>2. ASSUME NEW g \in Guest, GStep(g) PROVE DInv'
  BY Zenon, <1>2, L1Keeps, MissKeeps, LoadEarlyKeeps, LoadKeeps, ValueKeeps, FillKeeps DEF GStep
<1>3. ASSUME NEW g \in Guest, NEW a \in Key, Dispatch(g, a) \/ \E b \in Code[a] : EnterCode(g, a, b)
      PROVE  DInv'
  BY Zenon, <1>3, L1Keeps
<1> QED
  BY Zenon, <1>1, <1>2, <1>3 DEF DNext, dispVars

\* The invariant holds in every reachable state while nothing is removed.
THEOREM DispatcherInvariant == ASSUME NoRemoval PROVE DSpec => []DInv
<1>1. DInv /\ [DNext]_dispVars => DInv'
  BY Zenon, DispatcherNext
<1> QED
  BY <1>1, DispatcherInit, PTL DEF DSpec

\* The dispatcher's unlocked loads, in whatever order the processor makes them,
\* never pair a location with code of another one: a guest only runs code
\* translated for its location.
THEOREM DispatcherSound == ASSUME NoRemoval PROVE DSpec => []DispatchSound
<1>1. DInv => DispatchSound
  BY Zenon DEF DInv, Loaded, DispatchSound
<1> QED
  BY <1>1, DispatcherInvariant, PTL

\* The unlocked loop over L2 stops at the first entry past the hashed part at
\* the latest, however full the table is.
THEOREM DispatcherL2InBounds == ASSUME NoRemoval PROVE DSpec => []L2InBounds
<1>1. DInv => L2InBounds
  BY Indices DEF DInv, Loading, L2InBounds
<1> QED
  BY <1>1, DispatcherInvariant, PTL

\* What a guest has remembered in L1 of a location with one translation, the
\* shared table has as well, for every other guest and every Lookup.
THEOREM DispatcherL1Coherent == ASSUME NoRemoval PROVE DSpec => []L1Coherent
<1>1. DInv => L1Coherent
  <2> SUFFICES ASSUME DInv, NEW g \in Guest, NEW i \in L1Slot, l1key[g][i] \in TranslatedOnce
               PROVE  l1val[g][i] # 0 /\ l1val[g][i] = MapOf[l1key[g][i]]
    BY Zenon DEF L1Coherent
  <2> DEFINE a == l1key[g][i]
             j == CHOOSE n \in 0 .. Size - 1 : key[n] = a
  <2>1. a \in Key /\ l1val[g][i] \in Code[a] \ {0} /\ Filled(a)
    BY Zenon DEF DInv, Remembered, TranslatedOnce
  <2>2. PICK c : Code[a] = {c} /\ c # 0
    BY Zenon DEF TranslatedOnce
  <2>3. PICK n \in 0 .. Size - 1 : key[n] = a /\ val[n] # 0
    BY Zenon, <2>1 DEF Filled
  <2>4. j \in 0 .. Size - 1 /\ key[j] = a
    BY Zenon, <2>3
  <2> HIDE DEF j
  <2>5. j = n
    BY <2>1, <2>3, <2>4, Indices DEF DInv, IInv, ChainIntact
  <2>6. \A b \in Key : Claimed(n, b) => b = a
    BY Zenon, <2>1, <2>3, Indices DEF Claimed
  <2>7. val[n] \in Code[a]
    BY Zenon, <2>3, <2>6 DEF DInv, ValuesClaimed
  <2>8. MapOf[a] = val[j]
    BY Zenon, <2>1, <2>3 DEF MapOf, j
  <2> QED
    BY Zenon, <2>1, <2>2, <2>5, <2>7, <2>8
<1> QED
  BY <1>1, DispatcherInvariant, PTL
=============================================================================
