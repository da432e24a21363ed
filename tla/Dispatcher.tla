----------------------------- MODULE Dispatcher -----------------------------
(***************************************************************************)
(* swift_code_dispatcher of runtime/backend/arm64/context.S: guest threads *)
(* look their location up in their own L1 table, then in the L2 table that *)
(* all threads share and C++ threads are filling (module TranslateTable),  *)
(* without taking its lock, and copy what they find there into L1.         *)
(*                                                                         *)
(* One load of an L2 word is one step.  The two words of an L2 entry may   *)
(* be loaded in either order: nothing in the assembly orders the loads.    *)
(* The L1 table belongs to one guest thread, so probing it is local.       *)
(***************************************************************************)
EXTENDS TranslateTable

CONSTANTS
    Guest,      \* guest threads, one Interface each
    L1Size,     \* 1 << l1_cache_bits
    L1Hash      \* the L1 hash, as a function

L1Slot == 0 .. L1Size + Pad - 1

ASSUME DispatcherAssumption ==
    L1Size \in Nat \ {0, 1} /\ L1Hash \in [Key -> 0 .. L1Size - 1]

VARIABLES
    l1key, l1val,   \* the words of each guest's L1 entries
    gpc,            \* where each guest is
    loc,            \* State::current_loc
    i1,             \* l1_start: the L1 entry being probed, then the empty one found
    i2,             \* l2_start: the L2 entry being probed
    early,          \* the entry's value, if it was loaded before its key
    args            \* the code address being jumped to

guestVars == <<l1key, l1val, gpc, loc, i1, i2, early, args>>
dispVars  == <<vars, guestVars>>

\* No value has been loaded early (every loaded value is an address, not -1).
NotYet == -1

DInit ==
    /\ Init
    /\ l1key = [g \in Guest |-> [i \in L1Slot |-> IF i = L1Size + Pad - 1 THEN Sentinel ELSE 0]]
    /\ l1val = [g \in Guest |-> [i \in L1Slot |-> 0]]
    /\ gpc = [g \in Guest |-> "host"]
    /\ loc = [g \in Guest |-> 0]
    /\ i1 = [g \in Guest |-> 0] /\ i2 = [g \in Guest |-> 0]
    /\ early = [g \in Guest |-> NotYet]
    /\ args = [g \in Guest |-> 0]

----------------------------------------------------------------------------
\* swift_runtime_entry from the host, or a jump from translated code that has
\* set a new location: hash it and start at its L1 entry.
Dispatch(g, a) ==
    /\ gpc[g] \in {"host", "guest"}
    /\ gpc' = [gpc EXCEPT ![g] = "l1"]
    /\ loc' = [loc EXCEPT ![g] = a]
    /\ i1' = [i1 EXCEPT ![g] = L1Hash[a]]
    /\ args' = [args EXCEPT ![g] = 0]
    /\ UNCHANGED <<vars, l1key, l1val, i2, early>>

\* swift_runtime_entry with code to run: no lookup.
EnterCode(g, a, b) ==
    /\ gpc[g] = "host" /\ b # 0
    /\ gpc' = [gpc EXCEPT ![g] = "guest"]
    /\ loc' = [loc EXCEPT ![g] = a]
    /\ args' = [args EXCEPT ![g] = b]
    /\ UNCHANGED <<vars, l1key, l1val, i1, i2, early>>

\* Mutant: the load does not post-increment l1_start.
L1NextStays(g) ==
    /\ gpc[g] = "l1" /\ l1key[g][i1[g]] \notin {0, loc[g]}
    /\ UNCHANGED dispVars

\* The L1 loop: an empty entry ends it, an entry of another location (the
\* sentinel included) does not.  Past the table it reads whatever is there.
L1Next(g) ==
    /\ gpc[g] = "l1" /\ l1key[g][i1[g]] \notin {0, loc[g]}
    /\ i1' = [i1 EXCEPT ![g] = @ + 1]
    /\ gpc' = [gpc EXCEPT ![g] = IF i1[g] + 1 \in L1Slot THEN "l1" ELSE "wild"]
    /\ UNCHANGED <<vars, l1key, l1val, loc, i2, early, args>>

\* A hit runs the code.
L1Hit(g) ==
    /\ gpc[g] = "l1" /\ l1key[g][i1[g]] = loc[g]
    /\ gpc' = [gpc EXCEPT ![g] = "guest"]
    /\ args' = [args EXCEPT ![g] = l1val[g][i1[g]]]
    /\ UNCHANGED <<vars, l1key, l1val, loc, i1, i2, early>>

\* A miss goes on to L2; l1_start stays past the empty entry.
L1Miss(g) ==
    /\ gpc[g] = "l1" /\ l1key[g][i1[g]] = 0
    /\ gpc' = [gpc EXCEPT ![g] = "l2"]
    /\ i2' = [i2 EXCEPT ![g] = Hash[loc[g]]]
    /\ UNCHANGED <<vars, l1key, l1val, loc, i1, early, args>>

\* The processor loads the entry's value before its key.
L2LoadEarly(g) ==
    /\ gpc[g] = "l2" /\ early[g] = NotYet
    /\ early' = [early EXCEPT ![g] = val[i2[g]]]
    /\ UNCHANGED <<vars, l1key, l1val, gpc, loc, i1, i2, args>>

\* Mutant: an empty entry does not end the loop.
L2LoadSkipsEmpty(g) ==
    /\ gpc[g] = "l2"
    /\ IF key[i2[g]] = loc[g]
       THEN gpc' = [gpc EXCEPT ![g] = "l2val"] /\ UNCHANGED <<i2, early>>
       ELSE /\ i2' = [i2 EXCEPT ![g] = @ + 1] /\ early' = [early EXCEPT ![g] = NotYet]
            /\ gpc' = [gpc EXCEPT ![g] = IF i2[g] + 1 \in Slot THEN "l2" ELSE "wild"]
    /\ UNCHANGED <<vars, l1key, l1val, loc, i1, args>>

\* The L2 loop loads a key: an empty entry returns to the host.
L2Load(g) ==
    /\ gpc[g] = "l2"
    /\ CASE key[i2[g]] = 0 ->
              /\ gpc' = [gpc EXCEPT ![g] = "host"]
              /\ i2' = [i2 EXCEPT ![g] = 0] /\ early' = [early EXCEPT ![g] = NotYet]
         [] key[i2[g]] = loc[g] ->
              gpc' = [gpc EXCEPT ![g] = "l2val"] /\ UNCHANGED <<i2, early>>
         [] OTHER ->
              /\ i2' = [i2 EXCEPT ![g] = @ + 1] /\ early' = [early EXCEPT ![g] = NotYet]
              /\ gpc' = [gpc EXCEPT ![g] = IF i2[g] + 1 \in Slot THEN "l2" ELSE "wild"]
    /\ UNCHANGED <<vars, l1key, l1val, loc, i1, args>>

\* Mutant: no null check on the value.
L2ValueNoNull(g) ==
    LET w == IF early[g] = NotYet THEN val[i2[g]] ELSE early[g] IN
    /\ gpc[g] = "l2val"
    /\ args' = [args EXCEPT ![g] = w]
    /\ gpc' = [gpc EXCEPT ![g] = "fill"]
    /\ i2' = [i2 EXCEPT ![g] = 0] /\ early' = [early EXCEPT ![g] = NotYet]
    /\ UNCHANGED <<vars, l1key, l1val, loc, i1>>

\* The value of the entry; a null one returns to the host.
L2Value(g) ==
    LET w == IF early[g] = NotYet THEN val[i2[g]] ELSE early[g] IN
    /\ gpc[g] = "l2val"
    /\ args' = [args EXCEPT ![g] = w]
    /\ gpc' = [gpc EXCEPT ![g] = IF w = 0 THEN "host" ELSE "fill"]
    /\ i2' = [i2 EXCEPT ![g] = 0] /\ early' = [early EXCEPT ![g] = NotYet]
    /\ UNCHANGED <<vars, l1key, l1val, loc, i1>>

\* The pair goes into the empty L1 entry, unless its value is -1.
FillL1(g) ==
    /\ gpc[g] = "fill"
    /\ IF l1val[g][i1[g]] + 1 = 0
       THEN UNCHANGED <<l1key, l1val>>
       ELSE /\ l1key' = [l1key EXCEPT ![g][i1[g]] = loc[g]]
            /\ l1val' = [l1val EXCEPT ![g][i1[g]] = args[g]]
    /\ gpc' = [gpc EXCEPT ![g] = "guest"]
    /\ UNCHANGED <<vars, loc, i1, i2, early, args>>

GStep(g) ==
    \/ L1Next(g) \/ L1Hit(g) \/ L1Miss(g)
    \/ L2LoadEarly(g) \/ L2Load(g) \/ L2Value(g) \/ FillL1(g)

DNext ==
    \/ Next /\ UNCHANGED guestVars
    \/ /\ ~aborted
       /\ \E g \in Guest : 
            \/ GStep(g)
            \/ \E a \in Key : Dispatch(g, a) \/ \E b \in Code[a] : EnterCode(g, a, b)

DSpec == DInit /\ [][DNext]_dispVars
DLiveSpec == DSpec /\ \A g \in Guest : WF_dispVars(~aborted /\ GStep(g))
----------------------------------------------------------------------------
(* Properties                                                              *)

\* A guest only ever jumps to code translated for its location, though it reads
\* the L2 entry word by word while Put and GetOrPut are writing it.
DispatchSound == \A g \in Guest : gpc[g] = "guest" => args[g] \in Code[loc[g]] \ {0}

\* The unlocked L2 loop stays inside the table: it stops at the first entry
\* past the hashed part, which no Put ever fills.
L2InBounds == \A g \in Guest : gpc[g] = "l2" => i2[g] <= Size

\* The L1 loop stays inside the table: the dispatcher's check that the L1 cache
\* is full keeps it from filling the last free entry.
L1InBounds == \A g \in Guest : gpc[g] # "wild"

\* The locations that are only ever registered with one and the same code.
TranslatedOnce == {a \in Key : \E c \in Value \ {0} : Code[a] = {c}}

\* For these an L1 entry agrees with the shared table, though it was copied from
\* loads that raced with the stores: once a guest has run a location, everyone
\* finds its code.
L1Coherent ==
    \A g \in Guest, i \in L1Slot :
        l1key[g][i] \in TranslatedOnce => l1val[g][i] # 0 /\ l1val[g][i] = MapOf[l1key[g][i]]

\* Every dispatch ends in translated code or back on the host, however the
\* table changes under it.
DispatchEnds == \A g \in Guest : gpc[g] = "l1" ~> gpc[g] \in {"guest", "host"} \/ aborted
=============================================================================
