---------------------------- MODULE TranslateMap ----------------------------
(***************************************************************************)
(* What a translate table promises: a map from guest locations to host     *)
(* code, 0 where nothing is translated, and calls that take effect at one  *)
(* moment between their beginning and their end.                           *)
(***************************************************************************)
EXTENDS Integers

CONSTANTS Thread,   \* threads that use the table
          Key,      \* guest locations
          Value     \* host code addresses, 0 included

VARIABLES map,      \* Key -> Value
          call,     \* each thread's call in progress, Idle if none
          answer    \* what its last Lookup returned, NoAnswer once it calls again

mapVars == <<map, call, answer>>

NoAnswer == -1
Idle     == [op |-> "none", key |-> 0, value |-> 0]
MapOps      == {"Put", "GetOrPut", "Lookup", "Replace"}

MapInit ==
    /\ map = [a \in Key |-> 0]
    /\ call = [t \in Thread |-> Idle] /\ answer = [t \in Thread |-> NoAnswer]

Begin(t, o, a, b) ==
    /\ call[t].op = "none"
    /\ call' = [call EXCEPT ![t] = [op |-> o, key |-> a, value |-> b]]
    /\ answer' = [answer EXCEPT ![t] = NoAnswer]
    /\ UNCHANGED map

End(t) == call' = [call EXCEPT ![t] = Idle]

\* The effect of a Put, of a Replace, and of a GetOrPut that finds no other code.
Effect(t) ==
    /\ call[t].op \in {"Put", "GetOrPut", "Replace"}
    /\ call[t].op = "GetOrPut" => map[call[t].key] \in {0, call[t].value}
    /\ map' = [map EXCEPT ![call[t].key] = call[t].value]
    /\ UNCHANGED answer

\* It shows before the call ends, or as it ends (if it did before, it is there).
Write(t)  == Effect(t) /\ UNCHANGED call
Finish(t) == Effect(t) /\ End(t)

\* A GetOrPut that finds code leaves it.
Keep(t) ==
    /\ call[t].op = "GetOrPut" /\ map[call[t].key] # 0
    /\ End(t) /\ UNCHANGED <<map, answer>>

\* A Replace may fail where there is nothing to replace.
Refuse(t) ==
    /\ call[t].op = "Replace" /\ map[call[t].key] = 0
    /\ End(t) /\ UNCHANGED <<map, answer>>

\* Lookup answers what the map holds for its key.
Reply(t) ==
    /\ call[t].op = "Lookup"
    /\ answer' = [answer EXCEPT ![t] = map[call[t].key]]
    /\ End(t) /\ UNCHANGED map

MapNext ==
    \E t \in Thread :
        \/ \E o \in MapOps, a \in Key, b \in Value : Begin(t, o, a, b)
        \/ Write(t) \/ Finish(t) \/ Keep(t) \/ Refuse(t) \/ Reply(t)

MapSpec == MapInit /\ [][MapNext]_mapVars
=============================================================================
