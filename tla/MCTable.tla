------------------------------ MODULE MCTable ------------------------------
(* TranslateTable for TLC.                                                 *)
EXTENDS TranslateTable, Bitwise, TLC

CONSTANT HashBits   \* hash_bits, small

MCSize == 2^HashBits

\* TranslateTable::Hash
HashOf(a) == LET merged == a \div 4 IN ((merged \div 2^HashBits) ^^ merged) % 2^HashBits

MCHash == [a \in Key |-> HashOf(a)]

\* One translation of every location; the first is also translated again, and
\* registered with 0, which means nothing is translated.
MCCode  == [a \in Key |-> {10 * a} \cup IF a = 4 THEN {41, 0} ELSE {}]
MCValue == UNION {MCCode[a] : a \in Key} \cup {0}

Symmetry == Permutations(Thread)
=============================================================================
