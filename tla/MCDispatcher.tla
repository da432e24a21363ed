---------------------------- MODULE MCDispatcher ----------------------------
(* Dispatcher for TLC.                                                     *)
EXTENDS Dispatcher, Bitwise, TLC

CONSTANTS HashBits, L1HashBits   \* hash_bits of the two tables, small

MCSize   == 2^HashBits
MCL1Size == 2^L1HashBits

\* TranslateTable::Hash, which the dispatcher repeats in assembly for each table.
HashOf(a, bits) == LET merged == a \div 4 IN ((merged \div 2^bits) ^^ merged) % 2^bits

MCHash   == [a \in Key |-> HashOf(a, HashBits)]
MCL1Hash == [a \in Key |-> HashOf(a, L1HashBits)]

\* One translation of every location; the first is also translated again, and
\* registered with 0, which means nothing is translated.
MCCode  == [a \in Key |-> {10 * a} \cup IF a = 4 THEN {41, 0} ELSE {}]
MCValue == UNION {MCCode[a] : a \in Key} \cup {0}
=============================================================================
