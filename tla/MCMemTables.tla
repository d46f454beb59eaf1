---------------------------- MODULE MCMemTables ----------------------------
(* Instances of MemTables for TLC.                                         *)
EXTENDS MemTables, TLC
CONSTANTS w1, w2, f1, f2, c1, c2, k1, k2

\* n entries, whose key changes with every second entry.
mcKeys(n) == [s \in 0..(n - 1) |-> IF (s \div 2) % 2 = 0 THEN k1 ELSE k2]

\* Two threads that race, with one flush thread until writes stop for the
\* memtables and with full pools; one thread with two flush threads; and one
\* thread that goes on until writes stop for level 0.
mcWorkload == {<<mcKeys(7), {w1, w2, f1, c1}>>, <<mcKeys(5), {w1, w2, f1, f2, c1, c2}>>,
               <<mcKeys(7), {w1, f1, f2, c1}>>, <<mcKeys(9), {w1, f1, c1, c2}>>,
               <<mcKeys(11), {w1, f1, c1}>>}

Threads == Permutations({w1, w2}) \cup Permutations({f1, f2}) \cup Permutations({c1, c2})
=============================================================================
