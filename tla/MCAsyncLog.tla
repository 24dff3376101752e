----------------------------- MODULE MCAsyncLog -----------------------------
(* Two workers, the first with more lines than a chunk holds.                *)
EXTENDS AsyncLog

CONSTANTS c1, c2, flusher, main
MCWorkers == 1 .. 2
MCThreads == MCWorkers \cup {flusher, main}
MCWrites  == [p \in MCWorkers |-> IF p = 1 THEN 3 ELSE 1]
=============================================================================
