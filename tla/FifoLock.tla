------------------------------ MODULE FifoLock ------------------------------
(***************************************************************************)
(* What a fair lock promises: callers are served in the order in which     *)
(* they asked.  The head of the line has the lock, or is about to notice.  *)
(***************************************************************************)
EXTENDS Sequences

CONSTANT Threads

VARIABLES line,    \* callers in order of arrival
          inside   \* the threads in the critical section

Init == line = << >> /\ inside = {}

\* A caller joins the line; an empty line lets it straight in.
Join(t) ==
  /\ \A i \in DOMAIN line : line[i] # t
  /\ line' = Append(line, t)
  /\ inside' = IF line = << >> THEN {t} ELSE inside

Enter ==
  /\ line # << >>
  /\ inside = {}
  /\ inside' = {Head(line)}
  /\ UNCHANGED line

Leave ==
  /\ line # << >> /\ inside = {Head(line)}
  /\ line' = Tail(line)
  /\ inside' = {}

Next == (\E t \in Threads : Join(t)) \/ Enter \/ Leave

Spec == Init /\ [][Next]_<<line, inside>>
=============================================================================
