------------------------------ MODULE FencedLog ------------------------------
(***************************************************************************)
(* What the fenced singleton lease promises to the scheduled jobs: the    *)
(* writes of all leadership terms form one log, a new term may begin at   *)
(* any moment, and from then on no write of an earlier term is accepted.  *)
(***************************************************************************)
EXTENDS Naturals, Sequences

VARIABLES
  term,   \* the fence token of the newest term, 0 before the first claim
  log     \* the term of every committed write, oldest first

Init == term = 0 /\ log = << >>

NewTerm == term' = term + 1 /\ UNCHANGED log

Write == term > 0 /\ log' = Append(log, term) /\ UNCHANGED term

Next == NewTerm \/ Write

Spec == Init /\ [][Next]_<<term, log>>
=============================================================================
