------------------------------ MODULE Semaphore ------------------------------
(***************************************************************************)
(* The counting semaphore of coport/src/semaphore.ts, as operators on its   *)
(* state.  A slot that is given back goes straight to the first waiter and  *)
(* is counted as available only when nobody waits, so that a caller who     *)
(* arrives in between cannot take it as well.                               *)
(***************************************************************************)
EXTENDS Naturals, Sequences, FiniteSets

\* A new semaphore: the permits it was constructed with, nobody in it.
Permits(n) == [available |-> n, waiters |-> <<>>, running |-> {}]

\* Caller c comes to run: it goes in, or waits its turn.
Run(sem, c) ==
    IF sem.available > 0
    THEN [sem EXCEPT !.available = @ - 1, !.running = @ \cup {c}]
    ELSE [sem EXCEPT !.waiters = Append(@, c)]

\* Mutant: the slot is counted as available and nobody is woken.
DoneQuietly(sem, c) == [sem EXCEPT !.available = @ + 1, !.running = @ \ {c}]

\* c's work has settled, one way or the other.
Done(sem, c) ==
    IF sem.waiters # <<>>
    THEN [sem EXCEPT !.waiters = Tail(@), !.running = (@ \ {c}) \cup {Head(sem.waiters)}]
    ELSE [sem EXCEPT !.available = @ + 1, !.running = @ \ {c}]

\* What a semaphore of n permits always satisfies: each permit is free or with one
\* caller, none is free while somebody waits, and nobody is in it twice.
Sound(sem, n) ==
    /\ Cardinality(sem.running) + sem.available = n
    /\ sem.waiters # <<>> => sem.available = 0
    /\ \A i \in DOMAIN sem.waiters :
         /\ sem.waiters[i] \notin sem.running
         /\ \A j \in DOMAIN sem.waiters : sem.waiters[i] = sem.waiters[j] => i = j
=============================================================================
