------------------------------ MODULE FutexMap ------------------------------
(***************************************************************************)
(* What the chain of futexes of a memory part promises to kshm_futex: one  *)
(* reference counted futex at most for every futex word.  A lookup that    *)
(* finds nothing was made at a moment when nobody had a reference to the   *)
(* futex of that word, so nobody can have been waiting for it.             *)
(***************************************************************************)
EXTENDS Naturals

CONSTANTS FmThreads,  \* the callers
          FmIds       \* the words of the part

VARIABLES
  count,   \* the references to the futex of each word, 0 if it has none
  answer   \* what each caller was last told

FmInit ==
  /\ count = [i \in FmIds |-> 0]
  /\ answer = [t \in FmThreads |-> "none"]

Answer(t, a) == answer' = [answer EXCEPT ![t] = a]

\* A caller asks again.
Ask(t) == Answer(t, "none") /\ UNCHANGED count

Find(t, i) ==
  /\ count[i] > 0
  /\ count' = [count EXCEPT ![i] = @ + 1]
  /\ Answer(t, "found")

Make(t, i) ==
  /\ count[i] = 0
  /\ count' = [count EXCEPT ![i] = 1]
  /\ Answer(t, "made")

Miss(t, i) == count[i] = 0 /\ Answer(t, "missing") /\ UNCHANGED count

Fail(t) == Answer(t, "nomem") /\ UNCHANGED count

Drop(t, i) ==
  /\ count[i] > 0
  /\ count' = [count EXCEPT ![i] = @ - 1]
  /\ Answer(t, "none")

FmNext ==
  \E t \in FmThreads :
    \/ Ask(t) \/ Fail(t)
    \/ \E i \in FmIds : Find(t, i) \/ Make(t, i) \/ Miss(t, i) \/ Drop(t, i)
=============================================================================
