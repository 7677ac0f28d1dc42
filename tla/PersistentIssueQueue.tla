---------------------- MODULE PersistentIssueQueue ----------------------
(***************************************************************************)
(* The operations of worker/queue/persistent.py as functions from one      *)
(* queue value to the next.  A queue is a sequence of WorkerIssue records; *)
(* of a WorkerIssue only its key (repository#number) and its attempt count *)
(* decide anything, so an item is [key, attempts].                         *)
(*                                                                         *)
(* Every method of the class runs under the object's RLock and ends by     *)
(* rewriting the whole file, so one operator is one atomic step of the     *)
(* process that calls it.  The lock is an object of that process: nothing  *)
(* here protects the file from another process, and the modules that use   *)
(* these operators say which copy, memory or file, each of them acts on.   *)
(***************************************************************************)
EXTENDS Naturals, SequencesExt

Keys(q) == {q[n].key : n \in DOMAIN q}

\* Mutant: the first item, whatever was asked for.
HeadIndex(q, k) == 1

\* The position a linear search finds.  QueueKeysUnique (WorkerFleet) makes
\* the first match the only one.
IndexOf(q, k) == CHOOSE n \in DOMAIN q : q[n].key = k

\* Mutants: a retry that forgets to count, a removal that takes the head, a move
\* that inserts without removing.
RetryWithoutCount(q, item) ==
    IF item.key \in Keys(q) THEN q ELSE Append(q, item)
DequeueHeadInstead(q, k) == IF k \in Keys(q) THEN Tail(q) ELSE q
MoveWithoutRemoval(q, k) ==
    IF k \in Keys(q) THEN <<q[IndexOf(q, k)]>> \o q ELSE q

Enqueue(q, item) == IF item.key \in Keys(q) THEN q ELSE Append(q, item)

RetryEnqueue(q, item) == Enqueue(q, [item EXCEPT !.attempts = @ + 1])

DequeueIssue(q, k) ==
    IF k \in Keys(q) THEN RemoveAt(q, IndexOf(q, k)) ELSE q

MoveToFront(q, k) ==
    IF k \in Keys(q) THEN <<q[IndexOf(q, k)]>> \o DequeueIssue(q, k) ELSE q

\* What the class docstring calls duplicate prevention: one entry per issue.
UniqueKeys(q) == \A m, n \in DOMAIN q : q[m].key = q[n].key => m = n

=========================================================================
