-------------------------- MODULE IssueLifecycle --------------------------
(***************************************************************************)
(* The life of an issue under a sequential worker, without polling, files  *)
(* or copies of files.  Issues wait in one line and are taken from its     *)
(* head, one at a time, while the worker is up.  An execution settles its  *)
(* issue for good, or sends it to the back of the line with one more       *)
(* attempt counted while the budget lasts.  A worker that is killed or     *)
(* interrupted loses its issue, to be detected anew.                       *)
(*                                                                         *)
(* DocumentedSpec is the life cycle README.md describes.  Spec adds what   *)
(* the code does when an execution raises with the budget spent: Abandon.  *)
(***************************************************************************)
EXTENDS Naturals, Sequences

CONSTANTS Issues, Budget, NoIssue

VARIABLES
    up,       \* the worker runs
    waiting,  \* the issues in line
    tries,    \* the attempts counted for each issue that waits or is active
    active,   \* the issue being executed, or NoIssue
    settled   \* the issues never to be executed again

vars == <<up, waiting, tries, active, settled>>

Waiting == {waiting[n] : n \in DOMAIN waiting}

Init ==
    /\ up = FALSE
    /\ waiting = <<>> /\ active = NoIssue /\ settled = {}
    /\ tries = [i \in Issues |-> 0]

Begin ==
    /\ ~up /\ up' = TRUE
    /\ UNCHANGED <<waiting, tries, active, settled>>

Detect(i) ==
    /\ up /\ i \notin Waiting \cup settled \cup {active}
    /\ waiting' = Append(waiting, i)
    /\ UNCHANGED <<up, tries, active, settled>>

Launch ==
    /\ up /\ active = NoIssue /\ waiting # <<>>
    /\ active' = Head(waiting) /\ waiting' = Tail(waiting)
    /\ UNCHANGED <<up, tries, settled>>

\* The worker lets go of its issue, with n attempts counted from now on.
LetGo(n) ==
    /\ active' = NoIssue
    /\ tries' = [tries EXCEPT ![active] = n]

Settle ==
    /\ active # NoIssue
    /\ LetGo(0) /\ settled' = settled \cup {active}
    /\ UNCHANGED <<up, waiting>>

Retry ==
    /\ active # NoIssue /\ tries[active] < Budget
    /\ LetGo(tries[active] + 1) /\ waiting' = Append(waiting, active)
    /\ UNCHANGED <<up, settled>>

\* The worker goes down, and its issue with it: a crash or an interrupt.
Lose ==
    /\ up /\ up' = FALSE /\ active # NoIssue
    /\ LetGo(0)
    /\ UNCHANGED <<waiting, settled>>

End ==
    /\ up /\ up' = FALSE /\ active = NoIssue
    /\ UNCHANGED <<waiting, tries, active, settled>>

\* The budget is spent and the issue filed nowhere: a worker that is still up
\* forgets it, and its next detection starts with no attempt counted.
Abandon ==
    /\ active # NoIssue /\ tries[active] >= Budget
    /\ LetGo(0)
    /\ UNCHANGED <<up, waiting, settled>>

DocumentedNext ==
    \/ Begin \/ Launch \/ Settle \/ Retry \/ Lose \/ End
    \/ \E i \in Issues : Detect(i)

DocumentedSpec == Init /\ [][DocumentedNext]_vars

Next == DocumentedNext \/ Abandon

Spec == Init /\ [][Next]_vars

=========================================================================
