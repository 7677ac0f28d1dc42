--------------------------- MODULE FleetClaims ---------------------------
(***************************************************************************)
(* Statements the repository makes about its workers, held against         *)
(* WorkerFleet.  `withdrawn` is a history variable: the issues an operator *)
(* cancelled or removed and nobody has detected or requested since.        *)
(***************************************************************************)
EXTENDS WorkerFleet

VARIABLE withdrawn

Withdraws(i) == \E c \in Clients : RemoveIssue(c, i)

\* Steps that put an issue into a queue for the first time.
Asks(c) ==
    \/ RequestEnqueue(c) \/ RequestMove(c)
    \/ CliEnqueue(c) /\ task[c].op # "check"
Requests(i) ==
    \/ \E p \in Procs : PollEnqueue(p, i)
    \/ \E c \in Clients : task[c].key = i /\ Asks(c)

ClaimsInit == Init /\ withdrawn = {}

ClaimsNext ==
    \/ \E i \in Issues :
         \/ Withdraws(i) /\ withdrawn' = withdrawn \cup {i}
         \/ Requests(i) /\ withdrawn' = withdrawn \ {i}
    \/ /\ Next /\ ~ \E i \in Issues : Withdraws(i) \/ Requests(i)
       /\ UNCHANGED withdrawn

ClaimsSpec ==
    /\ ClaimsInit /\ [][ClaimsNext]_<<vars, withdrawn>>
    /\ \A d \in Daemons : WF_vars(Tick(d))

\* README: an issue in progress is skipped, and a queue prevents duplicates; so
\* no issue is executed by two processes at once.
NoDoubleExecution ==
    \A p, q \in Procs :
        pc[p] = "running" /\ pc[q] = "running" /\ job[p].key = job[q].key
            => p = q

\* cancel_issue reports "pending issue removed before execution": a withdrawn
\* issue is not executed until somebody detects or requests it again.
WithdrawnNotExecuted ==
    \A p \in Procs : pc[p] = "running" => job[p].key \notin withdrawn

\* README: with WORKER_CONTINUE_ON_FAILURE=true the failure of one issue does
\* not stop the worker from watching, once it has let go of the issue.
SurvivesIssueFailure ==
    [][\A d \in Daemons : Unwind(d) => pc'[d] = "idle"]_vars

\* README: the worker polls continuously and enqueues new open issues, so one
\* that stays open while the daemon stays up is taken up sooner or later.
OpenIssuesAreTaken ==
    \A d \in Daemons, i \in Issues :
        i \in open /\ pc[d] # "down"
            ~> (i \in Keys(queueFile) \cup doneFile \/ i \notin open \/ pc[d] = "down")

=========================================================================
