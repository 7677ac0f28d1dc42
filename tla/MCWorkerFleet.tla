-------------------------- MODULE MCWorkerFleet --------------------------
(***************************************************************************)
(* A daemon and a client side by side, with every kind of command.  The    *)
(* configuration leaves out two, solve and cliIssue, which differ from     *)
(* retry and cliRetry in the first attempt count alone, and crashes,       *)
(* interrupts and exceptions, which the daemon's own run has.  All issues  *)
(* stay open: what GitHub does meanwhile only changes which issues a poll  *)
(* lists, and the daemon's run varies that too.                            *)
(***************************************************************************)
EXTENDS WorkerFleet

SteadyInit == Init /\ open = Issues

SteadySpec == SteadyInit /\ [][Processes]_vars

=========================================================================
