----------------------- MODULE IssueExecutionProofs -----------------------
(***************************************************************************)
(* What holds of every execution, for any number of workers, issues,       *)
(* executions, faults and versions of the default branch: first while at   *)
(* most one worker at a time executes in the checkout (`Exclusive`), then  *)
(* for a single worker, and last what not even several workers at once can *)
(* break.  Without Exclusive the run of ClaimDefaultBranch refutes the     *)
(* first part.                                                             *)
(***************************************************************************)
EXTENDS IssueExecution, TLAPS

LEMMA CommitType ==
    ASSUME NEW v \in Versions, NEW s \in SUBSET Issues, NEW r \in SUBSET (0 .. MaxRuns)
    PROVE  /\ Commit(v, s, r) \in Commits
           /\ Commit(v, s, r).base = v /\ Commit(v, s, r).work = s
BY DEF Commit, Commits

LEMMA OneWorkerInit ==
    ASSUME NEW w \in Workers, Init PROVE OneWorkerInv(w)
<1> USE ExecutionAssumption
<1>1. 0 \in Versions /\ 0 \in 0 .. MaxRuns /\ 0 \in 0 .. MaxRetries + 1 /\ 0 \in 0 .. MaxFaults
  BY DEF Versions
<1>2. NoCommit \in Commits /\ NoCommit.work = {}
  BY <1>1 DEF NoCommit, Commits
<1>3. Commit(0, {}, {}) \in Commits /\ Commit(0, {}, {}).work = {} /\ Commit(0, {}, {}).base = 0
  BY <1>1, CommitType
<1>4. \A b \in Branches : tip[b] \in Commits /\ tip[b].work = {}
  BY <1>2, <1>3 DEF Init
<1>5. TypeOK
  BY <1>1, <1>2, <1>3 DEF Init, TypeOK, Steps, Branches
<1>6. OwnWork
  BY <1>2, <1>4 DEF Init, OwnWork, NeverCommitsToDefault, EachBranchItsOwn, Branches
<1>7. /\ OnItsBranch(w) /\ OwnEdits(w) /\ UpToDate(w)
      /\ WithinRetries(w)
  BY DEF Init, OnItsBranch, OwnEdits, UpToDate, WithinRetries, Based, Decided
<1> QED
  BY <1>5, <1>6, <1>7 DEF OneWorkerInv

-------------------------------------------------------------------------
\* A step preserves the invariant: one fact per action.

LEMMA AdvanceDefaultStep ==
    ASSUME NEW w \in Workers, OneWorkerInv(w), AdvanceDefault
    PROVE  OneWorkerInv(w)'
<1> USE ExecutionAssumption DEF AdvanceDefault, checkout, worker, Versions
<1>1. TypeOK'
  BY DEF OneWorkerInv, TypeOK, Steps, Branches
<1>2. OwnWork'
  BY DEF OneWorkerInv, OwnWork, NeverCommitsToDefault, EachBranchItsOwn,
         OwnEdits, OnItsBranch, Decided, TypeOK, Branches
<1>3. OnItsBranch(w)' /\ OwnEdits(w)' /\ WithinRetries(w)'
  BY DEF OneWorkerInv, OnItsBranch, OwnEdits, WithinRetries, Decided, TypeOK
<1>4. UpToDate(w)'
  BY DEF OneWorkerInv, UpToDate, OnItsBranch, Based, Decided, TypeOK, Branches, Versions
<1> QED
  BY <1>1, <1>2, <1>3, <1>4 DEF OneWorkerInv

LEMMA DeleteBranchStep ==
    ASSUME NEW w \in Workers, OneWorkerInv(w), NEW i \in Issues, DeleteBranch(i)
    PROVE  OneWorkerInv(w)'
<1> USE ExecutionAssumption DEF DeleteBranch, checkout, worker, NoCommit, Commits, Versions
<1>1. TypeOK'
  BY DEF OneWorkerInv, TypeOK, Steps, Branches
<1>2. OwnWork'
  BY DEF OneWorkerInv, OwnWork, NeverCommitsToDefault, EachBranchItsOwn,
         OwnEdits, OnItsBranch, Decided, TypeOK, Branches
<1>3. OnItsBranch(w)' /\ OwnEdits(w)' /\ WithinRetries(w)'
  BY DEF OneWorkerInv, OnItsBranch, OwnEdits, WithinRetries, Decided, TypeOK
<1>4. UpToDate(w)'
  BY DEF OneWorkerInv, UpToDate, OnItsBranch, Based, Decided, TypeOK, Branches, Versions
<1> QED
  BY <1>1, <1>2, <1>3, <1>4 DEF OneWorkerInv

LEMMA BeginStep ==
    ASSUME NEW w \in Workers, OneWorkerInv(w), NEW i \in Issues, Begin(w, i)
    PROVE  OneWorkerInv(w)'
<1> USE ExecutionAssumption DEF Begin, At, github, checkout
<1>1. TypeOK'
  BY DEF OneWorkerInv, TypeOK, Steps, Branches
<1>2. OwnWork'
  BY DEF OneWorkerInv, OwnWork, NeverCommitsToDefault, EachBranchItsOwn,
         OwnEdits, OnItsBranch, Decided, TypeOK, Branches
<1>3. OnItsBranch(w)' /\ OwnEdits(w)' /\ WithinRetries(w)'
  BY DEF OneWorkerInv, OnItsBranch, OwnEdits, WithinRetries, Decided, TypeOK
<1>4. UpToDate(w)'
  BY DEF OneWorkerInv, UpToDate, OnItsBranch, Based, Decided, TypeOK, Branches, Versions
<1> QED
  BY <1>1, <1>2, <1>3, <1>4 DEF OneWorkerInv

LEMMA FetchStep ==
    ASSUME NEW w \in Workers, OneWorkerInv(w), Fetch(w)
    PROVE  OneWorkerInv(w)'
<1> USE ExecutionAssumption DEF Fetch, At, github, worker
<1>1. TypeOK'
  BY DEF OneWorkerInv, TypeOK, Steps, Branches
<1>2. OwnWork'
  BY DEF OneWorkerInv, OwnWork, NeverCommitsToDefault, EachBranchItsOwn,
         OwnEdits, OnItsBranch, Decided, TypeOK, Branches
<1>3. OnItsBranch(w)' /\ OwnEdits(w)' /\ WithinRetries(w)'
  BY DEF OneWorkerInv, OnItsBranch, OwnEdits, WithinRetries, Decided, TypeOK
<1>4. UpToDate(w)'
  BY DEF OneWorkerInv, UpToDate, OnItsBranch, Based, Decided, TypeOK, Branches, Versions
<1> QED
  BY <1>1, <1>2, <1>3, <1>4 DEF OneWorkerInv

LEMMA CheckoutStep ==
    ASSUME NEW w \in Workers, OneWorkerInv(w), CheckoutDefault(w)
    PROVE  OneWorkerInv(w)'
<1> USE ExecutionAssumption DEF CheckoutDefault, At, github, worker
<1>1. TypeOK'
  BY DEF OneWorkerInv, TypeOK, Steps, Branches
<1>2. OwnWork'
  BY DEF OneWorkerInv, OwnWork, NeverCommitsToDefault, EachBranchItsOwn,
         OwnEdits, OnItsBranch, Decided, TypeOK, Branches
<1>3. OnItsBranch(w)' /\ OwnEdits(w)' /\ WithinRetries(w)'
  BY DEF OneWorkerInv, OnItsBranch, OwnEdits, WithinRetries, Decided, TypeOK
<1>4. UpToDate(w)'
  BY DEF OneWorkerInv, UpToDate, OnItsBranch, Based, Decided, TypeOK, Branches, Versions
<1> QED
  BY <1>1, <1>2, <1>3, <1>4 DEF OneWorkerInv

LEMMA ResetStep ==
    ASSUME NEW w \in Workers, OneWorkerInv(w), ResetHard(w)
    PROVE  OneWorkerInv(w)'
<1> USE ExecutionAssumption DEF ResetHard, ResetTakes, At, github, worker
<1> DEFINE new == Commit(fetched, {}, {})
<1>0. /\ new \in Commits /\ new.base = fetched /\ new.work = {}
      /\ tip' = [tip EXCEPT ![head] = new]
  BY CommitType DEF OneWorkerInv, TypeOK, Versions
<1> HIDE DEF new
<1>1. TypeOK'
  BY <1>0 DEF OneWorkerInv, TypeOK, Steps, Branches
<1>2. OwnWork'
  BY <1>0 DEF OneWorkerInv, OwnWork, NeverCommitsToDefault, EachBranchItsOwn,
         OwnEdits, OnItsBranch, Decided, TypeOK, Branches
<1>3. OnItsBranch(w)' /\ OwnEdits(w)' /\ WithinRetries(w)'
  BY DEF OneWorkerInv, OnItsBranch, OwnEdits, WithinRetries, Decided, TypeOK
<1>4. UpToDate(w)'
  BY <1>0 DEF OneWorkerInv, UpToDate, OnItsBranch, Based, Decided, TypeOK, Branches, Versions
<1> QED
  BY <1>1, <1>2, <1>3, <1>4 DEF OneWorkerInv

LEMMA CleanStep ==
    ASSUME NEW w \in Workers, OneWorkerInv(w), Clean(w)
    PROVE  OneWorkerInv(w)'
<1> USE ExecutionAssumption DEF Clean, CleanEnds, At, github, worker
<1>1. TypeOK'
  BY DEF OneWorkerInv, TypeOK, Steps, Branches
<1>2. OwnWork'
  BY DEF OneWorkerInv, OwnWork, NeverCommitsToDefault, EachBranchItsOwn,
         OwnEdits, OnItsBranch, Decided, TypeOK, Branches
<1>3. OnItsBranch(w)' /\ OwnEdits(w)' /\ WithinRetries(w)'
  BY DEF OneWorkerInv, OnItsBranch, OwnEdits, WithinRetries, Decided, TypeOK
<1>4. UpToDate(w)'
  BY DEF OneWorkerInv, UpToDate, OnItsBranch, Based, Decided, TypeOK, Branches, Versions
<1> QED
  BY <1>1, <1>2, <1>3, <1>4 DEF OneWorkerInv

LEMMA CreateBranchStep ==
    ASSUME NEW w \in Workers, OneWorkerInv(w), CreateBranch(w)
    PROVE  OneWorkerInv(w)'
<1> USE ExecutionAssumption DEF CreateBranch, CheckoutIssueBranch, At, github, worker
<1>1. TypeOK'
  BY DEF OneWorkerInv, TypeOK, Steps, Branches
<1>2. OwnWork'
  BY DEF OneWorkerInv, OwnWork, NeverCommitsToDefault, EachBranchItsOwn,
         OwnEdits, OnItsBranch, Decided, TypeOK, Branches
<1>3. OnItsBranch(w)' /\ OwnEdits(w)' /\ WithinRetries(w)'
  BY DEF OneWorkerInv, OnItsBranch, OwnEdits, WithinRetries, Decided, TypeOK
<1>4. UpToDate(w)'
  BY DEF OneWorkerInv, UpToDate, OnItsBranch, Based, Decided, TypeOK, Branches, Versions
<1> QED
  BY <1>1, <1>2, <1>3, <1>4 DEF OneWorkerInv

LEMMA EngineStep ==
    ASSUME ~roams, NEW w \in Workers, OneWorkerInv(w), RunEngine(w)
    PROVE  OneWorkerInv(w)'
<1> USE ExecutionAssumption DEF RunEngine, EngineOutcomes, At, github
<1>1. TypeOK'
  BY DEF OneWorkerInv, OnItsBranch, WithinRetries, TypeOK, Steps, Branches
<1>2. OwnWork'
  BY DEF OneWorkerInv, OwnWork, NeverCommitsToDefault, EachBranchItsOwn,
         OwnEdits, OnItsBranch, Decided, TypeOK, Branches
<1>3. OnItsBranch(w)' /\ OwnEdits(w)' /\ WithinRetries(w)'
  BY DEF OneWorkerInv, OnItsBranch, OwnEdits, WithinRetries, Decided, TypeOK
<1>4. UpToDate(w)'
  BY DEF OneWorkerInv, UpToDate, OnItsBranch, Based, Decided, TypeOK, Branches, Versions
<1> QED
  BY <1>1, <1>2, <1>3, <1>4 DEF OneWorkerInv

LEMMA ReadBranchStep ==
    ASSUME NEW w \in Workers, OneWorkerInv(w), ReadBranch(w)
    PROVE  OneWorkerInv(w)'
<1> USE ExecutionAssumption DEF ReadBranch, CheckoutIssueBranch, At, github, checkout
<1>1. TypeOK'
  BY DEF OneWorkerInv, TypeOK, Steps, Branches
<1>2. OwnWork'
  BY DEF OneWorkerInv, OwnWork, NeverCommitsToDefault, EachBranchItsOwn,
         OwnEdits, OnItsBranch, Decided, TypeOK, Branches
<1>3. OnItsBranch(w)' /\ OwnEdits(w)' /\ WithinRetries(w)'
  BY DEF OneWorkerInv, OnItsBranch, OwnEdits, WithinRetries, Decided, TypeOK
<1>4. UpToDate(w)'
  BY DEF OneWorkerInv, UpToDate, OnItsBranch, Based, Decided, TypeOK, Branches, Versions
<1> QED
  BY <1>1, <1>2, <1>3, <1>4 DEF OneWorkerInv

LEMMA ReadChangesStep ==
    ASSUME NEW w \in Workers, OneWorkerInv(w), ReadChanges(w)
    PROVE  OneWorkerInv(w)'
<1> USE ExecutionAssumption DEF ReadChanges, At, github, checkout
<1>1. TypeOK'
  BY DEF OneWorkerInv, TypeOK, Steps, Branches
<1>2. OwnWork'
  BY DEF OneWorkerInv, OwnWork, NeverCommitsToDefault, EachBranchItsOwn,
         OwnEdits, OnItsBranch, Decided, TypeOK, Branches
<1>3. OnItsBranch(w)' /\ OwnEdits(w)' /\ WithinRetries(w)'
  BY DEF OneWorkerInv, OnItsBranch, OwnEdits, WithinRetries, Decided, TypeOK
<1>4. UpToDate(w)'
  BY DEF OneWorkerInv, UpToDate, OnItsBranch, Based, Decided, TypeOK, Branches, Versions
<1> QED
  BY <1>1, <1>2, <1>3, <1>4 DEF OneWorkerInv

LEMMA CommitStep ==
    ASSUME NEW w \in Workers, OneWorkerInv(w), MakeCommit(w)
    PROVE  OneWorkerInv(w)'
<1> USE ExecutionAssumption DEF MakeCommit, At, github
<1> DEFINE new == Commit(tip[head].base, tip[head].work \cup dirty, tip[head].by \cup {run[w]})
<1>0. /\ new \in Commits /\ new.base = tip[head].base
      /\ new.work = tip[head].work \cup dirty
      /\ tip' = [tip EXCEPT ![head] = new]
  <2>1. tip[head] \in Commits /\ dirty \in SUBSET Issues /\ run[w] \in 0 .. MaxRuns
    BY DEF OneWorkerInv, TypeOK
  <2>2. /\ tip[head].base \in Versions /\ tip[head].work \cup dirty \in SUBSET Issues
        /\ tip[head].by \cup {run[w]} \in SUBSET (0 .. MaxRuns)
    BY <2>1 DEF Commits
  <2> QED
    BY <2>1, <2>2, CommitType
<1> HIDE DEF new
<1>1. TypeOK'
  BY <1>0 DEF OneWorkerInv, TypeOK, Steps, Branches
<1>2. OwnWork'
  <2>1. /\ head = issue[w] /\ head \in Issues /\ head # Default
        /\ dirty \subseteq {head}
    BY DEF OneWorkerInv, OnItsBranch, OwnEdits, Decided, TypeOK
  <2>2. new.work \subseteq {head}
    BY <1>0, <2>1 DEF OneWorkerInv, OwnWork, EachBranchItsOwn
  <2> QED
    BY <1>0, <2>1, <2>2 DEF OneWorkerInv, OwnWork, NeverCommitsToDefault,
       EachBranchItsOwn, TypeOK, Branches
<1>3. OnItsBranch(w)' /\ OwnEdits(w)' /\ WithinRetries(w)'
  BY DEF OneWorkerInv, OnItsBranch, OwnEdits, WithinRetries, Decided, TypeOK
<1>4. UpToDate(w)'
  BY <1>0 DEF OneWorkerInv, UpToDate, OnItsBranch, Based, Decided, TypeOK, Branches, Versions
<1> QED
  BY <1>1, <1>2, <1>3, <1>4 DEF OneWorkerInv

LEMMA PushStep ==
    ASSUME NEW w \in Workers, OneWorkerInv(w), Push(w)
    PROVE  OneWorkerInv(w)'
<1> USE ExecutionAssumption DEF Push, Fresh, At, checkout, worker
<1>1. TypeOK'
  BY DEF OneWorkerInv, TypeOK, Steps, Branches
<1>2. OwnWork'
  BY DEF OneWorkerInv, OwnWork, NeverCommitsToDefault, EachBranchItsOwn,
         OwnEdits, OnItsBranch, Decided, TypeOK, Branches
<1>3. OnItsBranch(w)' /\ OwnEdits(w)' /\ WithinRetries(w)'
  BY DEF OneWorkerInv, OnItsBranch, OwnEdits, WithinRetries, Decided, TypeOK
<1>4. UpToDate(w)'
  BY DEF OneWorkerInv, UpToDate, OnItsBranch, Based, Decided, TypeOK, Branches, Versions
<1> QED
  BY <1>1, <1>2, <1>3, <1>4 DEF OneWorkerInv

LEMMA PullStep ==
    ASSUME NEW w \in Workers, OneWorkerInv(w), OpenPull(w)
    PROVE  OneWorkerInv(w)'
<1> USE ExecutionAssumption DEF OpenPull, HasWork, At, checkout, worker
<1>1. TypeOK'
  BY DEF OneWorkerInv, OnItsBranch, Decided, TypeOK, Steps, Branches
<1>2. OwnWork'
  BY DEF OneWorkerInv, OwnWork, NeverCommitsToDefault, EachBranchItsOwn,
         OwnEdits, OnItsBranch, Decided, TypeOK, Branches
<1>3. OnItsBranch(w)' /\ OwnEdits(w)' /\ WithinRetries(w)'
  BY DEF OneWorkerInv, OnItsBranch, OwnEdits, WithinRetries, Decided, TypeOK
<1>4. UpToDate(w)'
  BY DEF OneWorkerInv, UpToDate, OnItsBranch, Based, Decided, TypeOK, Branches, Versions
<1> QED
  BY <1>1, <1>2, <1>3, <1>4 DEF OneWorkerInv

LEMMA PassStep ==
    ASSUME NEW w \in Workers, OneWorkerInv(w), NothingToCommit(w) \/ NoPull(w) \/ Finish(w)
    PROVE  OneWorkerInv(w)'
<1> USE ExecutionAssumption DEF NothingToCommit, NoPull, Finish, At, github, checkout, worker
<1>1. TypeOK'
  BY DEF OneWorkerInv, TypeOK, Steps, Branches
<1>2. OwnWork'
  BY DEF OneWorkerInv, OwnWork, NeverCommitsToDefault, EachBranchItsOwn,
         OwnEdits, OnItsBranch, Decided, TypeOK, Branches
<1>3. OnItsBranch(w)' /\ OwnEdits(w)' /\ WithinRetries(w)'
  BY DEF OneWorkerInv, OnItsBranch, OwnEdits, WithinRetries, Decided, TypeOK
<1>4. UpToDate(w)'
  BY DEF OneWorkerInv, UpToDate, OnItsBranch, Based, Decided, TypeOK, Branches, Versions
<1> QED
  BY <1>1, <1>2, <1>3, <1>4 DEF OneWorkerInv

LEMMA RefusedStep ==
    ASSUME NEW w \in Workers, OneWorkerInv(w), Refused(w)
    PROVE  OneWorkerInv(w)'
<1> USE ExecutionAssumption DEF Refused, github, checkout, worker
<1>1. TypeOK'
  BY DEF OneWorkerInv, TypeOK, Steps, Branches
<1>2. OwnWork'
  BY DEF OneWorkerInv, OwnWork, NeverCommitsToDefault, EachBranchItsOwn,
         OwnEdits, OnItsBranch, Decided, TypeOK, Branches
<1>3. OnItsBranch(w)' /\ OwnEdits(w)' /\ WithinRetries(w)'
  BY DEF OneWorkerInv, OnItsBranch, OwnEdits, WithinRetries, Decided, TypeOK
<1>4. UpToDate(w)'
  BY DEF OneWorkerInv, UpToDate, OnItsBranch, Based, Decided, TypeOK, Branches, Versions
<1> QED
  BY <1>1, <1>2, <1>3, <1>4 DEF OneWorkerInv

LEMMA FailureStep ==
    ASSUME NEW w \in Workers, OneWorkerInv(w), StageFails(w) \/ Crash(w)
    PROVE  OneWorkerInv(w)'
<1> USE ExecutionAssumption DEF StageFails, Crash, Fault, github, checkout, worker
<1>1. TypeOK'
  BY DEF OneWorkerInv, TypeOK, Steps, Branches
<1>2. OwnWork'
  BY DEF OneWorkerInv, OwnWork, NeverCommitsToDefault, EachBranchItsOwn,
         OwnEdits, OnItsBranch, Decided, TypeOK, Branches
<1>3. OnItsBranch(w)' /\ OwnEdits(w)' /\ WithinRetries(w)'
  BY DEF OneWorkerInv, OnItsBranch, OwnEdits, WithinRetries, Decided, TypeOK
<1>4. UpToDate(w)'
  BY DEF OneWorkerInv, UpToDate, OnItsBranch, Based, Decided, TypeOK, Branches, Versions
<1> QED
  BY <1>1, <1>2, <1>3, <1>4 DEF OneWorkerInv

LEMMA EngineFailsStep ==
    ASSUME ~roams, NEW w \in Workers, OneWorkerInv(w), EngineFails(w)
    PROVE  OneWorkerInv(w)'
<1> USE ExecutionAssumption DEF EngineFails, Fault, github, worker
<1>0. dirty' \in {dirty \cup {issue[w]}, dirty \ {issue[w]}} /\ head' \in {head, Default}
  BY DEF EngineOutcomes
<1>1. TypeOK'
  BY <1>0 DEF OneWorkerInv, TypeOK, Steps, Branches
<1>2. OwnWork'
  BY DEF OneWorkerInv, OwnWork, NeverCommitsToDefault, EachBranchItsOwn,
         OwnEdits, OnItsBranch, Decided, TypeOK, Branches
<1>3. OnItsBranch(w)' /\ OwnEdits(w)' /\ WithinRetries(w)'
  BY DEF OneWorkerInv, OnItsBranch, OwnEdits, WithinRetries, Decided, TypeOK
<1>4. UpToDate(w)'
  BY DEF OneWorkerInv, UpToDate, OnItsBranch, Based, Decided, TypeOK, Branches, Versions
<1> QED
  BY <1>1, <1>2, <1>3, <1>4 DEF OneWorkerInv

LEMMA AnswerLostStep ==
    ASSUME NEW w \in Workers, OneWorkerInv(w), AnswerLost(w)
    PROVE  OneWorkerInv(w)'
<1> USE ExecutionAssumption DEF AnswerLost, HasWork, Fault, checkout, worker
<1>1. TypeOK'
  BY DEF OneWorkerInv, OnItsBranch, Decided, TypeOK, Steps, Branches
<1>2. OwnWork'
  BY DEF OneWorkerInv, OwnWork, NeverCommitsToDefault, EachBranchItsOwn,
         OwnEdits, OnItsBranch, Decided, TypeOK, Branches
<1>3. OnItsBranch(w)' /\ OwnEdits(w)' /\ WithinRetries(w)'
  BY DEF OneWorkerInv, OnItsBranch, OwnEdits, WithinRetries, Decided, TypeOK
<1>4. UpToDate(w)'
  BY DEF OneWorkerInv, UpToDate, OnItsBranch, Based, Decided, TypeOK, Branches, Versions
<1> QED
  BY <1>1, <1>2, <1>3, <1>4 DEF OneWorkerInv

-------------------------------------------------------------------------
\* What is no worker's step.
Outside == AdvanceDefault \/ (\E i \in Issues : DeleteBranch(i)) \/ UNCHANGED vars

LEMMA OneWorkerStep ==
    ASSUME ~roams, NEW w \in Workers, OneWorkerInv(w), Outside \/ Step(w)
    PROVE  OneWorkerInv(w)'
<1>1. CASE AdvanceDefault
  BY <1>1, AdvanceDefaultStep
<1>2. CASE \E i \in Issues : DeleteBranch(i)
  BY <1>2, DeleteBranchStep
<1>3. CASE Step(w)
  BY <1>3, BeginStep, FetchStep, CheckoutStep, ResetStep, CleanStep, CreateBranchStep,
     EngineStep, ReadBranchStep, ReadChangesStep, CommitStep, PushStep, PullStep,
     PassStep, RefusedStep, FailureStep, EngineFailsStep, AnswerLostStep
     DEF Step
<1>4. CASE UNCHANGED vars
  BY <1>4 DEF vars, github, checkout, worker, OneWorkerInv, TypeOK, OwnWork,
     NeverCommitsToDefault, EachBranchItsOwn, OnItsBranch, OwnEdits, UpToDate,
     WithinRetries
<1> QED
  BY <1>1, <1>2, <1>3, <1>4 DEF Outside

\* The numbers of the executions, on GitHub's branches and at the worker.
LEMMA OwnRunStep ==
    ASSUME ~roams, NEW w \in Workers, OneWorkerInv(w), OwnRun(w), Outside \/ Step(w)
    PROVE  OwnRun(w)'
<1> USE ExecutionAssumption
<1>1. /\ run \in [Workers -> 0 .. MaxRuns] /\ runs \in 0 .. MaxRuns
      /\ pushed \in [Issues -> Commits] /\ tip \in [Branches -> Commits]
      /\ issue \in [Workers -> Issues] /\ head \in Branches /\ pc \in [Workers -> Steps]
  BY DEF OneWorkerInv, TypeOK
<1>2. \A i \in Issues : pushed[i].by \subseteq 0 .. MaxRuns
  BY <1>1 DEF Commits
<1>3. CASE UNCHANGED vars \/ AdvanceDefault
  BY <1>3 DEF vars, github, checkout, worker, AdvanceDefault, OwnRun
<1>4. CASE \E i \in Issues : DeleteBranch(i)
  BY <1>1, <1>4 DEF DeleteBranch, checkout, worker, NoCommit, OwnRun
<1>5. CASE \E i \in Issues : Begin(w, i)
  BY <1>1, <1>2, <1>5 DEF Begin, At, github, checkout, OwnRun
<1>6. CASE Fetch(w) \/ CheckoutDefault(w) \/ ResetHard(w) \/ Clean(w) \/ CreateBranch(w)
  <2>1. CASE Fetch(w) \/ CheckoutDefault(w)
    BY <1>1, <2>1 DEF Fetch, CheckoutDefault, At, github, worker, OwnRun
  <2>2. CASE Clean(w)
    BY <1>1, <2>2 DEF Clean, CleanEnds, At, github, worker, OwnRun
  <2>3. CASE ResetHard(w)
    <3>1. tip'[Default].by = {}
      BY <1>1, <2>3 DEF ResetHard, ResetTakes, Commit, OwnRun, Branches
    <3> QED
      BY <1>1, <2>3, <3>1 DEF ResetHard, ResetTakes, At, github, worker, OwnRun
  <2>4. CASE CreateBranch(w)
    <3>1. tip'[Default].by = {} /\ tip'[issue[w]].by = {}
      BY <1>1, <2>4 DEF CreateBranch, CheckoutIssueBranch, OwnRun, Branches
    <3> QED
      BY <1>1, <2>4, <3>1 DEF CreateBranch, CheckoutIssueBranch, At, github, worker, OwnRun
  <2> QED
    BY <1>6, <2>1, <2>2, <2>3, <2>4
<1>7. CASE RunEngine(w) \/ ReadBranch(w) \/ ReadChanges(w) \/ NothingToCommit(w)
  BY <1>1, <1>7 DEF RunEngine, ReadBranch, ReadChanges, NothingToCommit, CheckoutIssueBranch,
                    At, github, checkout, worker, OwnRun
<1>8. CASE MakeCommit(w)
  <2>1. head = issue[w]
    BY <1>8 DEF MakeCommit, At, OneWorkerInv, OnItsBranch, Decided
  <2>2. tip'[issue[w]].by = {run[w]} /\ tip'[Default].by = {}
    <3>1. /\ tip' = [tip EXCEPT ![issue[w]] = Commit(@.base, @.work \cup dirty, @.by \cup {run[w]})]
          /\ tip[issue[w]].by = {} /\ issue[w] \in Branches \ {Default}
      BY <1>1, <1>8, <2>1 DEF MakeCommit, At, OwnRun, Branches
    <3> QED
      BY <1>1, <3>1 DEF Commit, OwnRun
  <2> QED
    BY <1>1, <1>8, <2>2 DEF MakeCommit, At, github, OwnRun
<1>9. CASE Push(w)
  <2>1. branch[w] = issue[w] /\ tip[issue[w]].by = {run[w]}
    BY <1>9 DEF Push, At, OneWorkerInv, OnItsBranch, Decided, OwnRun
  <2>2. CASE ~live
    BY <1>1, <1>9, <2>2 DEF Push, At, checkout, worker, OwnRun
  <2>3. CASE live
    <3>1. /\ pushed' = [pushed EXCEPT ![issue[w]] = tip[issue[w]]]
      BY <1>9, <2>1, <2>3 DEF Push, Fresh
    <3> QED
      BY <1>1, <1>9, <2>1, <3>1 DEF Push, At, checkout, worker, OwnRun
  <2> QED
    BY <2>2, <2>3
<1>10. CASE OpenPull(w) \/ NoPull(w) \/ Finish(w) \/ Refused(w)
  BY <1>1, <1>10 DEF OpenPull, NoPull, Finish, Refused, At, github, checkout, worker, OwnRun
<1>11. CASE StageFails(w) \/ EngineFails(w) \/ AnswerLost(w) \/ Crash(w)
  BY <1>1, <1>11 DEF StageFails, EngineFails, AnswerLost, Crash, github, checkout, worker, OwnRun
<1> QED
  BY <1>3, <1>4, <1>5, <1>6, <1>7, <1>8, <1>9, <1>10, <1>11 DEF Outside, Step

-------------------------------------------------------------------------
\* Any number of workers, of which only one at a time is in the checkout: what a
\* lock on the checkout would give, and what the code does not have.
Exclusive == \A v, w \in Workers : pc[v] # "idle" /\ pc[w] # "idle" => v = w

\* What a step of one worker leaves to another.
LEMMA OthersStay ==
    ASSUME TypeOK, NEW v \in Workers, Step(v), NEW w \in Workers, w # v
    PROVE  /\ UNCHANGED <<pc[w], issue[w], run[w], attempt[w], branch[w], changed[w], made[w],
                          result[w], began[w], upstream>>
           /\ runs' >= runs
<1> USE ExecutionAssumption DEF TypeOK, At, github, checkout, worker
<1>1. CASE \E i \in Issues : Begin(v, i)
  BY <1>1 DEF Begin
<1>2. CASE Fetch(v) \/ CheckoutDefault(v) \/ ResetHard(v) \/ Clean(v) \/ CreateBranch(v)
  BY <1>2 DEF Fetch, CheckoutDefault, ResetHard, ResetTakes, Clean, CleanEnds, CreateBranch
<1>3. CASE RunEngine(v) \/ ReadBranch(v) \/ ReadChanges(v) \/ NothingToCommit(v)
  BY <1>3 DEF RunEngine, ReadBranch, ReadChanges, NothingToCommit
<1>4. CASE MakeCommit(v) \/ Push(v) \/ OpenPull(v) \/ NoPull(v) \/ Finish(v) \/ Refused(v)
  BY <1>4 DEF MakeCommit, Push, OpenPull, NoPull, Finish, Refused
<1>5. CASE StageFails(v) \/ EngineFails(v) \/ AnswerLost(v) \/ Crash(v)
  BY <1>5 DEF StageFails, EngineFails, AnswerLost, Crash
<1> QED
  BY <1>1, <1>2, <1>3, <1>4, <1>5 DEF Step

\* Who takes a step is in the checkout before it or after it.
LEMMA StepsInside ==
    ASSUME TypeOK, NEW v \in Workers, Step(v) PROVE pc[v] # "idle" \/ pc'[v] # "idle"
BY DEF TypeOK, Step, Begin, Fetch, CheckoutDefault, ResetHard, ResetTakes, Clean, CleanEnds, CreateBranch, RunEngine,
       ReadBranch, ReadChanges, MakeCommit, NothingToCommit, Push, OpenPull, NoPull, Finish,
       Refused, StageFails, EngineFails, AnswerLost, Crash, At

\* Whoever is outside knows nothing that the worker inside could make untrue.
LEMMA OutsidersKept ==
    ASSUME OwnInv, Exclusive, Exclusive', NEW v \in Workers, Step(v),
           NEW w \in Workers, w # v, OneWorkerInv(v)', OwnRun(v)'
    PROVE  OneWorkerInv(w)' /\ OwnRun(w)'
<1>1. /\ TypeOK /\ OneWorkerInv(w) /\ OwnRun(w) /\ TypeOK' /\ OwnWork'
  BY DEF OwnInv, OneWorkerInv
<1>2. /\ UNCHANGED <<pc[w], run[w], began[w], upstream>>
      /\ runs' >= runs /\ (pc[v] # "idle" \/ pc'[v] # "idle")
  BY <1>1, OthersStay, StepsInside
<1>3. pc[w] = "idle" /\ pc'[w] = "idle"
  BY <1>2 DEF Exclusive
<1>4. OnItsBranch(w)' /\ OwnEdits(w)' /\ WithinRetries(w)'
  BY <1>3 DEF OnItsBranch, OwnEdits, WithinRetries, Decided
<1>5. UpToDate(w)'
  BY <1>1, <1>2, <1>3 DEF OneWorkerInv, UpToDate, Based
<1>6. OwnRun(w)'
  <2>1. run[w] \in Nat /\ runs \in Nat /\ runs' \in Nat /\ run'[w] <= runs'
    BY <1>1, <1>2, ExecutionAssumption DEF TypeOK, OwnRun
  <2> QED
    BY <1>3, <2>1 DEF OwnRun
<1> QED
  BY <1>1, <1>4, <1>5, <1>6 DEF OneWorkerInv

LEMMA OwnInvStep ==
    ASSUME ~roams, OwnInv, Exclusive, Exclusive', [Next]_vars PROVE OwnInv'
<1>1. CASE Outside
  BY <1>1, OneWorkerStep, OwnRunStep DEF OwnInv
<1>2. ASSUME NEW v \in Workers, Step(v) PROVE OwnInv'
  <2>1. OneWorkerInv(v)' /\ OwnRun(v)'
    BY <1>2, OneWorkerStep, OwnRunStep DEF OwnInv
  <2>2. ASSUME NEW w \in Workers, w # v PROVE OneWorkerInv(w)' /\ OwnRun(w)'
    BY <1>2, <2>1, <2>2, OutsidersKept
  <2> QED
    BY <2>1, <2>2 DEF OwnInv
<1> QED
  BY <1>1, <1>2 DEF Next, Outside

LEMMA OwnInvInit == Init => OwnInv
<1>1. ASSUME Init, NEW w \in Workers PROVE OwnRun(w)
  BY <1>1, ExecutionAssumption DEF Init, NoCommit, Commit, Branches, OwnRun
<1> QED
  BY <1>1, OneWorkerInit DEF OwnInv

\* Which branches an agent may leave checked out is settled at the start.
LEMMA RoamsStays == ASSUME [Next]_vars PROVE roams' = roams
BY DEF Next, vars, github, AdvanceDefault, DeleteBranch, Step, Begin, Fetch, CheckoutDefault,
       ResetHard, ResetTakes, Clean, CleanEnds, CreateBranch, RunEngine, ReadBranch, ReadChanges, MakeCommit, NothingToCommit,
       Push, OpenPull, NoPull, Finish, Refused, StageFails, EngineFails, AnswerLost, Crash

\* One worker at a time, with an agent that does not roam: each knows at its
\* every step what it needs.
THEOREM LockedIsSound == Spec /\ []Exclusive => [](roams \/ OwnInv)
<1>1. (roams \/ OwnInv) /\ Exclusive /\ Exclusive' /\ [Next]_vars => (roams \/ OwnInv)'
  <2> SUFFICES ASSUME roams \/ OwnInv, Exclusive, Exclusive', [Next]_vars, ~roams'
               PROVE  OwnInv'
    OBVIOUS
  <2>1. ~roams
    BY RoamsStays
  <2> QED
    BY <2>1, OwnInvStep
<1> QED
  BY <1>1, OwnInvInit, PTL DEF Spec

\* Whatever earlier executions left behind, a commit holds one issue's work.
THEOREM LockedCommitsOwnWork ==
    ASSUME Workers # {} PROVE Spec /\ []Exclusive => []CommitsOwnWork
<1>1. roams \/ OwnInv => CommitsOwnWork
  BY DEF OwnInv, OneWorkerInv, OwnWork, CommitsOwnWork
<1> QED
  BY <1>1, LockedIsSound, PTL

\* A commit builds on a default branch no older than its execution.
THEOREM LockedBuildsOnFreshBase == Spec /\ []Exclusive => []BuildsOnFreshBase
<1>1. roams \/ OwnInv => BuildsOnFreshBase
  BY DEF OwnInv, OneWorkerInv, OnItsBranch, UpToDate, BuildsOnFreshBase, Decided, Based
<1> QED
  BY <1>1, LockedIsSound, PTL

\* A branch that is up for review is never rewritten: the push of a later
\* execution starts from the default branch and is refused until somebody
\* deletes the branch.
LEMMA BranchKept ==
    ASSUME OwnInv, [Next]_vars, NEW i \in Issues, pushed[i].exists, pushed'[i].exists
    PROVE  pushed'[i] = pushed[i]
<1>1. CASE UNCHANGED vars \/ AdvanceDefault
  BY <1>1 DEF vars, github, AdvanceDefault
<1>2. ASSUME NEW w \in Workers, Step(w) PROVE pushed'[i] = pushed[i]
  <2>1. /\ pushed \in [Issues -> Commits] /\ issue[w] \in Issues /\ runs \in Nat /\ run[w] \in Nat
        /\ OneWorkerInv(w) /\ OwnRun(w)
    BY ExecutionAssumption DEF OwnInv, OneWorkerInv, TypeOK
  <2>2. CASE Push(w) /\ live
    <3>1. branch[w] = issue[w] /\ tip[issue[w]].by = {run[w]}
      BY <2>1, <2>2 DEF Push, At, OneWorkerInv, OnItsBranch, Decided, OwnRun
    <3>2. pushed[issue[w]].exists =>
            pushed[issue[w]].by # {} /\ run[w] \notin pushed[issue[w]].by
      BY <2>1, <2>2 DEF Push, At, OwnRun
    <3>3. pushed[issue[w]].exists => pushed[issue[w]].by \subseteq {run[w]}
      BY <2>2, <3>1 DEF Push, Fresh
    <3>4. ~pushed[issue[w]].exists
      BY <2>1, <3>2, <3>3
    <3> QED
      BY <2>1, <2>2, <3>1, <3>4 DEF Push
  <2>3. CASE ~(Push(w) /\ live)
    BY <1>2, <2>3 DEF github, Step, Begin, Fetch, CheckoutDefault, ResetHard, ResetTakes, Clean, CleanEnds, CreateBranch, RunEngine,
       ReadBranch, ReadChanges, MakeCommit, NothingToCommit, Push, OpenPull, NoPull, Finish,
       Refused, StageFails, EngineFails, AnswerLost, Crash
  <2> QED
    BY <2>2, <2>3
<1>3. ASSUME NEW j \in Issues, DeleteBranch(j) PROVE pushed'[i] = pushed[i]
  <2>1. pushed' = [pushed EXCEPT ![j] = NoCommit] /\ ~ NoCommit.exists
    BY <1>3 DEF DeleteBranch, NoCommit
  <2> HIDE DEF NoCommit
  <2> QED
    BY <2>1
<1> QED
  BY <1>1, <1>2, <1>3 DEF Next

\* Nobody's pushed branch is rewritten: GitHub has it as it was pushed, or not.
THEOREM LockedReviewedBranchKept == Spec /\ []Exclusive => ReviewedBranchKept
<1>1. (roams \/ OwnInv) /\ [Next]_vars =>
        [\A i \in Issues :
           pushed[i].exists /\ pushed'[i].exists /\ ~roams => pushed'[i] = pushed[i]]_vars
  BY BranchKept
<1> QED
  BY <1>1, LockedIsSound, PTL DEF Spec, ReviewedBranchKept

-------------------------------------------------------------------------
\* The agent reports what git status lists.  Where it is the only engine, a
\* report therefore stands for edits, and they for a commit, a push and a pull
\* request; the inference engine reports what it meant to write.
Reported(w) ==
    /\ pc[w] \in {"inspect", "status"} => dirty # {}
    /\ pc[w] = "commit" => changed[w]
    /\ pc[w] \in {"push", "pull"} => made[w]
    /\ (pc[w] = "report" \/ result[w] = "created") /\ live => issue[w] \in pulls
AllReported == \A w \in Workers : Reported(w)

LEMMA ReportedStep ==
    ASSUME "infer" \notin Engines, ~roams,
           NEW w \in Workers, OneWorkerInv(w), Reported(w), Step(w)
    PROVE  Reported(w)'
<1> USE DEF Reported, OneWorkerInv, TypeOK, At, github, checkout, worker
<1>1. CASE \E i \in Issues : Begin(w, i)
  BY <1>1 DEF Begin
<1>2. CASE Fetch(w) \/ CheckoutDefault(w) \/ ResetHard(w) \/ Clean(w) \/ CreateBranch(w)
  BY <1>2 DEF Fetch, CheckoutDefault, ResetHard, ResetTakes, Clean, CleanEnds, CreateBranch
<1>3. CASE RunEngine(w)
  <2>1. PICK o \in EngineOutcomes(issue[w]) :
          /\ dirty' = o.dirty
          /\ \/ o.reported /\ pc' = [pc EXCEPT ![w] = "inspect"]
             \/ pc' = [pc EXCEPT ![w] = "engine"] \/ pc' = [pc EXCEPT ![w] = "refetch"]
    BY <1>3 DEF RunEngine
  <2>2. o.reported => dirty' # {}
    BY <2>1 DEF EngineOutcomes, MayReport
  <2> QED
    BY <1>3, <2>1, <2>2 DEF RunEngine
<1>4. CASE ReadBranch(w)
  <2>1. At(w, "inspect", "status") /\ UNCHANGED <<dirty, live, pulls, issue, result>>
    BY <1>4 DEF ReadBranch, CheckoutIssueBranch
  <2> QED
    BY <2>1
<1>5. CASE ReadChanges(w) \/ NothingToCommit(w)
  <2>1. CASE ReadChanges(w)
    <3>1. changed'[w] = (dirty # {}) /\ dirty # {}
      BY <2>1 DEF ReadChanges
    <3>2. changed'[w]
      BY <3>1
    <3> QED
      BY <2>1, <3>2 DEF ReadChanges
  <2>2. CASE NothingToCommit(w)
    BY <2>2 DEF NothingToCommit
  <2> QED
    BY <1>5, <2>1, <2>2
<1>6. CASE MakeCommit(w) \/ Push(w) \/ NoPull(w) \/ Finish(w) \/ Refused(w)
  BY <1>6 DEF MakeCommit, Push, NoPull, Finish, Refused
<1>7. CASE OpenPull(w)
  BY <1>7 DEF OpenPull, OnItsBranch, Decided
<1>8. CASE StageFails(w) \/ EngineFails(w) \/ AnswerLost(w) \/ Crash(w)
  BY <1>8 DEF StageFails, EngineFails, AnswerLost, Crash
<1> QED
  BY <1>1, <1>2, <1>3, <1>4, <1>5, <1>6, <1>7, <1>8 DEF Step

\* GitHub's record of pull requests only grows.
LEMMA PullsGrow ==
    ASSUME [Next]_vars PROVE UNCHANGED live /\ pulls \subseteq pulls'
BY DEF Next, vars, github, AdvanceDefault, DeleteBranch, Step, Begin, Fetch, CheckoutDefault,
       ResetHard, ResetTakes, Clean, CleanEnds, CreateBranch, RunEngine, ReadBranch, ReadChanges, MakeCommit, NothingToCommit,
       Push, OpenPull, NoPull, Finish, Refused, StageFails, EngineFails, AnswerLost, Crash

LEMMA AllReportedStep ==
    ASSUME "infer" \notin Engines, ~roams, OwnInv, Exclusive, Exclusive', AllReported, [Next]_vars
    PROVE  AllReported'
<1>1. CASE Outside
  BY <1>1 DEF Outside, vars, github, checkout, worker, AdvanceDefault, DeleteBranch, AllReported,
              Reported
<1>2. ASSUME NEW v \in Workers, Step(v), NEW w \in Workers PROVE Reported(w)'
  <2>1. CASE w = v
    BY <1>2, <2>1, ReportedStep DEF OwnInv, AllReported
  <2>2. CASE w # v
    <3>1. /\ UNCHANGED <<pc[w], issue[w], result[w], live>> /\ pulls \subseteq pulls'
          /\ (pc[v] # "idle" \/ pc'[v] # "idle")
      BY <1>2, <2>2, OthersStay, StepsInside, PullsGrow DEF OwnInv, OneWorkerInv
    <3>2. pc[w] = "idle"
      BY <2>2, <3>1 DEF Exclusive
    <3> QED
      BY <3>1, <3>2 DEF AllReported, Reported
  <2> QED
    BY <2>1, <2>2
<1> QED
  BY <1>1, <1>2 DEF Next, Outside, AllReported

\* Status "created" means a pull request wherever only the agent works, stays off
\* the branches of other issues, and one worker at a time has the checkout.
THEOREM AgentCreatedMeansPullRequest ==
    ASSUME "infer" \notin Engines
    PROVE  Spec /\ []Exclusive => [](~roams => CreatedMeansPullRequest)
<1>1. Init => AllReported
  BY DEF Init, AllReported, Reported
<1>2. /\ (roams \/ OwnInv) /\ Exclusive /\ Exclusive' /\ (roams \/ AllReported) /\ [Next]_vars
      => (roams \/ AllReported)'
  <2> SUFFICES ASSUME roams \/ OwnInv, Exclusive, Exclusive', roams \/ AllReported, [Next]_vars,
                      ~roams'
               PROVE  AllReported'
    OBVIOUS
  <2>1. ~roams
    BY RoamsStays
  <2> QED
    BY <2>1, AllReportedStep
<1>3. roams \/ AllReported => (~roams => CreatedMeansPullRequest)
  BY DEF AllReported, Reported, CreatedMeansPullRequest
<1> QED
  BY <1>1, <1>2, <1>3, LockedIsSound, PTL DEF Spec

-------------------------------------------------------------------------
\* One worker has the checkout to itself.
LEMMA AloneIsExclusive == ASSUME NEW w, Workers = {w} PROVE Spec => []Exclusive
<1>1. Exclusive
  BY DEF Exclusive
<1> QED
  BY <1>1, PTL

-------------------------------------------------------------------------
\* What holds of any number of workers at once, in each other's way or not: the
\* shape of the data, the limit of engine attempts, and that a push is never
\* addressed to the default branch.
Addressed(w) == pc[w] \in Decided => branch[w] \in Issues
CrowdInv == TypeOK /\ \A w \in Workers : WithinRetries(w) /\ Addressed(w)

LEMMA CrowdActs ==
    ASSUME CrowdInv, NEW w \in Workers, Step(w)
    PROVE  TypeOK' /\ WithinRetries(w)' /\ Addressed(w)'
<1> USE ExecutionAssumption
    DEF CrowdInv, TypeOK, WithinRetries, Addressed, Steps, Decided, Branches, At,
        github, checkout, worker
<1>1. CASE \E i \in Issues : Begin(w, i)
  BY <1>1 DEF Begin, Versions
<1>2. CASE Fetch(w) \/ CheckoutDefault(w)
  BY <1>2 DEF Fetch, CheckoutDefault
<1>3. CASE Clean(w)
  BY <1>3 DEF Clean, CleanEnds
<1>11. CASE ResetHard(w)
  <2>1. Commit(fetched, {}, {}) \in Commits
    BY CommitType DEF Versions
  <2> QED
    BY <1>11, <2>1 DEF ResetHard, ResetTakes
<1>4. CASE CreateBranch(w) \/ ReadBranch(w)
  BY <1>4 DEF CreateBranch, ReadBranch, CheckoutIssueBranch
<1>5. CASE RunEngine(w)
  BY <1>5 DEF RunEngine, EngineOutcomes
<1>6. CASE ReadChanges(w) \/ NothingToCommit(w) \/ NoPull(w) \/ Finish(w) \/ Refused(w)
  <2>1. CASE ReadChanges(w)
    BY <2>1 DEF ReadChanges
  <2>2. CASE NothingToCommit(w) \/ NoPull(w)
    BY <2>2 DEF NothingToCommit, NoPull
  <2>3. CASE Finish(w)
    BY <2>3 DEF Finish
  <2>4. CASE Refused(w)
    BY <2>4 DEF Refused
  <2> QED
    BY <1>6, <2>1, <2>2, <2>3, <2>4
<1>7. CASE MakeCommit(w)
  <2>1. tip[head] \in Commits /\ run[w] \in 0 .. MaxRuns /\ dirty \in SUBSET Issues
    OBVIOUS
  <2>2. tip[head].base \in Versions /\ tip[head].work \in SUBSET Issues
    BY <2>1 DEF Commits
  <2>3. tip[head].work \cup dirty \in SUBSET Issues
    BY <2>1, <2>2
  <2>4. tip[head].by \cup {run[w]} \in SUBSET (0 .. MaxRuns)
    BY <2>1 DEF Commits
  <2>5. Commit(tip[head].base, tip[head].work \cup dirty, tip[head].by \cup {run[w]}) \in Commits
    BY <2>2, <2>3, <2>4, CommitType, Zenon
  <2> QED
    BY <1>7, <2>5 DEF MakeCommit
<1>8. CASE Push(w) \/ OpenPull(w)
  BY <1>8 DEF Push, OpenPull
<1>9. CASE StageFails(w) \/ Crash(w) \/ AnswerLost(w)
  BY <1>9 DEF StageFails, Crash, AnswerLost, Fault
<1>10. CASE EngineFails(w)
  BY <1>10 DEF EngineFails, EngineOutcomes, Fault
<1> QED
  BY <1>1, <1>2, <1>3, <1>4, <1>5, <1>6, <1>7, <1>8, <1>9, <1>10, <1>11 DEF Step

LEMMA CrowdStep == ASSUME CrowdInv, [Next]_vars PROVE CrowdInv'
<1>1. CASE Outside
  <2>1. TypeOK' /\ UNCHANGED <<pc, attempt, branch>>
    <3>1. CASE AdvanceDefault \/ UNCHANGED vars
      BY <1>1, <3>1, ExecutionAssumption
         DEF AdvanceDefault, vars, github, checkout, worker, CrowdInv, TypeOK, Versions
    <3>2. ASSUME NEW i \in Issues, DeleteBranch(i) PROVE TypeOK' /\ UNCHANGED <<pc, attempt, branch>>
      <4>1. NoCommit \in Commits
        BY ExecutionAssumption DEF NoCommit, Commits, Versions
      <4> QED
        BY <3>2, <4>1 DEF DeleteBranch, checkout, worker, CrowdInv, TypeOK
    <3> QED
      BY <1>1, <3>1, <3>2 DEF Outside
  <2> QED
    BY <2>1 DEF CrowdInv, WithinRetries, Addressed
<1>2. ASSUME NEW v \in Workers, Step(v) PROVE CrowdInv'
  <2>1. TypeOK' /\ WithinRetries(v)' /\ Addressed(v)'
    BY <1>2, CrowdActs
  <2>2. ASSUME NEW w \in Workers, w # v PROVE WithinRetries(w)' /\ Addressed(w)'
    BY <1>2, <2>2, OthersStay DEF CrowdInv, WithinRetries, Addressed
  <2> QED
    BY <2>1, <2>2 DEF CrowdInv
<1> QED
  BY <1>1, <1>2 DEF Next, Outside

LEMMA CrowdIsSound == Spec => []CrowdInv
<1>1. Init => CrowdInv
  <2>1. Init => TypeOK
    BY ExecutionAssumption DEF Init, TypeOK, Steps, Branches, NoCommit, Commit, Commits, Versions
  <2> QED
    BY <2>1, ExecutionAssumption DEF Init, CrowdInv, WithinRetries, Addressed, Decided
<1>2. CrowdInv /\ [Next]_vars => CrowdInv'
  BY CrowdStep
<1> QED
  BY <1>1, <1>2, PTL DEF Spec

\* Type correctness, for any number of workers in one checkout.
THEOREM ExecutionTypeCorrect == Spec => []TypeOK
<1>1. CrowdInv => TypeOK
  BY DEF CrowdInv
<1> QED
  BY <1>1, CrowdIsSound, PTL

\* Of whatever is pushed or put up for review, the branch is an issue's: even
\* workers that spoil each other's checkout push nothing to the default branch.
THEOREM CrowdNeverPushesDefault ==
    Spec => [][\A w \in Workers : Push(w) \/ OpenPull(w) => branch[w] # Default]_vars
<1>1. CrowdInv => \A w \in Workers : Push(w) \/ OpenPull(w) => branch[w] # Default
  BY ExecutionAssumption DEF CrowdInv, Addressed, Push, OpenPull, At, Decided
<1> QED
  BY <1>1, CrowdIsSound, PTL DEF Spec

-------------------------------------------------------------------------
\* Whatever a run of an engine may report under EngineContract is an outcome of
\* RunEngine, whosever edits the tree holds: the step leaves out no report
\* that the contract, and so the pipeline, allows.
THEOREM ContractIsCovered ==
    ASSUME NEW i \in Issues, NEW edited \in {dirty \cup {i}, dirty \ {i}},
           NEW reported \in BOOLEAN, reported => MayReport(Engines, edited # {})
    PROVE  \E o \in EngineOutcomes(i) :
               o.dirty = edited /\ o.reported = reported /\ o.head = head
<1> DEFINE o == [dirty |-> edited, head |-> head, reported |-> reported]
<1>1. o \in EngineOutcomes(i)
  BY DEF EngineOutcomes
<1> QED
  BY <1>1

-------------------------------------------------------------------------
\* The default branch, whatever branches the agents leave checked out: a worker
\* that has decided stands on an issue's branch, and nobody else commits.
OffDefault(w) == pc[w] \in Decided => head \in Issues
DefaultInv == NeverCommitsToDefault /\ \A w \in Workers : OffDefault(w)

LEMMA OffDefaultActs ==
    ASSUME TypeOK, DefaultInv, NEW w \in Workers, Step(w)
    PROVE  NeverCommitsToDefault' /\ OffDefault(w)'
<1> USE ExecutionAssumption
    DEF DefaultInv, TypeOK, NeverCommitsToDefault, OffDefault, Decided, Branches, At,
        github, checkout, worker
<1>1. CASE \E i \in Issues : Begin(w, i)
  BY <1>1 DEF Begin
<1>2. CASE Fetch(w) \/ CheckoutDefault(w) \/ Clean(w)
  BY <1>2 DEF Fetch, CheckoutDefault, Clean, CleanEnds
<1>3. CASE ResetHard(w)
  BY <1>3 DEF ResetHard, ResetTakes, Commit
<1>4. CASE CreateBranch(w) \/ ReadBranch(w)
  BY <1>4 DEF CreateBranch, ReadBranch, CheckoutIssueBranch
<1>5. CASE RunEngine(w) \/ EngineFails(w)
  BY <1>5 DEF RunEngine, EngineFails
<1>6. CASE MakeCommit(w)
  BY <1>6 DEF MakeCommit
<1>7. CASE ReadChanges(w) \/ NothingToCommit(w) \/ NoPull(w) \/ Finish(w) \/ Push(w) \/ OpenPull(w)
  BY <1>7 DEF ReadChanges, NothingToCommit, NoPull, Finish, Push, OpenPull
<1>8. CASE StageFails(w) \/ Crash(w) \/ AnswerLost(w) \/ Refused(w)
  BY <1>8 DEF StageFails, Crash, AnswerLost, Refused
<1> QED
  BY <1>1, <1>2, <1>3, <1>4, <1>5, <1>6, <1>7, <1>8 DEF Step

LEMMA DefaultStep ==
    ASSUME TypeOK, DefaultInv, Exclusive, Exclusive', [Next]_vars PROVE DefaultInv'
<1>1. CASE Outside
  BY <1>1 DEF Outside, AdvanceDefault, DeleteBranch, vars, checkout, worker, DefaultInv,
     NeverCommitsToDefault, OffDefault
<1>2. ASSUME NEW v \in Workers, Step(v) PROVE DefaultInv'
  <2>1. NeverCommitsToDefault' /\ OffDefault(v)'
    BY <1>2, OffDefaultActs
  <2>2. ASSUME NEW w \in Workers, w # v PROVE OffDefault(w)'
    BY <1>2, <2>2, OthersStay, StepsInside DEF Exclusive, OffDefault, Decided
  <2> QED
    BY <2>1, <2>2 DEF DefaultInv
<1> QED
  BY <1>1, <1>2 DEF Next, Outside

\* README: the worker never commits directly to the default branch.
THEOREM LockedNeverCommitsToDefault == Spec /\ []Exclusive => []NeverCommitsToDefault
<1>1. Init => DefaultInv
  BY DEF Init, DefaultInv, NeverCommitsToDefault, OffDefault, Decided, Commit, Branches
<1>2. TypeOK /\ DefaultInv /\ Exclusive /\ Exclusive' /\ [Next]_vars => DefaultInv'
  BY DefaultStep
<1>3. DefaultInv => NeverCommitsToDefault
  BY DEF DefaultInv
<1> QED
  BY <1>1, <1>2, <1>3, ExecutionTypeCorrect, PTL DEF Spec

\* The same of a worker by itself, which is always alone in the checkout.
THEOREM AloneNeverCommitsToDefault ==
    ASSUME NEW w, Workers = {w} PROVE Spec => []NeverCommitsToDefault
BY AloneIsExclusive, LockedNeverCommitsToDefault, PTL

-------------------------------------------------------------------------
\* The tree after an escalation, whatever branches the agent leaves checked out:
\* the refresh resets and cleans the default branch.
Refreshing(w) == pc[w] \in {"rereset", "reclean"} => head = Default

LEMMA CleanedStep ==
    ASSUME NEW w, Workers = {w}, TypeOK, Refreshing(w), Cleaned(w), [Next]_vars
    PROVE  Refreshing(w)' /\ Cleaned(w)'
<1> USE DEF Refreshing, Cleaned, TypeOK, At, github, checkout, worker
<1>1. CASE Outside
  BY <1>1 DEF Outside, vars, AdvanceDefault, DeleteBranch
<1>2. CASE \E i \in Issues : Begin(w, i)
  BY <1>2 DEF Begin
<1>3. CASE Clean(w)
  BY <1>3 DEF Clean, CleanEnds
<1>4. CASE CheckoutDefault(w) \/ ResetHard(w)
  BY <1>4 DEF CheckoutDefault, ResetHard, ResetTakes
<1>5. CASE /\ pc[w] # "idle" /\ pc'[w] \notin {"rereset", "reclean"}
           /\ result'[w] # "escalated" \/ result'[w] = result[w]
  BY <1>5
<1>6. ASSUME Step(w), \A i \in Issues : ~ Begin(w, i),
             ~ Clean(w), ~ CheckoutDefault(w), ~ ResetHard(w)
      PROVE  /\ pc[w] # "idle" /\ pc'[w] \notin {"rereset", "reclean"}
             /\ result'[w] # "escalated" \/ result'[w] = result[w]
  BY <1>6 DEF Step, Fetch, CreateBranch, RunEngine, ReadBranch, ReadChanges,
       MakeCommit, NothingToCommit, Push, OpenPull, NoPull, Finish, Refused, StageFails,
       EngineFails, AnswerLost, Crash
<1> QED
  BY <1>1, <1>2, <1>3, <1>4, <1>5, <1>6 DEF Next, Outside

LEMMA AloneIsClean ==
    ASSUME NEW w, Workers = {w} PROVE Spec => [](\A v \in Workers : Cleaned(v))
<1>1. Init => Refreshing(w) /\ Cleaned(w)
  BY DEF Init, Refreshing, Cleaned
<1>2. TypeOK /\ Refreshing(w) /\ Cleaned(w) /\ [Next]_vars => Refreshing(w)' /\ Cleaned(w)'
  BY CleanedStep
<1>3. Cleaned(w) => \A v \in Workers : Cleaned(v)
  OBVIOUS
<1> QED
  BY <1>1, <1>2, <1>3, ExecutionTypeCorrect, PTL DEF Spec

\* The invariant that a run checks, with the tree as an escalation leaves it.
THEOREM AloneIsSound ==
    ASSUME NEW w, Workers = {w} PROVE Spec => []AloneInv
<1>1. TypeOK /\ (roams \/ OwnInv) /\ (\A v \in Workers : Cleaned(v)) => AloneInv
  BY DEF AloneInv
<1> QED
  BY <1>1, AloneIsExclusive, AloneIsClean, ExecutionTypeCorrect, LockedIsSound, PTL

\* An escalated execution leaves a clean tree on the default branch.
THEOREM AloneEscalationLeavesCleanTree ==
    ASSUME NEW w, Workers = {w} PROVE Spec => []EscalationLeavesCleanTree
<1>1. (\A v \in Workers : Cleaned(v)) => EscalationLeavesCleanTree
  BY DEF Cleaned, EscalationLeavesCleanTree
<1> QED
  BY <1>1, AloneIsClean, PTL

\* What the commits and the branches of one worker promise whose agent keeps off
\* the branches of other issues.
THEOREM AloneIsSafe ==
    ASSUME NEW w, Workers = {w}
    PROVE  Spec => []CommitsOwnWork /\ []BuildsOnFreshBase /\ ReviewedBranchKept
<1>1. Spec => []Exclusive
  BY AloneIsExclusive
<1>2. Spec /\ []Exclusive => []CommitsOwnWork
  BY LockedCommitsOwnWork
<1> QED
  BY <1>1, <1>2, LockedBuildsOnFreshBase, LockedReviewedBranchKept, PTL

=========================================================================
