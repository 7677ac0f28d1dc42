--------------------------- MODULE CommandRouting ---------------------------
(***************************************************************************)
(* How a Discord message becomes capabilities of the worker                *)
(* (worker/runtime_interface.py, discord/ai_worker.py): a message that     *)
(* scores for a capability is that capability's; any other is planned by   *)
(* OpenClaw, and each operation of the plan is resolved again.             *)
(*                                                                         *)
(* A message is its words, and whether it names an issue by its number.    *)
(* The code looks for keywords in the text, inside longer words too.       *)
(***************************************************************************)
EXTENDS Naturals, SequencesExt

CONSTANT MaxActions   \* bound: actions of one plan

VARIABLES
    message,   \* the message being handled
    todo,      \* operations of its plan not yet carried out
    executed   \* capabilities executed for it

vars == <<message, todo, executed>>

-------------------------------------------------------------------------
\* The registry, in its order; names are written as their words.
Capability(name, tool, keywords, aliases, number) ==
    [name |-> name, tool |-> tool, keywords |-> keywords, aliases |-> aliases,
     number |-> number]
Op(name, keywords) == Capability(name, "none", keywords, {}, FALSE)
Aliased(name, keywords, aliases) == Capability(name, "none", keywords, aliases, FALSE)
Numbered(name, keywords) == Capability(name, "none", keywords, {}, TRUE)

QueueOperations == <<
    Aliased(<<"check", "now">>, <<"check", "github", "poll", "run", "worker", "now">>,
        {<<"run", "worker">>}),
    Op(<<"status">>, <<"status", "queue", "current", "state">>),
    Aliased(<<"queue">>, <<"queue", "queued", "backlog">>, {<<"show", "queue">>}),
    Aliased(<<"clear", "queue">>, <<"clear", "empty", "queue", "pending">>, {<<"empty",
        "queue">>}),
    Op(<<"list", "queue">>, <<"list", "show", "queue">>),
    Op(<<"issues">>, <<"list", "open", "github", "issues", "repo">>),
    Op(<<"report">>, <<"report", "latest", "engineering", "summary">>),
    Op(<<"retry", "latest", "failed">>, <<"retry", "failed", "latest">>),
    Numbered(<<"retry", "issue">>, <<"retry", "issue", "rerun", "again">>),
    Numbered(<<"remove", "issue">>, <<"remove", "delete", "drop", "queue", "issue">>),
    Numbered(<<"cancel", "issue">>, <<"cancel", "stop", "issue", "task">>),
    Numbered(<<"restart", "issue">>, <<"restart", "reset", "fresh", "issue">>),
    Numbered(<<"run", "issue", "now">>, <<"run", "issue", "now", "immediately">>)>>

WorkerOperations == <<
    Numbered(<<"prioritize", "issue">>, <<"prioritize", "priority", "front", "queue",
        "issue">>),
    Numbered(<<"move", "issue", "to", "front">>, <<"move", "front", "queue", "issue">>),
    Numbered(<<"solve", "issue">>, <<"issue", "bug", "solve", "repair", "resolve",
        "implement", "patch", "commit", "github", "fix", "work">>),
    Op(<<"create", "issue">>, <<"create", "new", "github", "issue", "bug", "ticket">>),
    Op(<<"health">>, <<"health", "diagnostic", "checkup">>),
    Op(<<"show", "current", "job">>, <<"current", "job", "doing", "working", "active">>),
    Op(<<"show", "worker", "state">>, <<"worker", "state", "status">>),
    Op(<<"stop", "current", "job">>, <<"stop", "current", "job", "task", "halt">>),
    Op(<<"resume", "current", "job">>, <<"resume", "continue", "working", "job">>),
    Op(<<"pause">>, <<"pause", "stop", "scheduler">>),
    Op(<<"resume">>, <<"resume", "start", "scheduler">>),
    Op(<<"schedule">>, <<"schedule", "recurring", "every", "interval">>),
    Numbered(<<"clear", "retry", "state">>, <<"clear", "retry", "state", "reset",
        "issue">>),
    Numbered(<<"clear", "history">>, <<"clear", "history", "forget", "issue", "attempt">>),
    Aliased(<<"memory", "remember">>, <<"remember", "store", "memory">>, {<<"memory",
        "remember">>}),
    Aliased(<<"memory", "show">>, <<"show", "read", "memory">>, {<<"memory", "show">>}),
    Aliased(<<"memory", "forget">>, <<"forget", "delete", "memory">>, {<<"memory",
        "forget">>}),
    Op(<<"help">>, <<"help", "capabilities", "commands">>)>>

\* A tool has a capability for each thing it provides, whose words it adds to
\* the tool's keywords.
Tool(tool, keywords, aliases, provides) ==
    [n \in DOMAIN provides |->
        Capability(provides[n], tool, keywords \o provides[n], aliases, FALSE)]
ToolCapabilities == FlattenSeq(<<
    Tool("browser.automation", <<"browser", "page", "website", "navigate", "read",
         "search">>, {<<"run", "browser">>, <<"browser", "automation">>},
         <<<<"browser", "launch">>, <<"browser", "close">>, <<"browser", "navigate">>,
           <<"browser", "tabs">>, <<"browser", "wait">>, <<"browser", "interact">>,
           <<"browser", "read">>, <<"browser", "search">>, <<"browser", "vision">>,
           <<"browser", "session">>>>),
    Tool("github.repository", <<>>, {},
         <<<<"github", "repository", "read">>, <<"github", "metadata">>>>),
    Tool("github.issue", <<"github", "issue", "create", "read", "list">>, {},
         <<<<"github", "issue", "read">>, <<"github", "issue", "list">>, <<"github",
           "labels", "read">>>>),
    Tool("github.workspace", <<>>, {},
         <<<<"github", "clone">>, <<"repository", "workspace">>, <<"git", "status">>>>),
    Tool("github.branch", <<>>, {},
         <<<<"git", "branch">>, <<"github", "branch">>>>),
    Tool("github.commit", <<"commit", "push", "rollback", "git">>, {},
         <<<<"git", "commit">>, <<"git", "push">>, <<"git", "rollback">>>>),
    Tool("github.pull_request", <<"pull", "request", "pr", "github">>, {},
         <<<<"github", "pull_request", "create">>, <<"github", "pull_request",
           "update">>>>),
    Tool("engineering.pipeline", <<"engineering", "pipeline", "solve", "fix", "patch">>,
         {<<"engineering", "pipeline">>},
         <<<<"engineering", "pipeline">>, <<"engineering", "solve">>, <<"patch",
           "generate">>>>),
    Tool("repository.metadata", <<"repository", "metadata", "context">>, {<<"repository",
         "context">>},
         <<<<"repository", "metadata">>, <<"repository", "context">>>>),
    Tool("repository.search", <<"repository", "repo", "search", "code", "symbol">>,
         {<<"search", "repository">>, <<"repo", "search">>},
         <<<<"repository", "search">>, <<"filesystem", "search">>, <<"symbol",
           "search">>>>),
    Tool("file.reader", <<>>, {},
         <<<<"filesystem", "read">>, <<"file", "read">>>>),
    Tool("file.writer", <<>>, {},
         <<<<"filesystem", "write">>, <<"file", "write">>>>),
    Tool("directory.traversal", <<>>, {},
         <<<<"filesystem", "traverse">>, <<"repository", "tree">>>>),
    Tool("diff.generation", <<>>, {},
         <<<<"diff", "generate">>, <<"filesystem", "diff">>>>)>>)

Registry == QueueOperations \o WorkerOperations \o ToolCapabilities
Names == {Registry[n].name : n \in DOMAIN Registry}

-------------------------------------------------------------------------
\* The keywords that are part of a longer word of the vocabulary.
Inside(word) ==
    CASE word \in {"previous", "prioritize"} -> {"pr"}
      [] word = "github" -> {"git"}        [] word = "remove" -> {"move"}
      [] word = "restart" -> {"start"}     [] word = "issues" -> {"issue"}
      [] word = "filesystem" -> {"file"}
      [] word \in {"repository", "report"} -> {"repo"}
      [] word \in {"worker", "working", "workspace"} -> {"work"}
      [] OTHER -> {}

Holds(text, keyword) == \E n \in DOMAIN text : keyword \in Inside(text[n]) \cup {text[n]}
Phrase(text, words) ==
    \E n \in DOMAIN text :
        LET end == n + Len(words) - 1 IN end <= Len(text) /\ SubSeq(text, n, end) = words

\* What a capability scores beyond its keywords: the points, and the groups of
\* words of which each must occur.
Bonus(of, points, groups) == [of |-> of, points |-> points, groups |-> groups]
Bonuses == {
    Bonus(<<"create", "issue">>, 2, {{"create", "new"}, {"issue"}}),
    Bonus(<<"clear", "queue">>, 5, {{"clear", "empty"}, {"queue"}}),
    Bonus(<<"remove", "issue">>, 5, {{"remove", "delete"}, {"issue"}}),
    Bonus(<<"cancel", "issue">>, 5, {{"cancel"}, {"issue"}}),
    Bonus(<<"restart", "issue">>, 5, {{"restart"}, {"issue"}}),
    Bonus(<<"run", "issue", "now">>, 5, {{"run", "work"}, {"now", "immediately"}}),
    Bonus(<<"prioritize", "issue">>, 5, {{"prioritize", "priority"}, {"issue"}}),
    Bonus(<<"move", "issue", "to", "front">>, 5, {{"move", "front"}, {"issue"}}),
    Bonus(<<"show", "current", "job">>, 5, {{"doing", "current"}, {"doing", "job", "task"}}),
    Bonus(<<"show", "worker", "state">>, 4, {{"worker", "status", "state"}}),
    Bonus(<<"stop", "current", "job">>, 5, {{"stop", "halt"}, {"current", "task", "job"}}),
    Bonus(<<"resume", "current", "job">>, 5, {{"continue", "resume"}, {"working", "job"}}),
    Bonus(<<"clear", "retry", "state">>, 5, {{"reset", "retry"}}),
    Bonus(<<"clear", "history">>, 5, {{"forget", "history", "attempt"}, {"issue"}}),
    Bonus(<<"check", "now">>, 2, {{"github"}, {"check", "run"}}),
    Bonus(<<"status">>, 2, {{"status", "queue"}}),
    Bonus(<<"queue">>, 2, {{"status", "queue"}}),
    Bonus(<<"list", "queue">>, 2, {{"status", "queue"}}),
    Bonus(<<"health">>, 3, {{"health"}}),
    Bonus(<<"browser", "navigate">>, 2, {{"open", "website", "page", "github"}}),
    Bonus(<<"browser", "launch">>, 1, {{"launch"}})}
ToolBonuses == {
    Bonus("repository.search", 3, {{"search", "repository", "repo", "code"}}),
    Bonus("browser.automation", 3, {{"browser", "open", "page", "website"}}),
    Bonus("engineering.pipeline", 2, {{"pipeline", "engineering"}})}

\* _capability_score; a keyword listed twice counts twice.
Earned(bonuses, text) ==
    MapThenSumSet(LAMBDA b : b.points,
        {b \in bonuses : \A words \in b.groups : words \cap ToSet(text) # {}})
Score(c, text, number) ==
    Cardinality({n \in DOMAIN c.keywords : Holds(text, c.keywords[n])})
    + 2 * Cardinality({words \in c.aliases : Phrase(text, words)})
    + (IF c.number /\ number THEN 2 ELSE 0)
    + (IF c.name = <<"retry", "latest", "failed">> /\ "retry" \in ToSet(text) /\ ~number
       THEN 2 ELSE 0)
    + Earned({b \in Bonuses : b.of = c.name}, text)
    + Earned({b \in ToolBonuses : b.of = c.tool}, text)

\* The sort is stable: the earliest of the best.
Best(text, number) ==
    LET best == Max({Score(Registry[n], text, number) : n \in DOMAIN Registry})
    IN  Min({n \in DOMAIN Registry : Score(Registry[n], text, number) = best})

\* resolve_capability: a name or an alias as it stands, else the best score of
\* the request and the whole message, if that is 2 at least.  An alias that
\* several capabilities have is the last one's.
None == <<>>
Resolve(requested, said) ==
    LET text == requested \o said.words
        named == {n \in DOMAIN Registry : requested \in Registry[n].aliases}
        best == Registry[Best(text, said.number)]
    IN  IF requested \in Names THEN requested
        ELSE IF named # {} THEN Registry[CHOOSE n \in named : \A k \in named : k <= n].name
        ELSE IF Score(best, text, said.number) >= 2 THEN best.name
        ELSE None

-------------------------------------------------------------------------
\* What tests/test_discord_worker_capabilities.py:308-338 expects of messages.
Expect(words, number, name) == [said |-> [words |-> words, number |-> number], name |-> name]
Tested == {
    Expect(<<"fix", "issue">>, TRUE, <<"solve", "issue">>),
    Expect(<<"solve", "issue">>, TRUE, <<"solve", "issue">>),
    Expect(<<"repair", "issue">>, TRUE, <<"solve", "issue">>),
    Expect(<<"work", "on", "issue">>, TRUE, <<"solve", "issue">>),
    Expect(<<"commit", "the", "fix">>, FALSE, <<"solve", "issue">>),
    Expect(<<"commit", "the", "fix", "for", "issue">>, TRUE, <<"solve", "issue">>),
    Expect(<<"clear", "queue">>, FALSE, <<"clear", "queue">>),
    Expect(<<"empty", "queue">>, FALSE, <<"clear", "queue">>),
    Expect(<<"remove", "issue">>, TRUE, <<"remove", "issue">>),
    Expect(<<"delete", "issue">>, TRUE, <<"remove", "issue">>),
    Expect(<<"cancel", "issue">>, TRUE, <<"cancel", "issue">>),
    Expect(<<"restart", "issue">>, TRUE, <<"restart", "issue">>),
    Expect(<<"retry", "issue">>, TRUE, <<"retry", "issue">>),
    Expect(<<"run", "issue", "now">>, TRUE, <<"run", "issue", "now">>),
    Expect(<<"work", "on", "issue", "immediately">>, TRUE, <<"run", "issue", "now">>),
    Expect(<<"prioritize", "issue">>, TRUE, <<"prioritize", "issue">>),
    Expect(<<"move", "issue", "to", "front">>, TRUE, <<"move", "issue", "to", "front">>),
    Expect(<<"what", "are", "you", "doing">>, FALSE, <<"show", "current", "job">>),
    Expect(<<"show", "worker", "status">>, FALSE, <<"show", "worker", "state">>),
    Expect(<<"stop", "current", "task">>, FALSE, <<"stop", "current", "job">>),
    Expect(<<"continue", "working">>, FALSE, <<"resume", "current", "job">>),
    Expect(<<"reset", "issue">>, TRUE, <<"clear", "retry", "state">>),
    Expect(<<"forget", "previous", "attempt", "issue">>, TRUE, <<"clear", "history">>),
    Expect(<<"check", "github">>, FALSE, <<"check", "now">>),
    Expect(<<"create", "issue">>, FALSE, <<"create", "issue">>),
    Expect(<<"create", "github", "issue">>, FALSE, <<"create", "issue">>),
    Expect(<<"run", "worker">>, FALSE, <<"check", "now">>),
    Expect(<<"status">>, FALSE, <<"status">>),
    Expect(<<"health">>, FALSE, <<"health">>),
    Expect(<<"search", "repository", "auth", "flow">>, FALSE, <<"repository", "search">>),
    Expect(<<"run", "browser", "on", "github", "com">>, FALSE, <<"browser", "navigate">>)}

\* Messages of the model: the tested ones, and the slash commands of the operations.
Slash == {[words |-> c.name, number |-> FALSE] : c \in ToSet(QueueOperations \o WorkerOperations)}
Messages == {e.said : e \in Tested} \cup Slash

Init ==
    /\ message = [words |-> <<>>, number |-> FALSE]
    /\ todo = <<>> /\ executed = <<>>

\* _plan: the capability of the message itself, or whatever OpenClaw plans.
Hear(said) ==
    /\ todo = <<>>
    /\ message' = said /\ executed' = <<>>
    /\ LET direct == Resolve(None, said)
       IN  IF direct # None THEN todo' = <<direct>>
           ELSE todo' \in UNION {[1 .. n -> {<<"help">>, <<"memory", "show">>, <<"look">>}] :
                                    n \in 0 .. MaxActions}

\* _execute_plan: an operation that resolves is executed, as what it resolved
\* to; any other is answered with what is available.
CarryOut ==
    /\ todo # <<>>
    /\ LET name == Resolve(Head(todo), message)
       IN  executed' = IF name = None THEN executed ELSE Append(executed, name)
    /\ todo' = Tail(todo)
    /\ UNCHANGED message

Next == (\E said \in Messages : Hear(said)) \/ CarryOut

Spec == Init /\ [][Next]_vars

-------------------------------------------------------------------------
\* A message of the tests is carried out by the capability the tests name, and
\* by no other.
RoutesAsTested ==
    \A e \in Tested : message = e.said =>
        \A n \in DOMAIN executed : executed[n] = e.name

=========================================================================
