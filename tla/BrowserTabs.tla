---------------------------- MODULE BrowserTabs ----------------------------
(***************************************************************************)
(* The browser of a worker (browser/runtime): the table of tabs, the       *)
(* browser processes behind it and the state file of the profile, under    *)
(* the actions perform accepts and what the pages do by themselves.        *)
(*                                                                         *)
(* Playwright runs the handlers of its events in the thread of the         *)
(* actions, while one waits.  So an action is taken in steps, each up to   *)
(* the next wait, and the pages' events come between them.  What an action *)
(* does inside a page is left out; whether it raises is a choice.          *)
(***************************************************************************)
EXTENDS Naturals, SequencesExt

CONSTANTS
    Modes,        \* the configurations that launch may ask for
    MaxBrowsers,  \* bounds: browser processes, pages and tabs at one time
    MaxPages,
    MaxTabs

\* popup_handling = "block", setup_mode, require_authenticated_profile.
AllModes == [block : BOOLEAN, setup : BOOLEAN, require : BOOLEAN]
Default == [block |-> FALSE, setup |-> FALSE, require |-> FALSE]

ASSUME BrowserAssumption ==
    /\ Modes \subseteq AllModes
    /\ MaxBrowsers \in Nat \ {0} /\ MaxPages \in Nat \ {0} /\ MaxTabs \in Nat \ {0}

VARIABLES
    mode,     \* the part of self.configuration that matters here
    profile,  \* worker-profile-state.json, and whether the directory exists
    window,   \* the driver, its browsers, their pages, and the table of tabs
    call      \* the action being performed, or how the last one ended

bvars == <<mode, profile, window, call>>

Browsers == 1 .. MaxBrowsers
Pages == 1 .. MaxPages
Tabs == 1 .. MaxTabs
Profiles == {"absent", "blank", "cookies", "setup_required",
             "authentication_required", "authenticated"}

\* driver: Playwright runs; live: browser processes; context: the current one;
\* open: the process of each open page, or 0; table: self._pages in its order;
\* held: pages the call is about to close, whatever becomes of their tabs.
Closed == [driver |-> FALSE, live |-> {}, context |-> 0, held |-> {},
           open |-> [p \in Pages |-> 0], table |-> <<>>, active |-> 0]

Least(S) == CHOOSE n \in S : \A m \in S : n <= m
TabsOf(w) == {w.table[i].tab : i \in DOMAIN w.table}
PagesOf(w) == {w.table[i].page : i \in DOMAIN w.table}
PageAt(w, tab) == (CHOOSE e \in ToSet(w.table) : e.tab = tab).page
OpenPages(w) == {p \in Pages : w.open[p] # 0}
TabsOfPage(w, page) == {e.tab : e \in {e \in ToSet(w.table) : e.page = page}}
First(table) == IF table = <<>> THEN 0 ELSE table[1].tab

\* The table without the tabs in gone, in its order.
Dropped(table, gone) ==
    LET left[n \in 0 .. Len(table)] ==
            IF n = 0 THEN <<>>
            ELSE IF table[n].tab \in gone THEN left[n - 1] ELSE Append(left[n - 1], table[n])
    IN  left[Len(table)]

\* _active_page_or_none is a page.
HasActive(w) == w.active \in TabsOf(w) /\ w.open[PageAt(w, w.active)] # 0

\* Identifiers are new ones; those that nothing holds any more are used again.
FreePages(w) == Pages \ (OpenPages(w) \cup PagesOf(w) \cup w.held)
FreeTabs(w) == Tabs \ (TabsOf(w) \cup {w.active})
Room(w, pages, tabs) ==
    /\ \E S \in SUBSET FreePages(w) : Cardinality(S) = pages
    /\ \E S \in SUBSET FreeTabs(w) : Cardinality(S) = tabs

Register(w, page) ==
    LET tab == Least(FreeTabs(w))
    IN  [w EXCEPT !.table = Append(@, [tab |-> tab, page |-> page]), !.active = tab]

\* A page opens in a browser; _handle_new_page registers it or closes it.
Opens(w, block, browser) ==
    LET page == Least(FreePages(w))
    IN  IF block THEN w
        ELSE Register([w EXCEPT !.open[page] = browser], page)

\* context.new_page() and the page it returns, which a handler may have closed.
NewPage(w, block) ==
    LET page == Least(FreePages(w))
    IN  {[page |-> page, window |-> Opens(w, block, w.context)]} \cup
        (IF block THEN {[page |-> page, window |-> [w EXCEPT !.open[page] = w.context]]}
         ELSE {})

ClosePages(w, pages) == [w EXCEPT !.open = [p \in Pages |-> IF p \in pages THEN 0 ELSE @[p]]]

-------------------------------------------------------------------------
\* BrowserProfileManager.resolve.
HasAuthCookies(prof) == prof = "cookies"                          \* mutant
HasAuthState(prof) == prof \in {"authenticated", "cookies"}
AuthRequired(m, prof) == m.require /\ ~HasAuthState(prof)
Resolved(m, prof) ==
    IF prof = "absent" \/ m.setup THEN "setup_required"
    ELSE IF AuthRequired(m, prof) THEN "authentication_required" ELSE prof

\* launch_persistent_context; a new browser has a page or gets one.  The page
\* handler is attached in between, so a page it gets is registered, or closed.
Launched(w, block) ==
    LET browser == Least(Browsers \ w.live)
        started == [w EXCEPT !.driver = TRUE, !.live = @ \cup {browser}, !.context = browser]
        page == Least(FreePages(w))
    IN  {Register([started EXCEPT !.open[page] = browser], page),
         Opens(started, block, browser)}

\* _ensure_started: its outcomes as window, profile and whether a context is
\* there, the browser's executable is missing, or it failed otherwise, as when
\* the profile is in use.
Outcome(w, prof, result) == [window |-> w, profile |-> prof, result |-> result]
EnsureStarted(m, w, prof) ==
    IF w.context # 0 /\ HasActive(w) THEN {Outcome(w, prof, "started")}
    ELSE LET resolved == Resolved(m, prof)
             driven == [w EXCEPT !.driver = TRUE]
         IN  {Outcome(driven, resolved, "failed")} \cup
             (IF AuthRequired(m, prof) /\ ~m.setup THEN {}
              ELSE {Outcome(driven, resolved, "missing")} \cup
                   {Outcome(l, resolved, "started") :
                        l \in IF w.live # Browsers /\ Room(w, 1, 1)
                              THEN Launched(w, m.block) ELSE {}})

-------------------------------------------------------------------------
\* step: "acting" in a page, "context" on the context of the browser, "tab" at
\* closing a tab's page, "pages" and "stop" in _reset, "answered" when success
\* was reported with the active page, or "idle"; again: handlers[action] runs a
\* second time; calm: nothing has closed, crashed or died since the runtime last
\* looked at its active page or opened it.
Call(action, step) == [action |-> action, step |-> step, again |-> FALSE, calm |-> TRUE]
Idle == Call("none", "idle")
Free == call.step \in {"idle", "answered"}

\* The actions that begin with the context; the others begin with the page.
FirstStep(action) == IF action \in {"new_tab", "cookies"} THEN "context" ELSE "acting"

BrowserInit ==
    /\ mode = Default
    /\ profile \in {"absent", "blank", "cookies", "authenticated"}
    /\ window = Closed
    /\ call = Idle

Becomes(w, prof, c) == window' = w /\ profile' = prof /\ call' = c

\* _reset begins: the pages to close are those of the table now.
Resets(w, prof, c) == Becomes([w EXCEPT !.held = PagesOf(w)], prof, [c EXCEPT !.step = "pages"])

\* _browser_context or _page, and the call that goes on if it returns.  perform
\* turns every exception into a result without success; a missing executable is
\* installed, once, and the runtime reset.  No page is active if the only one
\* was blocked.
Looks(m, w, prof, c) ==
    \E o \in EnsureStarted(m, w, prof) :
        \/ /\ o.result = "started" /\ (c.step = "acting" => HasActive(o.window))
           /\ Becomes(o.window, o.profile, c)
        \/ /\ o.result = "started" /\ c.step = "acting" /\ ~HasActive(o.window)
           /\ Becomes(o.window, o.profile, Idle)
        \/ /\ o.result = "missing" /\ ~c.again
           /\ Resets(o.window, o.profile, [c EXCEPT !.again = TRUE])
        \/ /\ o.result = "failed" \/ (o.result = "missing" /\ c.again)
           /\ Becomes(o.window, o.profile, Idle)

\* The configuration is replaced before it is validated.
Launch(m) ==
    /\ Free /\ mode' = m
    /\ Looks(m, window, profile, Call("launch", "acting"))

\* Every action on the active page: to navigate, click, type, read, find, shoot;
\* set_cookies asks for the context first.
Operate ==
    /\ Free /\ UNCHANGED mode
    /\ \E action \in {"page", "cookies"} :
        Looks(mode, window, profile, Call(action, FirstStep(action)))

\* Many of them ask for the page once more, to go on or for the result.
LooksAgain ==
    /\ <<call.action, call.step>> \in {<<"page", "acting">>, <<"cookies", "context">>}
    /\ UNCHANGED mode
    /\ Looks(mode, window, profile, [call EXCEPT !.step = "acting", !.calm = TRUE])

\* _result: success, with the page of the last look, whatever became of it.
Answers ==
    /\ call.step = "acting" /\ UNCHANGED mode
    /\ Becomes(window, profile, [call EXCEPT !.action = "none", !.step = "answered", !.again = FALSE])

\* What the action does raises; closing a page that is closed does not.
Raises ==
    /\ call.step \in {"acting", "context", "tab"} /\ UNCHANGED mode
    /\ window.held \subseteq OpenPages(window)
    /\ Becomes([window EXCEPT !.held = {}], profile, Idle)

NewTab ==
    /\ Free /\ UNCHANGED mode
    /\ Looks(mode, window, profile, Call("new_tab", "context"))

\* The page is registered by its handler and once more here; new_tab may go on
\* to a URL, close_tab is done.
OpensTab ==
    /\ call.step = "context" /\ call.action \in {"new_tab", "close_tab"} /\ UNCHANGED mode
    /\ window.context \in window.live /\ Room(window, 1, 2)
    /\ \E n \in NewPage(window, mode.block) :
        Becomes(Register(n.window, n.page), profile,
                IF call.action = "new_tab" THEN Call("new_tab", "acting") ELSE Idle)

\* Mutant: the tab is chosen and its page not looked at.
SwitchBlindly(tab) ==
    /\ Free /\ tab \in TabsOf(window) /\ UNCHANGED mode
    /\ Becomes([window EXCEPT !.active = tab], profile, Call("switch_tab", "acting"))
\* Choosing a tab whose page is gone starts a browser and answers with its page.
SwitchTab(tab) ==
    /\ Free /\ tab \in TabsOf(window) /\ UNCHANGED mode
    /\ Looks(mode, [window EXCEPT !.active = tab], profile, Call("switch_tab", "acting"))

\* The tab goes first, then its page.
CloseTab(tab) ==
    /\ Free /\ tab \in TabsOf(window) /\ UNCHANGED mode
    /\ Becomes([window EXCEPT !.table = Dropped(@, {tab}), !.held = {PageAt(window, tab)}],
               profile, Call("close_tab", "tab"))

\* The first tab left becomes active.  With none left a browser is started,
\* beside the one that lost its last page, and a page opened in it.
TabCloses ==
    /\ call.step = "tab" /\ UNCHANGED mode
    /\ LET closed == [ClosePages(window, window.held)
                        EXCEPT !.held = {}, !.active = First(window.table)]
       IN  IF window.table = <<>>
           THEN Looks(mode, closed, profile, [call EXCEPT !.step = "context"])
           ELSE Becomes(closed, profile, Idle)

\* KeyError, from the table of tabs or from the inputs of any action.
Refuse == Free /\ Becomes(window, profile, Idle) /\ UNCHANGED mode

\* The state is written, then _page asked for: in setup mode a browser started
\* for it writes the state again.
MarkAuthenticated ==
    /\ Free /\ UNCHANGED mode
    /\ IF profile = "absent" THEN Becomes(window, profile, Idle)
       ELSE Looks(mode, window, "authenticated", Call("mark", "acting"))

\* shutdown.
Close ==
    /\ Free /\ UNCHANGED mode
    /\ Resets(window, profile, Call("close", "pages"))

\* _reset clears the table, with the tabs registered while the pages closed.
ResetPages ==
    /\ call.step = "pages" /\ UNCHANGED mode
    /\ Becomes([ClosePages(window, window.held) EXCEPT !.table = <<>>, !.active = 0, !.held = {}],
               profile, [call EXCEPT !.step = "stop"])

\* The context closes and the driver stops, which ends every browser it started
\* (Playwright's part).  A tab registered meanwhile stays in the table.
Stopped(w) == [Closed EXCEPT !.table = w.table, !.active = w.active]
\* After an install the action runs again; the tab it named is unknown by then.
ResetEnds ==
    /\ call.step = "stop" /\ UNCHANGED mode
    /\ IF call.action \in {"close", "switch_tab", "close_tab"}
       THEN Becomes(Stopped(window), profile, Idle)
       ELSE Looks(mode, Stopped(window), IF call.action = "mark" THEN "authenticated" ELSE profile,
                  [call EXCEPT !.step = FirstStep(call.action), !.calm = TRUE])

\* Mutant: the fields are cleared all the same.
ForgetAll(w) == Becomes([w EXCEPT !.held = {}, !.driver = FALSE, !.context = 0], profile, Idle)
\* The close of a page or of the context raises; what follows it is left out.
ResetFails(w) == Becomes([w EXCEPT !.held = {}], profile, Idle)
ResetRaises ==
    /\ UNCHANGED mode
    /\ \/ /\ call.step = "pages"
          /\ \E done \in SUBSET window.held :
                /\ (window.held \ done) \cap OpenPages(window) # {}
                /\ ResetFails(ClosePages(window, done))
       \/ call.step = "stop" /\ window.context # 0 /\ ResetFails(window)

-------------------------------------------------------------------------
Happens(w, calm) ==
    /\ window' = w /\ call' = [call EXCEPT !.calm = @ /\ calm]
    /\ UNCHANGED <<mode, profile>>

\* A page opens another; the context's handler, then the page's, deals with it.
Popup(page) ==
    /\ page \in OpenPages(window) /\ Room(window, 1, 1)
    /\ Happens(Opens(window, mode.block, window.open[page]), TRUE)

\* A page closes itself: its tabs stay in the table.
PageCloses(page) ==
    /\ page \in OpenPages(window)
    /\ Happens(ClosePages(window, {page}), FALSE)

\* _recover_from_crash, for each tab the page ever had: whichever was active,
\* the first one left becomes it.
PageCrashes(page) ==
    /\ page \in OpenPages(window)
    /\ LET left == Dropped(window.table, TabsOfPage(window, page))
       IN  Happens([window EXCEPT !.table = left, !.active = First(left)], FALSE)

\* A browser process goes; its pages are closed.
BrowserDies(browser) ==
    /\ browser \in window.live
    /\ Happens([ClosePages(window, {p \in Pages : window.open[p] = browser})
                  EXCEPT !.live = @ \ {browser}], FALSE)

Perform ==
    \/ \E m \in Modes : Launch(m)
    \/ Operate \/ NewTab \/ MarkAuthenticated \/ Refuse \/ Close
    \/ \E tab \in Tabs : SwitchTab(tab) \/ CloseTab(tab)
    \/ LooksAgain \/ Answers \/ Raises \/ OpensTab \/ TabCloses
    \/ ResetPages \/ ResetEnds \/ ResetRaises

BrowserNext ==
    \/ Perform
    \/ \E page \in Pages : Popup(page) \/ PageCloses(page) \/ PageCrashes(page)
    \/ \E browser \in Browsers : BrowserDies(browser)

BrowserSpec == BrowserInit /\ [][BrowserNext]_bvars

-------------------------------------------------------------------------
Windows == [driver : BOOLEAN, live : SUBSET Browsers, context : Browsers \cup {0},
            open : [Pages -> Browsers \cup {0}], table : Seq([tab : Tabs, page : Pages]),
            active : Tabs \cup {0}, held : SUBSET Pages]
Calls == [action : {"none", "launch", "page", "cookies", "mark", "new_tab", "switch_tab",
                    "close_tab", "close"},
          step : {"idle", "answered", "acting", "context", "tab", "pages", "stop"},
          again : BOOLEAN, calm : BOOLEAN]

BrowserTypeOK ==
    /\ mode \in AllModes /\ profile \in Profiles
    /\ window \in Windows /\ call \in Calls

\* While popups are allowed, an action that reports success with the active page
\* leaves an active tab that is in the table and whose page is open, whatever
\* closed, crashed or died before the action last looked at the page, and
\* whatever opened since.  What closes after that look goes unnoticed.
SuccessOnOpenPage ==
    call.step = "answered" /\ call.calm /\ ~mode.block => HasActive(window)

\* Every browser process that runs, the forgotten ones included, has the driver
\* it was started by, through resets that raise and events in their midst: a
\* later close can still end it.
NoOrphanBrowser == window.live # {} => window.driver

\* Outside setup mode an authenticated profile stays so, through every start of
\* a browser and every requirement.
AuthenticationKept ==
    [][profile = "authenticated" /\ profile' # "authenticated" => mode'.setup]_bvars

=========================================================================
