------------------------- MODULE BrowserTabsProofs --------------------------
(***************************************************************************)
(* What holds of the browser of a worker, for any number of browsers,      *)
(* pages and tabs and any configurations: the kinds of its variables, what *)
(* a successful answer promises, that no process is orphaned, and what     *)
(* becomes of the profile.                                                 *)
(***************************************************************************)
EXTENDS BrowserTabs, FiniteSetTheorems, WellFoundedInduction, TLAPS

-------------------------------------------------------------------------
\* Induction over the natural numbers, and least elements.

Less == {pair \in Nat \X Nat : pair[1] < pair[2]}

LEMMA Smallest ==
    ASSUME NEW S \in SUBSET Nat, S # {} PROVE \E m \in S : \A k \in S : m <= k
<1>1. IsWellFoundedOn(Less, Nat)
  BY NatLessThanWellFounded DEF OpToRel, Less
<1>2. PICK m \in S : \A k \in S : ~(<<k, m>> \in Less)
  BY <1>1, WFMin
<1>3. ASSUME NEW k \in S PROVE m <= k
  <2>1. k \in Nat /\ m \in Nat
    OBVIOUS
  <2>2. ~(k < m)
    BY <1>2, <2>1 DEF Less
  <2> QED
    BY <2>1, <2>2
<1> QED
  BY <1>3

LEMMA Induction ==
    ASSUME NEW S \in SUBSET Nat, 0 \in S, \A n \in S : n + 1 \in S PROVE S = Nat
<1> DEFINE rest == Nat \ S
<1> SUFFICES ASSUME rest # {} PROVE FALSE
  OBVIOUS
<1>1. PICK m \in rest : \A k \in rest : m <= k
  BY Smallest
<1>2. m # 0 /\ m - 1 \in Nat /\ m - 1 \notin rest /\ (m - 1) + 1 = m
  BY <1>1
<1> QED
  BY <1>1, <1>2

LEMMA LeastIn ==
    ASSUME NEW S \in SUBSET Nat, S # {} PROVE Least(S) \in S
BY Smallest DEF Least

\* The table without some tabs is a table.
LEMMA DroppedType ==
    ASSUME NEW T, NEW table \in Seq(T), NEW gone PROVE Dropped(table, gone) \in Seq(T)
<1> DEFINE next(n, prefix) == IF table[n].tab \in gone THEN prefix ELSE Append(prefix, table[n])
           isLeft(f, k) == f = [n \in 0 .. k |-> IF n = 0 THEN <<>> ELSE next(n, f[n - 1])]
           left == CHOOSE f : isLeft(f, Len(table))
<1>1. Len(table) \in Nat
  OBVIOUS
<1>2. \E f : isLeft(f, Len(table))
  <2> DEFINE S == {k \in Nat : k <= Len(table) => \E f : isLeft(f, k)}
  <2>1. 0 \in S
    <3>1. isLeft([n \in 0 .. 0 |-> <<>>], 0)
      OBVIOUS
    <3> QED
      BY <3>1
  <2>2. ASSUME NEW k \in S PROVE k + 1 \in S
    <3> SUFFICES ASSUME k + 1 <= Len(table) PROVE \E f : isLeft(f, k + 1)
      BY <2>2
    <3>1. PICK f : isLeft(f, k)
      <4> HIDE DEF isLeft
      <4>1. k \in Nat /\ k <= Len(table)
        BY <1>1, <2>2
      <4> QED
        BY <2>2, <4>1
    <3> DEFINE g == [n \in 0 .. k + 1 |-> IF n = k + 1 THEN next(k + 1, f[k]) ELSE f[n]]
    <3>2. ASSUME NEW n \in 0 .. k + 1
          PROVE  g[n] = IF n = 0 THEN <<>> ELSE next(n, g[n - 1])
      <4> HIDE DEF next
      <4>1. CASE n = k + 1
        BY <4>1, <2>2
      <4>2. CASE n \in 0 .. k
        <5>1. f[n] = IF n = 0 THEN <<>> ELSE next(n, f[n - 1])
          BY <3>1, <4>2
        <5> QED
          BY <4>2, <5>1, <2>2
      <4> QED
        BY <4>1, <4>2, <2>2
    <3>3. isLeft(g, k + 1)
      <4> HIDE DEF next
      <4>1. g = [n \in 0 .. k + 1 |-> g[n]]
        OBVIOUS
      <4> HIDE DEF g
      <4> QED
        BY <3>2, <4>1
    <3> QED
      BY <3>3
  <2>3. S = Nat
    <3> HIDE DEF isLeft
    <3>1. S \in SUBSET Nat
      OBVIOUS
    <3> HIDE DEF S
    <3> QED
      BY <2>1, <2>2, <3>1, Induction
  <2>4. Len(table) \in S
    BY <1>1, <2>3
  <2> HIDE DEF isLeft
  <2> QED
    BY <2>4
<1>3. isLeft(left, Len(table))
  <2> HIDE DEF isLeft
  <2> QED
    BY <1>2
<1> HIDE DEF left
<1>4. \A k \in 0 .. Len(table) : left[k] \in Seq(T)
  <2> DEFINE S == {k \in Nat : k <= Len(table) => left[k] \in Seq(T)}
  <2>1. 0 \in S
    BY <1>1, <1>3
  <2>2. ASSUME NEW k \in S PROVE k + 1 \in S
    <3> SUFFICES ASSUME k + 1 <= Len(table) PROVE left[k + 1] \in Seq(T)
      BY <2>2
    <3>1. k \in Nat /\ k + 1 \in 0 .. Len(table) /\ k + 1 # 0 /\ k + 1 - 1 = k
      BY <1>1, <2>2
    <3>2. left[k] \in Seq(T) /\ table[k + 1] \in T
      BY <1>1, <2>2, <3>1
    <3>3. left[k + 1] = next(k + 1, left[k])
      <4> HIDE DEF next
      <4> QED
        BY <1>3, <3>1
    <3> QED
      BY <3>2, <3>3
  <2>3. S = Nat
    <3>1. S \in SUBSET Nat
      OBVIOUS
    <3> HIDE DEF S
    <3> QED
      BY <2>1, <2>2, <3>1, Induction
  <2> QED
    BY <2>3
<1>5. Dropped(table, gone) = left[Len(table)]
  BY DEF Dropped, left
<1> QED
  BY <1>1, <1>4, <1>5

-------------------------------------------------------------------------
\* What the operations make of a window.

TableEntries == [tab : Tabs, page : Pages]

LEMMA WindowFields ==
    ASSUME NEW w \in Windows
    PROVE  /\ w.driver \in BOOLEAN /\ w.live \in SUBSET Browsers /\ w.context \in Browsers \cup {0}
           /\ w.open \in [Pages -> Browsers \cup {0}] /\ w.table \in Seq(TableEntries)
           /\ w.active \in Tabs \cup {0} /\ w.held \in SUBSET Pages
           /\ FreePages(w) \in SUBSET Nat /\ FreeTabs(w) \in SUBSET Nat
           /\ FreePages(w) \subseteq Pages /\ FreeTabs(w) \subseteq Tabs
           /\ \A i \in DOMAIN w.table : w.table[i] \in TableEntries
<1>1. Pages \in SUBSET Nat /\ Tabs \in SUBSET Nat
  BY DEF Pages, Tabs
<1>2. /\ w.driver \in BOOLEAN /\ w.live \in SUBSET Browsers /\ w.context \in Browsers \cup {0}
      /\ w.open \in [Pages -> Browsers \cup {0}] /\ w.table \in Seq(TableEntries)
      /\ w.active \in Tabs \cup {0} /\ w.held \in SUBSET Pages
  BY DEF Windows, TableEntries
<1>3. \A i \in DOMAIN w.table : w.table[i] \in TableEntries
  BY <1>2
<1>4. FreePages(w) \subseteq Pages /\ FreeTabs(w) \subseteq Tabs
  BY DEF FreePages, FreeTabs
<1> QED
  BY <1>1, <1>2, <1>3, <1>4

LEMMA RegisterType ==
    ASSUME NEW w \in Windows, NEW page \in Pages, FreeTabs(w) # {}
    PROVE  /\ Register(w, page) \in Windows /\ Register(w, page).active \in FreeTabs(w)
           /\ Register(w, page).table
                = Append(w.table, [tab |-> Register(w, page).active, page |-> page])
           /\ Register(w, page).open = w.open /\ Register(w, page).context = w.context
           /\ Register(w, page).live = w.live /\ Register(w, page).driver = w.driver
<1> DEFINE tab == Least(FreeTabs(w))
           entry == [tab |-> tab, page |-> page]
<1>1. tab \in FreeTabs(w) /\ tab \in Tabs
  BY WindowFields, LeastIn
<1>2. Register(w, page) = [w EXCEPT !.table = Append(@, entry), !.active = tab]
  BY DEF Register
<1> HIDE DEF tab
<1>3. entry \in TableEntries
  BY <1>1 DEF TableEntries
<1>4. entry = [tab |-> tab, page |-> page]
  OBVIOUS
<1> HIDE DEF entry
<1>5. Append(w.table, entry) \in Seq(TableEntries)
  BY <1>3, WindowFields
<1> DEFINE longer == Append(w.table, entry)
<1>6. Register(w, page) = [w EXCEPT !.table = longer, !.active = tab]
  BY <1>2 DEF Windows
<1>7. longer \in Seq([tab : Tabs, page : Pages])
  BY <1>5 DEF TableEntries
<1>8. longer = Append(w.table, entry)
  OBVIOUS
<1> HIDE DEF longer
<1>9. Register(w, page) \in Windows
  BY <1>1, <1>6, <1>7 DEF Windows
<1> QED
  BY <1>1, <1>4, <1>6, <1>8, <1>9 DEF Windows

LEMMA ClosePagesType ==
    ASSUME NEW w \in Windows, NEW pages
    PROVE  /\ ClosePages(w, pages) \in Windows /\ ClosePages(w, pages).table = w.table
           /\ ClosePages(w, pages).live = w.live /\ ClosePages(w, pages).driver = w.driver
<1> DEFINE open == [p \in Pages |-> IF p \in pages THEN 0 ELSE w.open[p]]
<1>1. ClosePages(w, pages) = [w EXCEPT !.open = open]
  BY DEF ClosePages, Windows
<1>2. open \in [Pages -> Browsers \cup {0}]
  BY WindowFields
<1> HIDE DEF open
<1> QED
  BY <1>1, <1>2 DEF Windows

LEMMA OpenedType ==
    ASSUME NEW w \in Windows, NEW page \in Pages, NEW browser \in Browsers
    PROVE  /\ [w EXCEPT !.open[page] = browser] \in Windows
           /\ [w EXCEPT !.open[page] = browser].open[page] = browser
           /\ [w EXCEPT !.open[page] = browser].context = w.context
           /\ [w EXCEPT !.open[page] = browser].live = w.live
           /\ [w EXCEPT !.open[page] = browser].driver = w.driver
           /\ FreeTabs([w EXCEPT !.open[page] = browser]) = FreeTabs(w)
<1> DEFINE open == [w.open EXCEPT ![page] = browser]
           opened == [w EXCEPT !.open = open]
<1>1. [w EXCEPT !.open[page] = browser] = opened
  BY DEF Windows
<1>2. open \in [Pages -> Browsers \cup {0}] /\ open[page] = browser
  BY WindowFields
<1> HIDE DEF open
<1>3. /\ opened \in Windows /\ opened.open = open /\ opened.context = w.context
      /\ opened.live = w.live /\ opened.driver = w.driver /\ opened.table = w.table /\ opened.active = w.active
  BY <1>2 DEF Windows
<1> HIDE DEF opened
<1>4. FreeTabs(opened) = FreeTabs(w)
  BY <1>3 DEF FreeTabs, TabsOf
<1> QED
  BY <1>1, <1>2, <1>3, <1>4

\* A fresh page that is registered is the active one, and it is open.
LEMMA RegisteredActive ==
    ASSUME NEW w \in Windows, NEW page \in Pages, FreeTabs(w) # {}, w.open[page] \in Browsers
    PROVE  HasActive(Register(w, page))
<1> DEFINE then == Register(w, page)
           entry == [tab |-> then.active, page |-> page]
<1>1. /\ then \in Windows /\ then.active \in FreeTabs(w)
      /\ then.table = Append(w.table, entry) /\ then.open = w.open
  BY RegisterType
<1>2. entry.tab = then.active /\ entry.page = page
  OBVIOUS
<1>3. w.table \in Seq(TableEntries)
  BY WindowFields
<1> HIDE DEF then, entry
<1>4. \A e \in ToSet(w.table) : e.tab # then.active
  BY <1>1 DEF ToSet, FreeTabs, TabsOf
<1>5. /\ Len(w.table) + 1 \in DOMAIN then.table
      /\ then.table[Len(w.table) + 1] = entry
      /\ \A i \in DOMAIN then.table : then.table[i] = entry \/ then.table[i] \in ToSet(w.table)
  BY <1>1, <1>3 DEF ToSet
<1>6. /\ then.active \in TabsOf(then) /\ entry \in ToSet(then.table)
      /\ \A e \in ToSet(then.table) : e.tab = then.active => e = entry
  BY <1>2, <1>4, <1>5 DEF ToSet, TabsOf
<1>7. PageAt(then, then.active) = page
  BY <1>2, <1>6 DEF PageAt
<1>8. then.open[page] # 0
  BY <1>1 DEF Browsers
<1>9. HasActive(then)
  BY <1>6, <1>7, <1>8 DEF HasActive
<1> QED
  BY <1>9 DEF then

LEMMA OpensType ==
    ASSUME NEW w \in Windows, NEW block \in BOOLEAN, NEW browser \in Browsers,
           FreePages(w) # {}, FreeTabs(w) # {}
    PROVE  /\ Opens(w, block, browser) \in Windows /\ Opens(w, block, browser).context = w.context
           /\ Opens(w, block, browser).live = w.live /\ Opens(w, block, browser).driver = w.driver
           /\ ~block => HasActive(Opens(w, block, browser))
<1> DEFINE page == Least(FreePages(w))
           opened == [w EXCEPT !.open[page] = browser]
<1>1. page \in Pages
  BY WindowFields, LeastIn
<1>2. Opens(w, block, browser) = IF block THEN w ELSE Register(opened, page)
  BY DEF Opens
<1> HIDE DEF page
<1>3. /\ opened \in Windows /\ opened.context = w.context /\ FreeTabs(opened) = FreeTabs(w)
      /\ opened.live = w.live /\ opened.driver = w.driver /\ opened.open[page] = browser
  BY <1>1, OpenedType
<1> HIDE DEF opened
<1>4. /\ Register(opened, page) \in Windows /\ Register(opened, page).context = w.context
      /\ Register(opened, page).live = w.live /\ Register(opened, page).driver = w.driver
  BY <1>1, <1>3, RegisterType
<1>5. HasActive(Register(opened, page))
  BY <1>1, <1>3, RegisteredActive
<1> QED
  BY <1>2, <1>4, <1>5

LEMMA RoomLeft ==
    ASSUME NEW w \in Windows, NEW tabs \in {1, 2}, Room(w, 1, tabs)
    PROVE  /\ FreePages(w) # {} /\ FreeTabs(w) # {}
           /\ tabs = 2 => \A tab : FreeTabs(w) \ {tab} # {}
<1>1. PICK P \in SUBSET FreePages(w), T \in SUBSET FreeTabs(w) :
        Cardinality(P) = 1 /\ Cardinality(T) = tabs
  BY DEF Room
<1>2. P # {} /\ T # {}
  BY <1>1, FS_EmptySet
<1>3. ASSUME tabs = 2, NEW tab, FreeTabs(w) \ {tab} = {} PROVE FALSE
  <2>1. T = {} \/ T = {tab}
    BY <1>3
  <2>2. Cardinality({tab}) = 1
    BY FS_Singleton
  <2> QED
    BY <1>1, <1>2, <1>3, <2>1, <2>2
<1> QED
  BY <1>2, <1>3

LEMMA ClosedType == Closed \in Windows /\ Closed.live = {}
<1>1. <<>> \in Seq([tab : Tabs, page : Pages])
  OBVIOUS
<1> QED
  BY <1>1 DEF Closed, Windows

LEMMA LaunchedType ==
    ASSUME NEW w \in Windows, NEW block \in BOOLEAN, w.live # Browsers,
           FreePages(w) # {}, FreeTabs(w) # {},
           NEW l \in Launched(w, block)
    PROVE  l \in Windows /\ l.driver
<1> DEFINE browser == Least(Browsers \ w.live)
           page == Least(FreePages(w))
           started == [w EXCEPT !.driver = TRUE, !.live = @ \cup {browser}, !.context = browser]
<1>1. browser \in Browsers
  <2>1. Browsers \in SUBSET Nat
    BY DEF Browsers
  <2>2. Browsers \ w.live # {} /\ Browsers \ w.live \in SUBSET Nat
    BY <2>1, WindowFields
  <2> QED
    BY <2>2, LeastIn
<1>2. page \in Pages
  BY WindowFields, LeastIn
<1>3. l = Register([started EXCEPT !.open[page] = browser], page) \/ l = Opens(started, block, browser)
  BY DEF Launched
<1> HIDE DEF browser, page
<1>4. /\ started \in Windows /\ started.driver /\ started.held = w.held
      /\ started.open = w.open /\ started.table = w.table /\ started.active = w.active
  BY <1>1 DEF Windows
<1> HIDE DEF started
<1>5. FreePages(started) = FreePages(w) /\ FreeTabs(started) = FreeTabs(w)
  BY <1>4 DEF FreePages, FreeTabs, OpenPages, PagesOf, TabsOf
<1>6. CASE l = Opens(started, block, browser)
  BY <1>1, <1>4, <1>5, <1>6, OpensType
<1>7. CASE l = Register([started EXCEPT !.open[page] = browser], page)
  <2> DEFINE opened == [started EXCEPT !.open[page] = browser]
  <2>1. opened \in Windows /\ opened.driver /\ FreeTabs(opened) = FreeTabs(w)
    BY <1>1, <1>2, <1>4, <1>5, OpenedType
  <2>2. l = Register(opened, page)
    BY <1>7
  <2> HIDE DEF opened
  <2> QED
    BY <1>1, <1>2, <2>1, <2>2, RegisterType
<1> QED
  BY <1>3, <1>6, <1>7

\* A window whose processes, if any, have their driver.
Owned(w) == w.live # {} => w.driver

\* What starting a browser leaves, for a window and a profile as they may be.
Started == [window : Windows, profile : Profiles, result : {"started", "failed", "missing"}]

LEMMA ResolvedType ==
    ASSUME NEW m, NEW prof \in Profiles PROVE Resolved(m, prof) \in Profiles
BY DEF Resolved, Profiles

LEMMA OutcomeType ==
    ASSUME NEW w \in Windows, NEW prof \in Profiles, NEW result \in {"started", "failed", "missing"}
    PROVE  /\ Outcome(w, prof, result) \in Started
           /\ Outcome(w, prof, result).window = w
BY DEF Outcome, Started

LEMMA EnsureStartedType ==
    ASSUME NEW m \in AllModes, NEW w \in Windows, NEW prof \in Profiles,
           NEW o \in EnsureStarted(m, w, prof)
    PROVE  o \in Started /\ (Owned(w) => Owned(o.window))
<1> DEFINE resolved == Resolved(m, prof)
           driven == [w EXCEPT !.driver = TRUE]
<1>1. resolved \in Profiles
  BY ResolvedType
<1>2. driven \in Windows /\ driven.driver
  BY DEF Windows
<1>3. m.block \in BOOLEAN
  BY DEF AllModes
<1>4. \/ o = Outcome(w, prof, "started")
      \/ o = Outcome(driven, resolved, "failed")
      \/ o = Outcome(driven, resolved, "missing")
      \/ \E l \in Launched(w, m.block) :
            w.live # Browsers /\ Room(w, 1, 1) /\ o = Outcome(l, resolved, "started")
  BY DEF EnsureStarted
<1> HIDE DEF resolved, driven
<1>5. CASE o = Outcome(w, prof, "started")
  BY <1>5, OutcomeType
<1>6. CASE o = Outcome(driven, resolved, "failed") \/ o = Outcome(driven, resolved, "missing")
  BY <1>1, <1>2, <1>6, OutcomeType DEF Owned
<1>7. ASSUME NEW l \in Launched(w, m.block), w.live # Browsers, Room(w, 1, 1),
             o = Outcome(l, resolved, "started")
      PROVE  o \in Started /\ Owned(o.window)
  <2>1. FreePages(w) # {} /\ FreeTabs(w) # {}
    BY <1>7, RoomLeft
  <2>2. l \in Windows /\ l.driver
    BY <1>3, <1>7, <2>1, LaunchedType
  <2> QED
    BY <1>1, <1>7, <2>2, OutcomeType DEF Owned
<1> QED
  BY <1>4, <1>5, <1>6, <1>7

LEMMA HoldsType ==
    ASSUME NEW w \in Windows, NEW held \in SUBSET Pages
    PROVE  [w EXCEPT !.held = held] \in Windows /\ (Owned(w) => Owned([w EXCEPT !.held = held]))
BY DEF Windows, Owned

LEMMA PagesOfType == ASSUME NEW w \in Windows PROVE PagesOf(w) \in SUBSET Pages
BY WindowFields DEF PagesOf, TableEntries

LEMMA CallType ==
    ASSUME NEW c \in Calls
    PROVE  /\ c.again \in BOOLEAN /\ c.calm \in BOOLEAN
           /\ [c EXCEPT !.again = TRUE] \in Calls
           /\ [[c EXCEPT !.again = TRUE] EXCEPT !.step = "pages"] \in Calls
           /\ Idle \in Calls /\ Idle.step = "idle"
BY DEF Calls, Idle, Call

\* Where an action stands that has looked for a context or a page.
LEMMA LooksType ==
    ASSUME NEW m \in AllModes, NEW w \in Windows, NEW prof \in Profiles,
           NEW c \in Calls, Looks(m, w, prof, c)
    PROVE  /\ window' \in Windows /\ profile' \in Profiles /\ call' \in Calls
           /\ Owned(w) => Owned(window')
           /\ call'.step = "acting" => HasActive(window')
           /\ call'.step = "answered" => c.step = "answered"
<1>1. PICK o \in EnsureStarted(m, w, prof) :
        \/ (c.step = "acting" => HasActive(o.window)) /\ Becomes(o.window, o.profile, c)
        \/ Becomes(o.window, o.profile, Idle)
        \/ Resets(o.window, o.profile, [c EXCEPT !.again = TRUE])
  BY DEF Looks
<1>2. o \in Started /\ (Owned(w) => Owned(o.window))
  BY EnsureStartedType
<1>3. o.window \in Windows /\ o.profile \in Profiles
  BY <1>2 DEF Started
<1>4. CASE (c.step = "acting" => HasActive(o.window)) /\ Becomes(o.window, o.profile, c)
  BY <1>2, <1>3, <1>4 DEF Becomes
<1>5. CASE Becomes(o.window, o.profile, Idle)
  BY <1>2, <1>3, <1>5, CallType DEF Becomes
<1>6. CASE Resets(o.window, o.profile, [c EXCEPT !.again = TRUE])
  <2> DEFINE w2 == [o.window EXCEPT !.held = PagesOf(o.window)]
             c2 == [[c EXCEPT !.again = TRUE] EXCEPT !.step = "pages"]
  <2>1. window' = w2 /\ profile' = o.profile /\ call' = c2
    BY <1>6 DEF Resets, Becomes
  <2>2. w2 \in Windows /\ (Owned(o.window) => Owned(w2))
    BY <1>3, PagesOfType, HoldsType
  <2>3. c2 \in Calls /\ c2.step = "pages"
    BY CallType DEF Calls
  <2> HIDE DEF w2, c2
  <2> QED
    BY <1>2, <1>3, <2>1, <2>2, <2>3
<1> QED
  BY <1>1, <1>4, <1>5, <1>6

\* The page and the window of a new tab, registered twice while popups are
\* allowed: the active tab is a fresh one, and its page is open.
LEMMA NewPageType ==
    ASSUME NEW w \in Windows, NEW block \in BOOLEAN, w.context \in Browsers, Room(w, 1, 2),
           NEW n \in NewPage(w, block)
    PROVE  /\ Register(n.window, n.page) \in Windows
           /\ Register(n.window, n.page).live = w.live
           /\ Register(n.window, n.page).driver = w.driver
           /\ ~block => HasActive(Register(n.window, n.page))
<1> DEFINE page == Least(FreePages(w))
           opened == [w EXCEPT !.open[page] = w.context]
           once == Register(opened, page)
<1>1. /\ FreePages(w) # {} /\ FreeTabs(w) # {}
      /\ \A tab : FreeTabs(w) \ {tab} # {}
  BY RoomLeft
<1>2. page \in Pages
  BY <1>1, WindowFields, LeastIn
<1>3. \/ n = [page |-> page, window |-> IF block THEN w ELSE once]
      \/ block /\ n = [page |-> page, window |-> opened]
  BY DEF NewPage, Opens
<1> HIDE DEF page
<1>4. /\ opened \in Windows /\ opened.open[page] = w.context
      /\ FreeTabs(opened) = FreeTabs(w) /\ opened.live = w.live /\ opened.driver = w.driver
  BY <1>2, OpenedType
<1> HIDE DEF opened
<1>5. /\ once \in Windows /\ once.open = opened.open
      /\ once.live = w.live /\ once.driver = w.driver
      /\ once.table = Append(opened.table, [tab |-> once.active, page |-> page])
      /\ once.active \in FreeTabs(opened)
  BY <1>1, <1>2, <1>4, RegisterType
<1> HIDE DEF once
<1>6. FreeTabs(opened) \ {once.active} \subseteq FreeTabs(once)
  <2>1. opened.table \in Seq(TableEntries)
    BY <1>4, WindowFields
  <2> DEFINE entry == [tab |-> once.active, page |-> page]
  <2>2. entry.tab = once.active /\ once.table = Append(opened.table, entry)
    BY <1>5
  <2> HIDE DEF entry
  <2>3. ASSUME NEW t \in TabsOf(once) PROVE t \in TabsOf(opened) \/ t = once.active
    <3>1. PICK i \in DOMAIN once.table : t = once.table[i].tab
      BY DEF TabsOf
    <3>2. \/ i \in DOMAIN opened.table /\ once.table[i] = opened.table[i]
          \/ once.table[i] = entry
      BY <2>1, <2>2
    <3> QED
      BY <2>2, <3>1, <3>2 DEF TabsOf
  <2> QED
    BY <1>5, <2>3 DEF FreeTabs
<1>7. FreeTabs(once) # {}
  BY <1>1, <1>4, <1>6
<1>8. CASE block
  <2>1. n.page = page /\ (n.window = w \/ n.window = opened)
    BY <1>3, <1>8
  <2>2. CASE n.window = w
    BY <1>1, <1>2, <1>8, <2>1, <2>2, RegisterType
  <2>3. CASE n.window = opened
    <3>1. FreeTabs(opened) # {}
      BY <1>1, <1>4
    <3> QED
      BY <1>2, <1>4, <1>8, <2>1, <2>3, <3>1, RegisterType
  <2> QED
    BY <2>1, <2>2, <2>3
<1>9. CASE ~block
  <2>1. n.page = page /\ n.window = once
    BY <1>3, <1>9
  <2>2. once.open[page] \in Browsers
    BY <1>4, <1>5
  <2> QED
    BY <1>2, <1>5, <1>7, <2>1, <2>2, RegisterType, RegisteredActive
<1> QED
  BY <1>8, <1>9

LEMMA PageAtType ==
    ASSUME NEW w \in Windows, NEW tab \in TabsOf(w)
    PROVE  PageAt(w, tab) \in Pages
<1>1. PICK i \in DOMAIN w.table : w.table[i].tab = tab
  BY DEF TabsOf
<1>2. \A e \in ToSet(w.table) : e \in TableEntries
  BY WindowFields DEF ToSet
<1>3. w.table[i] \in ToSet(w.table)
  BY DEF ToSet
<1> QED
  BY <1>1, <1>2, <1>3 DEF PageAt, TableEntries

LEMMA FirstType ==
    ASSUME NEW table \in Seq(TableEntries) PROVE First(table) \in Tabs \cup {0}
<1>1. CASE table = <<>>
  BY <1>1 DEF First
<1>2. CASE table # <<>>
  <2>1. table[1] \in TableEntries
    BY <1>2
  <2> QED
    BY <1>2, <2>1 DEF First, TableEntries
<1> QED
  BY <1>1, <1>2

\* The two changes of the table that close_tab and a crash make.
LEMMA TableType ==
    ASSUME NEW w \in Windows, NEW table \in Seq(TableEntries), NEW active \in Tabs \cup {0}
    PROVE  [w EXCEPT !.table = table, !.active = active] \in Windows
BY DEF Windows, TableEntries

-------------------------------------------------------------------------
\* The invariant of the runtime: what an action knows of the active page after
\* it looked at it, up to its answer, and what a process owes to its driver.

Looked ==
    call.step \in {"acting", "answered"} /\ call.calm /\ ~mode.block => HasActive(window)

BrowserInv == BrowserTypeOK /\ Looked /\ NoOrphanBrowser

\* A step that looks for a context or a page, whatever it is part of.
LEMMA LooksStep ==
    ASSUME mode' \in AllModes, NEW w \in Windows, NEW prof \in Profiles, NEW c \in Calls,
           Looks(mode', w, prof, c), c.step \in {"acting", "context"}, Owned(w)
    PROVE  BrowserInv'
<1>1. /\ window' \in Windows /\ profile' \in Profiles /\ call' \in Calls
      /\ Owned(window') /\ (call'.step = "acting" => HasActive(window')) /\ call'.step # "answered"
  BY LooksType
<1>2. HasActive(window') => HasActive(window)'
  BY DEF HasActive, TabsOf, PageAt
<1> QED
  BY <1>1, <1>2 DEF BrowserInv, BrowserTypeOK, Looked, NoOrphanBrowser, Owned

\* A step that is given its window and what becomes of the call.
LEMMA BecomesStep ==
    ASSUME mode' \in AllModes, NEW w \in Windows, NEW prof \in Profiles, NEW c \in Calls,
           Becomes(w, prof, c), Owned(w),
           c.step \in {"acting", "answered"} /\ c.calm /\ ~mode'.block => HasActive(w)
    PROVE  BrowserInv'
<1>1. window' = w /\ profile' = prof /\ call' = c
  BY DEF Becomes
<1>2. HasActive(w) => HasActive(window)'
  BY <1>1 DEF HasActive, TabsOf, PageAt
<1> QED
  BY <1>1, <1>2 DEF BrowserInv, BrowserTypeOK, Looked, NoOrphanBrowser, Owned

\* An event of a page or a browser.
LEMMA HappensStep ==
    ASSUME BrowserInv, NEW w \in Windows, NEW calm \in BOOLEAN, Happens(w, calm), Owned(w),
           calm /\ ~mode.block => HasActive(w)
    PROVE  BrowserInv'
<1> DEFINE then == [call EXCEPT !.calm = call.calm /\ calm]
<1>1. window' = w /\ call' = then /\ UNCHANGED <<mode, profile>>
  BY DEF Happens, BrowserInv, BrowserTypeOK, Calls
<1>2. call \in Calls /\ (call.calm /\ calm) \in BOOLEAN
  BY DEF BrowserInv, BrowserTypeOK, Calls
<1>3. then \in Calls
  BY <1>2 DEF Calls
<1>4. then.calm => calm
  BY <1>2 DEF Calls
<1> HIDE DEF then
<1>5. HasActive(w) => HasActive(window)'
  BY <1>1 DEF HasActive, TabsOf, PageAt
<1> QED
  BY <1>1, <1>3, <1>4, <1>5 DEF BrowserInv, BrowserTypeOK, Looked, NoOrphanBrowser, Owned

LEMMA CallsType ==
    ASSUME NEW action \in {"none", "launch", "page", "cookies", "mark", "new_tab", "switch_tab",
                           "close_tab", "close"},
           NEW step \in {"idle", "answered", "acting", "context", "tab", "pages", "stop"}
    PROVE  Call(action, step) \in Calls /\ Call(action, step).step = step
BY DEF Call, Calls

LEMMA MovedCallType ==
    ASSUME NEW c \in Calls,
           NEW step \in {"idle", "answered", "acting", "context", "tab", "pages", "stop"}
    PROVE  /\ [c EXCEPT !.step = step] \in Calls /\ [c EXCEPT !.step = step].step = step
           /\ [c EXCEPT !.step = step, !.calm = TRUE] \in Calls
           /\ [c EXCEPT !.step = step, !.calm = TRUE].step = step
BY DEF Calls

\* The window after the page of a tab, or the pages of the table, are closed.
LEMMA ShutType ==
    ASSUME NEW w \in Windows, NEW pages, NEW table \in Seq(TableEntries), NEW active \in Tabs \cup {0},
           NEW held \in SUBSET Pages
    PROVE  LET then == [ClosePages(w, pages) EXCEPT !.table = table, !.active = active, !.held = held]
           IN  then \in Windows /\ (Owned(w) => Owned(then))
<1> DEFINE shut == ClosePages(w, pages)
           then == [shut EXCEPT !.table = table, !.active = active, !.held = held]
<1>1. shut \in Windows /\ shut.live = w.live /\ shut.driver = w.driver
  BY ClosePagesType
<1> HIDE DEF shut
<1>2. then \in Windows /\ then.live = shut.live /\ then.driver = shut.driver
  BY <1>1 DEF Windows, TableEntries
<1> HIDE DEF then
<1>3. then \in Windows /\ (Owned(w) => Owned(then))
  BY <1>1, <1>2 DEF Owned
<1> QED
  BY <1>3 DEF then, shut

\* The steps by which a call begins.
LEMMA BeginsStep ==
    ASSUME BrowserInv,
           \/ \E m \in Modes : Launch(m)
           \/ Operate \/ NewTab \/ MarkAuthenticated \/ Refuse \/ Close
           \/ \E tab \in Tabs : SwitchTab(tab) \/ CloseTab(tab)
    PROVE  BrowserInv'
<1>0. /\ mode \in AllModes /\ profile \in Profiles /\ window \in Windows /\ Owned(window)
      /\ Idle \in Calls /\ Idle.step = "idle"
  BY DEF BrowserInv, BrowserTypeOK, NoOrphanBrowser, Owned, Idle, Call, Calls
<1>1. ASSUME NEW m \in Modes, Launch(m) PROVE BrowserInv'
  <2>1. mode' = m /\ m \in AllModes /\ Looks(m, window, profile, Call("launch", "acting"))
    BY <1>1, BrowserAssumption DEF Launch
  <2> QED
    BY <1>0, <2>1, CallsType, LooksStep
<1>2. CASE Operate
  <2>1. PICK action \in {"page", "cookies"} :
            mode' = mode /\ Looks(mode, window, profile, Call(action, FirstStep(action)))
    BY <1>2 DEF Operate
  <2>2. FirstStep(action) \in {"acting", "context"}
    BY DEF FirstStep
  <2>3. Call(action, FirstStep(action)) \in Calls /\ Call(action, FirstStep(action)).step \in {"acting", "context"}
    BY <2>2, CallsType
  <2> QED
    BY <1>0, <2>1, <2>3, LooksStep
<1>3. CASE NewTab
  <2>1. mode' = mode /\ Looks(mode, window, profile, Call("new_tab", "context"))
    BY <1>3 DEF NewTab
  <2> QED
    BY <1>0, <2>1, CallsType, LooksStep
<1>4. CASE MarkAuthenticated
  <2>1. mode' = mode /\ "authenticated" \in Profiles
    BY <1>4 DEF MarkAuthenticated, Profiles
  <2>2. CASE Becomes(window, profile, Idle)
    BY <1>0, <2>1, <2>2, BecomesStep
  <2>3. CASE Looks(mode, window, "authenticated", Call("mark", "acting"))
    BY <1>0, <2>1, <2>3, CallsType, LooksStep
  <2> QED
    BY <1>4, <2>2, <2>3 DEF MarkAuthenticated
<1>5. CASE Refuse
  BY <1>0, <1>5, BecomesStep DEF Refuse
<1>6. CASE Close
  <2> DEFINE held == [window EXCEPT !.held = PagesOf(window)]
             then == [Call("close", "pages") EXCEPT !.step = "pages"]
  <2>1. mode' = mode /\ Becomes(held, profile, then)
    BY <1>6 DEF Close, Resets
  <2>2. held \in Windows /\ Owned(held)
    BY <1>0, PagesOfType, HoldsType
  <2>3. then \in Calls /\ then.step = "pages"
    BY DEF Call, Calls
  <2> HIDE DEF held, then
  <2> QED
    BY <1>0, <2>1, <2>2, <2>3, BecomesStep
<1>7. ASSUME NEW tab \in Tabs, SwitchTab(tab) PROVE BrowserInv'
  <2> DEFINE chosen == [window EXCEPT !.active = tab]
  <2>1. chosen \in Windows /\ Owned(chosen)
    BY <1>0 DEF Windows, Owned
  <2>2. mode' = mode /\ Looks(mode, chosen, profile, Call("switch_tab", "acting"))
    BY <1>7 DEF SwitchTab
  <2> HIDE DEF chosen
  <2> QED
    BY <1>0, <2>1, <2>2, CallsType, LooksStep
<1>8. ASSUME NEW tab \in Tabs, CloseTab(tab) PROVE BrowserInv'
  <2> DEFINE table == Dropped(window.table, {tab})
             page == PageAt(window, tab)
             then == [window EXCEPT !.table = table, !.held = {page}]
  <2>1. mode' = mode /\ tab \in TabsOf(window) /\ Becomes(then, profile, Call("close_tab", "tab"))
    BY <1>8 DEF CloseTab
  <2>2. table \in Seq(TableEntries) /\ page \in Pages
    BY <1>0, <2>1, WindowFields, DroppedType, PageAtType
  <2> HIDE DEF table, page
  <2>3. then \in Windows /\ Owned(then)
    BY <1>0, <2>2 DEF Windows, TableEntries, Owned
  <2> HIDE DEF then
  <2> QED
    BY <1>0, <2>1, <2>3, CallsType, BecomesStep
<1> QED
  BY <1>1, <1>2, <1>3, <1>4, <1>5, <1>6, <1>7, <1>8

\* The steps by which a call goes on.
LEMMA GoesOnStep ==
    ASSUME BrowserInv, LooksAgain \/ Answers \/ Raises \/ OpensTab \/ TabCloses
    PROVE  BrowserInv'
<1>0. /\ mode \in AllModes /\ mode.block \in BOOLEAN /\ profile \in Profiles
      /\ window \in Windows /\ Owned(window)
      /\ call \in Calls /\ Idle \in Calls /\ Idle.step = "idle"
  BY DEF BrowserInv, BrowserTypeOK, NoOrphanBrowser, Owned, Idle, Call, Calls, AllModes
<1>1. CASE LooksAgain
  <2> DEFINE then == [call EXCEPT !.step = "acting", !.calm = TRUE]
  <2>1. mode' = mode /\ Looks(mode, window, profile, then)
    BY <1>1 DEF LooksAgain
  <2>2. then \in Calls /\ then.step = "acting"
    BY <1>0, MovedCallType
  <2> HIDE DEF then
  <2> QED
    BY <1>0, <2>1, <2>2, LooksStep
<1>2. CASE Answers
  <2> DEFINE then == [call EXCEPT !.action = "none", !.step = "answered", !.again = FALSE]
  <2>1. mode' = mode /\ call.step = "acting" /\ Becomes(window, profile, then)
    BY <1>2 DEF Answers
  <2>2. then \in Calls /\ (then.calm <=> call.calm)
    BY <1>0 DEF Calls
  <2> HIDE DEF then
  <2>3. then.calm /\ ~mode'.block => HasActive(window)
    BY <2>1, <2>2 DEF BrowserInv, Looked
  <2> QED
    BY <1>0, <2>1, <2>2, <2>3, BecomesStep
<1>3. CASE Raises
  <2>1. mode' = mode /\ Becomes([window EXCEPT !.held = {}], profile, Idle)
    BY <1>3 DEF Raises
  <2>2. [window EXCEPT !.held = {}] \in Windows /\ Owned([window EXCEPT !.held = {}])
    BY <1>0, HoldsType
  <2> QED
    BY <1>0, <2>1, <2>2, BecomesStep
<1>4. CASE OpensTab
  <2>1. PICK n \in NewPage(window, mode.block) :
            \/ Becomes(Register(n.window, n.page), profile, Call("new_tab", "acting"))
            \/ Becomes(Register(n.window, n.page), profile, Idle)
    BY <1>4 DEF OpensTab
  <2>2. mode' = mode /\ window.context \in Browsers /\ Room(window, 1, 2)
    BY <1>0, <1>4, WindowFields DEF OpensTab
  <2> DEFINE then == Register(n.window, n.page)
  <2>3. /\ then \in Windows /\ then.live = window.live /\ then.driver = window.driver
        /\ ~mode.block => HasActive(then)
    BY <1>0, <2>2, NewPageType
  <2>4. Becomes(then, profile, Call("new_tab", "acting")) \/ Becomes(then, profile, Idle)
    BY <2>1
  <2> HIDE DEF then
  <2>5. Owned(then)
    BY <1>0, <2>3 DEF Owned
  <2>6. CASE Becomes(then, profile, Call("new_tab", "acting"))
    BY <1>0, <2>2, <2>3, <2>5, <2>6, CallsType, BecomesStep
  <2>7. CASE Becomes(then, profile, Idle)
    BY <1>0, <2>2, <2>3, <2>5, <2>7, BecomesStep
  <2> QED
    BY <2>4, <2>6, <2>7
<1>5. CASE TabCloses
  <2> DEFINE closed == [ClosePages(window, window.held)
                          EXCEPT !.held = {}, !.active = First(window.table)]
             active == First(window.table)
             full == [ClosePages(window, window.held)
                        EXCEPT !.table = window.table, !.active = active, !.held = {}]
             then == [call EXCEPT !.step = "context"]
  <2>1. mode' = mode /\ (Looks(mode, closed, profile, then) \/ Becomes(closed, profile, Idle))
    BY <1>5 DEF TabCloses
  <2>2. window.table \in Seq(TableEntries) /\ active \in Tabs \cup {0}
    BY <1>0, WindowFields, FirstType
  <2>3. closed = full
    <3>1. ClosePages(window, window.held) \in Windows
          /\ ClosePages(window, window.held).table = window.table
      BY <1>0, ClosePagesType
    <3> QED
      BY <3>1 DEF Windows
  <2>4. full \in Windows /\ Owned(full)
    <3> HIDE DEF active
    <3> QED
      BY <1>0, <2>2, ShutType
  <2>5. then \in Calls /\ then.step = "context"
    BY <1>0, MovedCallType
  <2> HIDE DEF closed, full, active, then
  <2>6. CASE Looks(mode, closed, profile, then)
    BY <1>0, <2>1, <2>3, <2>4, <2>5, <2>6, LooksStep
  <2>7. CASE Becomes(closed, profile, Idle)
    BY <1>0, <2>1, <2>3, <2>4, <2>7, BecomesStep
  <2> QED
    BY <2>1, <2>6, <2>7
<1> QED
  BY <1>1, <1>2, <1>3, <1>4, <1>5

\* The steps of a reset, for shutdown or after an install.
LEMMA ResetStep ==
    ASSUME BrowserInv, ResetPages \/ ResetEnds \/ ResetRaises
    PROVE  BrowserInv'
<1>0. /\ mode \in AllModes /\ profile \in Profiles /\ window \in Windows /\ Owned(window)
      /\ call \in Calls /\ Idle \in Calls /\ Idle.step = "idle"
  BY DEF BrowserInv, BrowserTypeOK, NoOrphanBrowser, Owned, Idle, Call, Calls
<1>1. CASE ResetPages
  <2> DEFINE shut == [ClosePages(window, window.held) EXCEPT !.table = <<>>, !.active = 0, !.held = {}]
             then == [call EXCEPT !.step = "stop"]
  <2>1. mode' = mode /\ Becomes(shut, profile, then)
    BY <1>1 DEF ResetPages
  <2>2. <<>> \in Seq(TableEntries)
    OBVIOUS
  <2>3. shut \in Windows /\ Owned(shut)
    BY <1>0, <2>2, ShutType
  <2>4. then \in Calls /\ then.step = "stop"
    BY <1>0, MovedCallType
  <2> HIDE DEF shut, then
  <2> QED
    BY <1>0, <2>1, <2>3, <2>4, BecomesStep
<1>2. CASE ResetEnds
  <2> DEFINE over == Stopped(window)
             prof == IF call.action = "mark" THEN "authenticated" ELSE profile
             first == FirstStep(call.action)
             then == [call EXCEPT !.step = first, !.calm = TRUE]
  <2>1. mode' = mode /\ (Becomes(over, profile, Idle) \/ Looks(mode, over, prof, then))
    BY <1>2 DEF ResetEnds
  <2>2. over \in Windows /\ over.live = {}
    <3>1. over = [Closed EXCEPT !.table = window.table, !.active = window.active]
      BY DEF Stopped
    <3>2. window.table \in Seq(TableEntries) /\ window.active \in Tabs \cup {0}
      BY <1>0, WindowFields
    <3>3. over \in Windows
      BY <3>1, <3>2, ClosedType, TableType
    <3> QED
      BY <3>1, <3>3, ClosedType DEF Windows
  <2>3. prof \in Profiles
    BY <1>0 DEF Profiles
  <2>4. first \in {"acting", "context"}
    BY DEF FirstStep
  <2> HIDE DEF first
  <2>5. then \in Calls /\ then.step \in {"acting", "context"}
    <3>1. then.step = first /\ then.again = call.again /\ then.calm /\ then.action = call.action
      BY <1>0 DEF Calls
    <3>2. then \in Calls
      BY <1>0, <2>4 DEF Calls
    <3> QED
      BY <2>4, <3>1, <3>2
  <2> HIDE DEF over, prof, then
  <2>6. Owned(over)
    BY <2>2 DEF Owned
  <2>7. CASE Becomes(over, profile, Idle)
    BY <1>0, <2>1, <2>2, <2>6, <2>7, BecomesStep
  <2>8. CASE Looks(mode, over, prof, then)
    BY <1>0, <2>1, <2>2, <2>3, <2>5, <2>6, <2>8, LooksStep
  <2> QED
    BY <2>1, <2>7, <2>8
<1>3. CASE ResetRaises
  <2>1. mode' = mode
    BY <1>3 DEF ResetRaises
  <2>2. ASSUME NEW w \in Windows, Owned(w), ResetFails(w) PROVE BrowserInv'
    <3>1. [w EXCEPT !.held = {}] \in Windows /\ Owned([w EXCEPT !.held = {}])
      BY <2>2, HoldsType
    <3>2. Becomes([w EXCEPT !.held = {}], profile, Idle)
      BY <2>2 DEF ResetFails
    <3> QED
      BY <1>0, <2>1, <3>1, <3>2, BecomesStep
  <2>3. ASSUME NEW done, ResetFails(ClosePages(window, done)) PROVE BrowserInv'
    <3>1. ClosePages(window, done) \in Windows /\ Owned(ClosePages(window, done))
      BY <1>0, ClosePagesType DEF Owned
    <3> QED
      BY <2>2, <2>3, <3>1
  <2>4. (\E done \in SUBSET window.held : ResetFails(ClosePages(window, done))) \/ ResetFails(window)
    BY <1>3 DEF ResetRaises
  <2> QED
    BY <1>0, <2>2, <2>3, <2>4
<1> QED
  BY <1>1, <1>2, <1>3

\* What pages and browsers do by themselves.
LEMMA EventStep ==
    ASSUME BrowserInv,
           \/ \E page \in Pages : Popup(page) \/ PageCloses(page) \/ PageCrashes(page)
           \/ \E browser \in Browsers : BrowserDies(browser)
    PROVE  BrowserInv'
<1>0. /\ mode \in AllModes /\ mode.block \in BOOLEAN /\ window \in Windows /\ Owned(window)
  BY DEF BrowserInv, BrowserTypeOK, NoOrphanBrowser, Owned, AllModes
<1>1. ASSUME NEW page \in Pages, Popup(page) PROVE BrowserInv'
  <2>1. FreePages(window) # {} /\ FreeTabs(window) # {}
    BY <1>0, <1>1, RoomLeft DEF Popup
  <2>2. window.open[page] \in Browsers
    BY <1>0, <1>1, WindowFields DEF Popup, OpenPages
  <2> DEFINE then == Opens(window, mode.block, window.open[page])
  <2>3. /\ then \in Windows /\ then.live = window.live /\ then.driver = window.driver
        /\ ~mode.block => HasActive(then)
    BY <1>0, <2>1, <2>2, OpensType
  <2>4. Happens(then, TRUE)
    BY <1>1 DEF Popup
  <2> HIDE DEF then
  <2>5. Owned(then)
    BY <1>0, <2>3 DEF Owned
  <2> QED
    BY <2>3, <2>4, <2>5, HappensStep
<1>2. ASSUME NEW w \in Windows, Happens(w, FALSE), Owned(w) PROVE BrowserInv'
  BY <1>2, HappensStep
<1>3. ASSUME NEW page \in Pages, PageCloses(page) PROVE BrowserInv'
  <2>1. Happens(ClosePages(window, {page}), FALSE)
    BY <1>3 DEF PageCloses
  <2>2. ClosePages(window, {page}) \in Windows /\ Owned(ClosePages(window, {page}))
    BY <1>0, ClosePagesType DEF Owned
  <2> QED
    BY <1>2, <2>1, <2>2
<1>4. ASSUME NEW page \in Pages, PageCrashes(page) PROVE BrowserInv'
  <2> DEFINE left == Dropped(window.table, TabsOfPage(window, page))
             then == [window EXCEPT !.table = left, !.active = First(left)]
  <2>1. Happens(then, FALSE)
    BY <1>4 DEF PageCrashes
  <2>2. left \in Seq(TableEntries)
    BY <1>0, WindowFields, DroppedType
  <2> HIDE DEF left
  <2>3. then \in Windows /\ Owned(then)
    BY <1>0, <2>2, FirstType, TableType DEF Windows, Owned
  <2> HIDE DEF then
  <2> QED
    BY <1>2, <2>1, <2>3
<1>5. ASSUME NEW browser \in Browsers, BrowserDies(browser) PROVE BrowserInv'
  <2> DEFINE left == ClosePages(window, {p \in Pages : window.open[p] = browser})
             others == [left EXCEPT !.live = @ \ {browser}]
  <2>1. Happens(others, FALSE)
    BY <1>5 DEF BrowserDies
  <2>2. left \in Windows /\ left.live = window.live /\ left.driver = window.driver
    BY <1>0, ClosePagesType
  <2> HIDE DEF left
  <2>3. others \in Windows /\ Owned(others)
    BY <1>0, <2>2 DEF Windows, Owned
  <2> HIDE DEF others
  <2> QED
    BY <1>2, <2>1, <2>3
<1> QED
  BY <1>1, <1>3, <1>4, <1>5

LEMMA BrowserStep ==
    ASSUME BrowserInv, [BrowserNext]_bvars
    PROVE  BrowserInv'
<1>1. CASE UNCHANGED bvars
  BY <1>1 DEF BrowserInv, BrowserTypeOK, Looked, NoOrphanBrowser, bvars, HasActive, TabsOf, PageAt
<1> QED
  BY <1>1, BeginsStep, GoesOnStep, ResetStep, EventStep DEF BrowserNext, Perform

LEMMA BrowserSound == BrowserSpec => []BrowserInv
<1>1. BrowserInit => BrowserInv
  <2> SUFFICES ASSUME BrowserInit PROVE BrowserInv
    OBVIOUS
  <2>1. mode \in AllModes /\ profile \in Profiles /\ window \in Windows
    BY ClosedType DEF BrowserInit, AllModes, Default, Profiles
  <2>2. call \in Calls /\ call.step = "idle"
    BY DEF BrowserInit, Idle, Call, Calls
  <2>3. NoOrphanBrowser
    BY ClosedType DEF BrowserInit, NoOrphanBrowser
  <2> QED
    BY <2>1, <2>2, <2>3 DEF BrowserInv, BrowserTypeOK, Looked
<1>2. BrowserInv /\ [BrowserNext]_bvars => BrowserInv'
  BY BrowserStep
<1> QED
  BY <1>1, <1>2, PTL DEF BrowserSpec

\* The window, the profile and the call stay of the kind the code gives them,
\* through every action and everything the pages do meanwhile.
THEOREM BrowserTypeCorrect == BrowserSpec => []BrowserTypeOK
<1>1. BrowserInv => BrowserTypeOK
  BY DEF BrowserInv
<1> QED
  BY <1>1, BrowserSound, PTL

\* While popups are allowed, an action that reports success leaves an active
\* tab of the table whose page is open, unless something closed, crashed or
\* died since the runtime last looked.
THEOREM BrowserSuccessOnOpenPage == BrowserSpec => []SuccessOnOpenPage
<1>1. BrowserInv => SuccessOnOpenPage
  BY DEF BrowserInv, Looked, SuccessOnOpenPage
<1> QED
  BY <1>1, BrowserSound, PTL

\* No browser process is left without the driver through which a close ends it,
\* whatever raised and whatever was forgotten.
THEOREM BrowserNoOrphan == BrowserSpec => []NoOrphanBrowser
<1>1. BrowserInv => NoOrphanBrowser
  BY DEF BrowserInv
<1> QED
  BY <1>1, BrowserSound, PTL

-------------------------------------------------------------------------
\* The profile.

\* Starting a browser outside setup mode finds an authenticated profile so.
LEMMA LooksKeepsAuthentication ==
    ASSUME NEW m, ~m.setup, NEW w, NEW c, Looks(m, w, "authenticated", c)
    PROVE  profile' = "authenticated"
<1>1. ASSUME NEW p \in EnsureStarted(m, w, "authenticated") PROVE p.profile = "authenticated"
  <2>1. Resolved(m, "authenticated") = "authenticated"
    BY DEF Resolved, AuthRequired, HasAuthState
  <2> QED
    BY <1>1, <2>1 DEF EnsureStarted, Outcome
<1> QED
  BY <1>1 DEF Looks, Becomes, Resets

LEMMA AuthenticationStep ==
    ASSUME [BrowserNext]_bvars, profile = "authenticated", ~mode'.setup
    PROVE  profile' = "authenticated"
<1>1. ASSUME NEW m \in Modes, Launch(m) PROVE profile' = "authenticated"
  BY <1>1, LooksKeepsAuthentication DEF Launch
<1>2. CASE Operate \/ NewTab \/ LooksAgain
  BY <1>2, LooksKeepsAuthentication DEF Operate, NewTab, LooksAgain
<1>3. CASE MarkAuthenticated
  BY <1>3, LooksKeepsAuthentication DEF MarkAuthenticated, Becomes
<1>4. CASE Refuse \/ Close \/ Answers \/ Raises \/ OpensTab
  BY <1>4 DEF Refuse, Close, Answers, Raises, OpensTab, Resets, Becomes
<1>5. ASSUME NEW tab \in Tabs, SwitchTab(tab) \/ CloseTab(tab) PROVE profile' = "authenticated"
  BY <1>5, LooksKeepsAuthentication DEF SwitchTab, CloseTab, Becomes
<1>6. CASE TabCloses
  BY <1>6, LooksKeepsAuthentication DEF TabCloses, Becomes
<1>7. CASE ResetPages \/ ResetRaises
  BY <1>7 DEF ResetPages, ResetRaises, ResetFails, Becomes
<1>8. CASE ResetEnds
  <2>1. \/ profile' = profile
        \/ \E c : Looks(mode, Stopped(window), "authenticated", c)
    BY <1>8 DEF ResetEnds, Becomes
  <2> QED
    BY <1>8, <2>1, LooksKeepsAuthentication DEF ResetEnds
<1>9. ASSUME NEW page \in Pages, Popup(page) \/ PageCloses(page) \/ PageCrashes(page)
      PROVE  profile' = "authenticated"
  BY <1>9 DEF Popup, PageCloses, PageCrashes, Happens
<1>10. ASSUME NEW browser \in Browsers, BrowserDies(browser) PROVE profile' = "authenticated"
  BY <1>10 DEF BrowserDies, Happens
<1>11. CASE UNCHANGED bvars
  BY <1>11 DEF bvars
<1> QED
  BY <1>1, <1>2, <1>3, <1>4, <1>5, <1>6, <1>7, <1>8, <1>9, <1>10, <1>11 DEF BrowserNext, Perform

\* No action, start of a browser or failure takes the authentication from a
\* profile outside setup mode.
THEOREM BrowserAuthenticationKept == BrowserSpec => AuthenticationKept
<1>1. [BrowserNext]_bvars
        => [profile = "authenticated" /\ profile' # "authenticated" => mode'.setup]_bvars
  BY AuthenticationStep
<1> QED
  BY <1>1, PTL DEF BrowserSpec, AuthenticationKept

=========================================================================
