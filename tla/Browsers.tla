------------------------------ MODULE Browsers ------------------------------
(***************************************************************************)
(* The browser tool (tools/browser/tool.py) under requests that overlap:   *)
(* sessions that are launched and closed, pages that are opened in them,   *)
(* and the tool that is stopped, which its wrapper in                      *)
(* tools/registration.py calls shutdown.  A session has a browser, a       *)
(* context in it, and one page in its table that the other operations      *)
(* (click, fill, screenshot...) work on; these change nothing here.        *)
(*                                                                         *)
(* Only close_session and stop take the lock, and stop calls the other     *)
(* with the lock in its hands.                                             *)
(***************************************************************************)
EXTENDS Naturals, FiniteSets, FiniteSetsExt

CONSTANTS
  BrUser,    \* requests that overlap
  BrSession, \* ids of sessions
  BrPages,   \* bound: pages that are open or still referred to, 1..BrPages
  BrDrivers, \* bound: drivers of Playwright that run, 1..BrDrivers
  BrNobody   \* the lock is free

ASSUME BrAssumption ==
  /\ BrNobody \notin BrUser \cup BrSession
  /\ BrPages \in Nat /\ BrDrivers \in Nat

VARIABLES
  brDriver,  \* _playwright: a driver, or 0 (None)
  brRunning, \* drivers whose process runs
  brTable,   \* _sessions: session to its page, or 0 (None)
  brBrowser, \* browsers that run, with their driver
  brContext, \* sessions whose context is open
  brOpen,    \* open pages, with their session
  brLock,
  brReq,     \* the requests: where each waits, for which session, with which page or driver
  brTouched  \* sessions that an exception or a stop went through

brVars == <<brDriver, brRunning, brTable, brBrowser, brContext, brOpen, brLock, brReq, brTouched>>

BrIdle == [at |-> "idle", s |-> BrNobody, page |-> 0, driver |-> 0]

BrInit ==
  /\ brDriver = 0 /\ brRunning = {}
  /\ brTable = << >> /\ brBrowser = << >> /\ brContext = {} /\ brOpen = << >>
  /\ brLock = BrNobody
  /\ brReq = [a \in BrUser |-> BrIdle]
  /\ brTouched = {}

BrAt(a, at) == brReq[a].at = at
BrTo(a, at) == brReq' = [brReq EXCEPT ![a].at = at]
BrReturn(a) == brReq' = [brReq EXCEPT ![a] = BrIdle]

BrLess(f, S) == [x \in DOMAIN f \ S |-> f[x]]
BrWith(f, k, v) == [x \in DOMAIN f \cup {k} |-> IF x = k THEN v ELSE f[x]]

\* An id that nothing has or waits for, and a page.
BrFreshSession(s) == s \notin DOMAIN brTable \cup DOMAIN brBrowser /\ \A a \in BrUser : brReq[a].s # s
BrFreshPage(p) ==
  p \notin DOMAIN brOpen /\ (\A s \in DOMAIN brTable : brTable[s] # p) /\ \A a \in BrUser : brReq[a].page # p

(***************************************************************************)
(* launch_browser                                                          *)
(***************************************************************************)
BrLaunchWith(a, s, driver) ==
  /\ BrFreshSession(s)
  /\ brReq' = [brReq EXCEPT ![a] = [at |-> "launching", s |-> s, page |-> 0, driver |-> driver]]
  /\ brTouched' = brTouched \ {s}

BrLaunch(a) ==
  /\ BrAt(a, "idle")
  /\ IF brDriver = 0
       THEN BrTo(a, "starting") /\ UNCHANGED brTouched
       ELSE \E s \in BrSession : BrLaunchWith(a, s, brDriver)
  /\ UNCHANGED <<brDriver, brRunning, brTable, brBrowser, brContext, brOpen, brLock>>

\* start: of two that find no driver each starts one, and the second is kept.  The id
\* of the session is made afterwards.
BrStarted(a) ==
  /\ BrAt(a, "starting") /\ (1..BrDrivers) \ brRunning # {}
  /\ LET d == Min((1..BrDrivers) \ brRunning) IN
       /\ brDriver' = d /\ brRunning' = brRunning \cup {d}
       /\ \E s \in BrSession : BrLaunchWith(a, s, d)
  /\ UNCHANGED <<brTable, brBrowser, brContext, brOpen, brLock>>

BrLaunched(a) ==
  /\ BrAt(a, "launching") /\ brReq[a].driver \in brRunning
  /\ brBrowser' = BrWith(brBrowser, brReq[a].s, brReq[a].driver)
  /\ BrTo(a, "context")
  /\ UNCHANGED <<brDriver, brRunning, brTable, brContext, brOpen, brLock, brTouched>>

BrContextMade(a) ==
  /\ BrAt(a, "context") /\ brReq[a].s \in DOMAIN brBrowser
  /\ brContext' = brContext \cup {brReq[a].s}
  /\ brTable' = BrWith(brTable, brReq[a].s, 0)
  /\ BrReturn(a)
  /\ UNCHANGED <<brDriver, brRunning, brBrowser, brOpen, brLock, brTouched>>

(***************************************************************************)
(* open_page, which looks the session up once and never at the lock        *)
(***************************************************************************)
BrOpenPage(a, s) ==
  /\ BrAt(a, "idle") /\ s \in DOMAIN brTable
  /\ brReq' = [brReq EXCEPT ![a] = [at |-> IF brTable[s] = 0 THEN "open_new" ELSE "open_close",
                                    s |-> s, page |-> brTable[s], driver |-> 0]]
  /\ UNCHANGED <<brDriver, brRunning, brTable, brBrowser, brContext, brOpen, brLock, brTouched>>

BrPageClosed(a) ==
  /\ BrAt(a, "open_close")
  /\ brOpen' = BrLess(brOpen, {brReq[a].page})
  /\ brReq' = [brReq EXCEPT ![a].at = "open_new", ![a].page = 0]
  /\ UNCHANGED <<brDriver, brRunning, brTable, brBrowser, brContext, brLock, brTouched>>

BrNewPage(a) ==
  /\ BrAt(a, "open_new") /\ brReq[a].s \in brContext
  /\ \E p \in 1..BrPages : BrFreshPage(p)
  /\ LET p == Min({q \in 1..BrPages : BrFreshPage(q)}) IN
       /\ brOpen' = BrWith(brOpen, p, brReq[a].s)
       /\ brReq' = [brReq EXCEPT ![a].at = "open_goto", ![a].page = p]
  /\ UNCHANGED <<brDriver, brRunning, brTable, brBrowser, brContext, brLock, brTouched>>

BrWentTo(a) ==
  /\ BrAt(a, "open_goto") /\ brReq[a].page \in DOMAIN brOpen
  /\ brTable' = IF brReq[a].s \in DOMAIN brTable THEN [brTable EXCEPT ![brReq[a].s] = brReq[a].page] ELSE brTable
  /\ BrReturn(a)
  /\ UNCHANGED <<brDriver, brRunning, brBrowser, brContext, brOpen, brLock, brTouched>>

(***************************************************************************)
(* close_session and stop                                                  *)
(***************************************************************************)
BrClose(a, s) ==
  /\ BrAt(a, "idle")
  /\ brReq' = [brReq EXCEPT ![a] = [at |-> "close_lock", s |-> s, page |-> 0, driver |-> 0]]
  /\ UNCHANGED <<brDriver, brRunning, brTable, brBrowser, brContext, brOpen, brLock, brTouched>>

\* With the lock: a session that is gone is not closed again.
BrCloseLocked(a) ==
  LET s == brReq[a].s IN
  /\ BrAt(a, "close_lock") /\ brLock = BrNobody
  /\ IF s \in DOMAIN brTable
       THEN /\ brLock' = a
            /\ brReq' = [brReq EXCEPT ![a].at = IF brTable[s] = 0 THEN "close_context" ELSE "close_page",
                                      ![a].page = brTable[s]]
       ELSE /\ BrReturn(a) /\ UNCHANGED brLock
  /\ UNCHANGED <<brDriver, brRunning, brTable, brBrowser, brContext, brOpen, brTouched>>

BrClosePage(a) ==
  /\ BrAt(a, "close_page")
  /\ brOpen' = BrLess(brOpen, {brReq[a].page})
  /\ brReq' = [brReq EXCEPT ![a].at = "close_context", ![a].page = 0]
  /\ UNCHANGED <<brDriver, brRunning, brTable, brBrowser, brContext, brLock, brTouched>>

\* The pages of a context go with it, and the context with its browser.
BrPagesOf(S) == {p \in DOMAIN brOpen : brOpen[p] \in S}

BrCloseContext(a) ==
  /\ BrAt(a, "close_context")
  /\ brContext' = brContext \ {brReq[a].s}
  /\ brOpen' = BrLess(brOpen, BrPagesOf({brReq[a].s}))
  /\ BrTo(a, "close_browser")
  /\ UNCHANGED <<brDriver, brRunning, brTable, brBrowser, brLock, brTouched>>

BrCloseBrowser(a) ==
  /\ BrAt(a, "close_browser")
  /\ brBrowser' = BrLess(brBrowser, {brReq[a].s})
  /\ brTable' = BrLess(brTable, {brReq[a].s})
  /\ brLock' = BrNobody
  /\ BrReturn(a)
  /\ UNCHANGED <<brDriver, brRunning, brContext, brOpen, brTouched>>

BrStop(a) ==
  /\ BrAt(a, "idle")
  /\ BrTo(a, "stop_lock")
  /\ UNCHANGED <<brDriver, brRunning, brTable, brBrowser, brContext, brOpen, brLock, brTouched>>

\* stop calls close_session for every session, which waits for the lock that stop holds.
BrStopLocked(a) ==
  /\ BrAt(a, "stop_lock") /\ brLock = BrNobody
  /\ IF brTable # << >> \/ brDriver # 0
       THEN /\ brLock' = a
            /\ brReq' = [brReq EXCEPT ![a].at = IF brTable # << >> THEN "stuck" ELSE "stop_driver", ![a].driver = brDriver]
       ELSE /\ BrReturn(a) /\ UNCHANGED brLock
  /\ UNCHANGED <<brDriver, brRunning, brTable, brBrowser, brContext, brOpen, brTouched>>

\* The browsers of a driver end with it, those of sessions that were launched while
\* the driver was stopped too; such a session stays in the table.
BrDriverStopped(a) ==
  LET its == {s \in DOMAIN brBrowser : brBrowser[s] = brReq[a].driver} IN
  /\ BrAt(a, "stop_driver")
  /\ brRunning' = brRunning \ {brReq[a].driver} /\ brDriver' = 0
  /\ brBrowser' = BrLess(brBrowser, its)
  /\ brContext' = brContext \ its
  /\ brOpen' = BrLess(brOpen, BrPagesOf(its))
  /\ brTouched' = brTouched \cup its
  /\ brLock' = BrNobody
  /\ BrReturn(a)
  /\ UNCHANGED brTable

\* A call of Playwright raises, and the request with it.  Nothing is undone.
BrRaises(a) ==
  /\ ~BrAt(a, "idle") /\ ~BrAt(a, "close_lock") /\ ~BrAt(a, "stop_lock") /\ ~BrAt(a, "stuck")
  /\ brLock' = IF brLock = a THEN BrNobody ELSE brLock
  /\ brTouched' = IF brReq[a].s = BrNobody THEN brTouched ELSE brTouched \cup {brReq[a].s}
  /\ BrReturn(a)
  /\ UNCHANGED <<brDriver, brRunning, brTable, brBrowser, brContext, brOpen>>

BrStep(a) ==
  \/ BrStarted(a) \/ BrLaunched(a) \/ BrContextMade(a)
  \/ BrPageClosed(a) \/ BrNewPage(a) \/ BrWentTo(a)
  \/ BrCloseLocked(a) \/ BrClosePage(a) \/ BrCloseContext(a) \/ BrCloseBrowser(a)
  \/ BrStopLocked(a) \/ BrDriverStopped(a) \/ BrRaises(a)

BrNext ==
  \E a \in BrUser :
    \/ BrStep(a) \/ BrStop(a) \/ BrLaunch(a)
    \/ \E s \in BrSession : BrOpenPage(a, s) \/ BrClose(a, s)
-----------------------------------------------------------------------------
BrTypeOK ==
  /\ brDriver \in 0..BrDrivers /\ brRunning \subseteq 1..BrDrivers
  /\ DOMAIN brTable \subseteq BrSession /\ DOMAIN brBrowser \subseteq BrSession
  /\ DOMAIN brOpen \subseteq 1..BrPages
  /\ \A a \in BrUser : brReq[a].at = "stuck" => brLock = a
  /\ brTouched \subseteq BrSession

\* What is closed is closed: whatever was opened in a session while it was being
\* closed, no context and no page is left of one that is out of the table, and its
\* browser only if no context could be made in it.
BrClosedIsClosed ==
  /\ brContext \subseteq DOMAIN brTable
  /\ \A p \in DOMAIN brOpen : brOpen[p] \in brContext
  /\ \A s \in DOMAIN brBrowser \ DOMAIN brTable : s \in brTouched \/ \E a \in BrUser : brReq[a].s = s /\ BrAt(a, "context")

BrBusyWith(s, ats) == \E a \in BrUser : brReq[a].s = s /\ brReq[a].at \in ats

\* A session that is listed has a browser that runs, and its page is open or about to
\* be replaced, unless an exception went through a request for it or the tool was
\* stopped while it was launched.  (Of two openings that overlap, the page of the
\* first stays open beside.)
BrListedRuns ==
  \A s \in DOMAIN brTable \ brTouched :
    /\ s \in DOMAIN brBrowser
    /\ s \in brContext \/ BrBusyWith(s, {"close_browser"})
    /\ \/ brTable[s] \in DOMAIN brOpen \cup {0}
       \/ BrBusyWith(s, {"open_new", "open_goto", "close_context", "close_browser"})

\* The driver that the tool launches with runs.
BrDriverRuns == brDriver # 0 => brDriver \in brRunning

BrSound == BrClosedIsClosed /\ BrListedRuns /\ BrDriverRuns

\* Every request ends, unless the tool was stopped while it had a session: then that
\* stop never does, and nothing can be closed any more.
BrEnds ==
  \A a \in BrUser :
    (brReq[a].at # "idle") ~> (brReq[a].at = "idle" \/ \E b \in BrUser : brReq[b].at = "stuck")
=============================================================================
