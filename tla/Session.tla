------------------------------- MODULE Session -------------------------------
(***************************************************************************)
(* The web application (apps/web/src/auth): a page finds out whether the   *)
(* server wants a login and whether the token in localStorage is still     *)
(* good, shows the login form or a dashboard, and forgets the session at a *)
(* logout.  The dashboard is Dashboard.tla; its settings outlive it, and   *)
(* the requests it made do so too.                                         *)
(*                                                                         *)
(* At most one request about the session itself is in flight: the form's   *)
(* button is disabled while a login is (auth/view.ts).  The answer of POST *)
(* /auth/logout is ignored by all.                                         *)
(***************************************************************************)

EXTENDS Dashboard

VARIABLES
  stage,        \* the tag of the Model; LoggedIn without a session is "Guest"
  request,      \* the request about the session that is in flight
  stored,       \* whether localStorage has a token
  left          \* whether the last session was ended, and its token cleared (history)

auth == <<stage, request, stored, left>>
vars == <<dashboard, speedtest, flights, storage, auth>>

LoggedIn == {"Guest", "User"}

TypeOK ==
  /\ DashboardTypes
  /\ stage \in {"Checking", "LoggedOut"} \cup LoggedIn
  /\ request \in {"none", "status", "me", "login"}
  /\ stored \in BOOLEAN
  /\ left \in BOOLEAN

\* The page is loaded with what localStorage has: init and readFlags.
Init ==
  /\ saved \in Settings
  /\ saveFailed = FALSE
  /\ dateRange = saved.dateRange
  /\ isPaused = saved.isPaused
  /\ theme = saved.theme
  /\ isIdle = FALSE
  /\ known = FALSE
  /\ tag = [s \in Slots |-> "Idle"]
  /\ shown = [s \in Slots |-> NoData]
  /\ window = [s \in Charted |-> NoData]
  /\ trigger = "Idle"
  /\ mounted = {}
  /\ painted = [s \in Charted |-> NoData]
  /\ fetches = [s \in Slots |-> [q \in Queries |-> 0]]
  /\ asking = 0
  /\ testing = 0
  /\ stage = "Checking"
  /\ request = "status"
  /\ stored \in BOOLEAN
  /\ left = FALSE

\* Writing or clearing the token works or is refused, which nobody looks at.
Stores(there) == stored' = there \/ ("token" \in Refused /\ UNCHANGED stored)

SaveSession ==
  /\ Stores(TRUE)
  /\ left' = FALSE

ClearSession ==
  /\ Stores(FALSE)
  /\ left' = ~stored'

\* A dashboard begins the same way for a guest, a stored session and a login.
EnterLoggedIn(who) ==
  /\ request' = "none"
  /\ stage' = who
  /\ Enter

-----------------------------------------------------------------------------
(* The page finds out who is there.                                        *)

\* The page is loaded again: nothing but localStorage survives.
LoadPage ==
  /\ Blank("Idle")
  /\ dateRange' = saved.dateRange
  /\ isPaused' = saved.isPaused
  /\ theme' = saved.theme
  /\ fetches' = [s \in Slots |-> [q \in Queries |-> 0]]
  /\ asking' = 0
  /\ testing' = 0
  /\ stage' = "Checking"
  /\ request' = "status"
  /\ UNCHANGED <<storage, stored, left>>

\* SucceededFetchAuthStatus: without authentication the dashboard is entered;
\* with it the stored token decides, once the server has been asked about it.
SucceededFetchAuthStatus(authRequired) ==
  /\ request = "status"
  /\ \/ ~authRequired /\ EnterLoggedIn("Guest")
     \/ /\ authRequired /\ ~stored
        /\ stage' = "LoggedOut"
        /\ request' = "none"
        /\ UNCHANGED <<dashboard, speedtest, flights>>
     \/ /\ authRequired /\ stored
        /\ request' = "me"
        /\ UNCHANGED <<dashboard, speedtest, flights, stage>>
  /\ UNCHANGED <<storage, stored, left>>

FailedFetchAuthStatus ==
  /\ request = "status"
  /\ request' = "none"
  /\ stage' = "LoggedOut"
  /\ UNCHANGED <<dashboard, speedtest, flights, storage, stored, left>>

SucceededFetchMe ==
  /\ request = "me"
  /\ EnterLoggedIn("User")
  /\ UNCHANGED <<storage, stored, left>>

\* Any failure is taken for a token that is no longer good.
FailedFetchMe ==
  /\ request = "me"
  /\ request' = "none"
  /\ stage' = "LoggedOut"
  /\ ClearSession
  /\ UNCHANGED <<dashboard, speedtest, flights, storage>>

-----------------------------------------------------------------------------
(* The user logs in and out.                                               *)

SubmittedLogin ==
  /\ stage = "LoggedOut"
  /\ request = "none"
  /\ request' = "login"
  /\ UNCHANGED <<dashboard, speedtest, flights, storage, stage, stored, left>>

SucceededLogin ==
  /\ request = "login"
  /\ EnterLoggedIn("User")
  /\ SaveSession
  /\ UNCHANGED storage

FailedLogin ==
  /\ request = "login"
  /\ request' = "none"
  /\ UNCHANGED <<dashboard, speedtest, flights, storage, stage, stored, left>>

\* Mutant: the session ends in the model only.
ClickedLogoutKeepsToken ==
  /\ stage \in LoggedIn
  /\ stage' = "LoggedOut"
  /\ left' = TRUE
  /\ Leave
  /\ UNCHANGED <<storage, request, stored>>

\* The settings stay with the login form; the token is cleared.
ClickedLogout ==
  /\ stage \in LoggedIn
  /\ stage' = "LoggedOut"
  /\ Leave
  /\ ClearSession
  /\ UNCHANGED <<storage, request>>

-----------------------------------------------------------------------------
(* The dashboard's messages.                                               *)

\* GotDashboardMessage hands a message to the dashboard there is.
GotDashboardMessage ==
  /\ stage \in LoggedIn
  /\ Update
  /\ UNCHANGED auth

\* Without a dashboard the message of a response is dropped.
Dropped(s, q) ==
  /\ stage \notin LoggedIn
  /\ Answered(s, q)
  /\ UNCHANGED <<dashboard, asking, speedtest, storage, auth>>

DroppedOther ==
  /\ stage \notin LoggedIn
  /\ \/ AnsweredEarliestData /\ UNCHANGED testing
     \/ AnsweredTrigger /\ UNCHANGED asking
  /\ UNCHANGED <<dashboard, fetches, trigger, storage, auth>>

-----------------------------------------------------------------------------
Next ==
  \/ LoadPage
  \/ \E authRequired \in BOOLEAN : SucceededFetchAuthStatus(authRequired)
  \/ FailedFetchAuthStatus
  \/ SucceededFetchMe \/ FailedFetchMe
  \/ SubmittedLogin \/ SucceededLogin \/ FailedLogin
  \/ ClickedLogout
  \/ GotDashboardMessage
  \/ \E s \in Slots, q \in Queries : Dropped(s, q)
  \/ DroppedOther

Spec == Init /\ [][Next]_vars

FetchEnds(s) ==
  \E q \in Queries :
    Dropped(s, q) \/ (stage \in LoggedIn /\ Answer(s, q) /\ UNCHANGED auth)

\* The tick fires, and requests end (the browser gives up on them otherwise): those
\* of a slot one after another, in whatever order.
Fairness ==
  /\ \A s \in Slots : WF_vars(FetchEnds(s))
  /\ WF_vars(stage \in LoggedIn /\ TickedRefresh /\ UNCHANGED auth)

FairSpec == Spec /\ Fairness

-----------------------------------------------------------------------------
(* Correctness.                                                            *)

\* A session that was ended stays ended: once its token is cleared only a login
\* leads to a dashboard of a user again, whatever page loads, failures and late
\* answers come first.
EndedSessionsStayEnded == left => stage # "User" /\ ~stored

\* A page load, a logout or a login shows the dashboard with the settings the user
\* saw last, unless localStorage refused them.
SettingsSurvive ==
  [][~saveFailed /\ ~UNCHANGED auth => UNCHANGED <<dateRange, isPaused, theme>>]_vars

\* Ticks end up with the data of the selected range: once the user leaves the
\* range alone and keeps the dashboard open and awake, a slot whose fetches succeed
\* ends up with the current query's data, whatever responses were on their way.
RefreshConverges ==
  /\ <>[][UNCHANGED <<dateRange, known>>]_vars
  /\ <>[](stage \in LoggedIn /\ ~isPaused /\ ~isIdle)
  => \A s \in Slots :
       <>[](tag[s] \notin {"Failure", "Stale"}) => <>[](shown[s] \in {NoData, Current(s)})

=============================================================================
