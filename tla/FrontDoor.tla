------------------------------ MODULE FrontDoor ------------------------------
(***************************************************************************)
(* ServeHTTP of internal/controller/server.go: what of the controller can  *)
(* be reached with what.  The login handlers and the capture proxy answer  *)
(* anyone, the proxy by its own token; what users do with captures and     *)
(* their settings passes the gate first.  Gate and Captures are composed   *)
(* here, on one controller process.                                        *)
(***************************************************************************)
EXTENDS Gate, Captures

VARIABLES
  registered,  \* the target of the captures is registered (store.targets)
  entered      \* a session was live at some time (history)

vars == <<gateVars, captureVars, registered, entered>>

\* So much of the bounds is used up when the exploration begins.
InitAfter(logins, calls, updates) ==
  GateInit(logins) /\ CapturesInit(calls, updates) /\ registered = TRUE /\ entered = FALSE

Init == InitAfter(0, 0, 0)

\* Open to everyone: /auth/ and, with the capture token, /capture/.
Public ==
  \/ /\ \E t \in Tabs : Login(t) \/ SignIn(t) \/ Deny(t) \/ Callback(t)
     /\ UNCHANGED captureVars
  \/ Logout /\ UNCHANGED captureVars
  \/ /\ \/ \E c \in Calls, client \in Clients, token \in Tokens : Admit(c, client, token)
        \/ \E c \in Calls : Forward(c, registered) \/ Record(c)
     /\ UNCHANGED gateVars

\* The routes of serveHumanAPI that concern captures; a settings update that has
\* passed the gate goes on although the session ends.
HumanAPI ==
  \/ /\ PassesRequire
     /\ \/ \E u \in Updates, input \in Inputs : ReadSettings(u, input)
        \/ \E id \in DOMAIN captures : DeleteCapture(id)
     /\ UNCHANGED gateVars
  \/ /\ \E u \in Updates : WriteSettings(u)
     /\ UNCHANGED gateVars

\* DeleteTarget, for a target without active runs.
DeleteTarget ==
  /\ PassesRequire /\ registered /\ registered' = FALSE
  /\ UNCHANGED <<gateVars, captureVars, entered>>

Surroundings ==
  \/ (Discover \/ SessionExpires \/ StateExpires \/ ProviderChanges) /\ UNCHANGED captureVars
  \/ Tick /\ UNCHANGED gateVars
  \/ GateRestart /\ CapturesRestart

Next ==
  \/ /\ Public \/ HumanAPI \/ Surroundings
     /\ entered' = (entered \/ session' = "live")
     /\ UNCHANGED registered
  \/ DeleteTarget

Fairness == WF_gateVars(Discover)

Spec == Init /\ [][Next]_vars /\ Fairness

-----------------------------------------------------------------------------
(***************************************************************************)
(* Properties.                                                             *)
(***************************************************************************)
\* "A bounded history prevents a forgotten capture client from growing the
\* snapshot forever" (RecordCapture): no more sessions, and no longer ones, than
\* the largest limits that were ever in force, with requests that end in any
\* order and limits that are lowered under them.
SessionsStayBounded ==
  /\ Cardinality(DOMAIN captures) <= largest.retention
  /\ \A id \in DOMAIN captures : Len(captures[id].events) <= largest.events

\* RecordCapture splits a session after an idle period, and later requests of the
\* same client cannot bring two requests that are further apart together again.
EventsBelongTogether ==
  \A id \in DOMAIN captures : \A i \in 2 .. Len(captures[id].events) :
    captures[id].events[i].gap <= captures[id].events[i].idle

\* What a replay of a session waits between its requests: RecordCapture counts an
\* event's time from the session's start, in the order in which the answers came.
\* A client that sends one request after the other is replayed in its order, and
\* each request no sooner than the answer before it.
SerialClientsReplayInOrder ==
  \A id \in DOMAIN captures : id[2] \notin hurried =>
    LET events == captures[id].events
    IN  \A i \in DOMAIN events :
          /\ events[i].time >= 0
          /\ i > 1 => events[i].time >= events[i - 1].time + events[i - 1].latency

\* A session that RecordCapture evicts for a new one was updated no later than any
\* that it keeps.
EvictionTakesTheOldest ==
  [][\A id \in DOMAIN captures \ DOMAIN captures' : DOMAIN captures' \ DOMAIN captures # {} =>
       \A other \in DOMAIN captures \cap DOMAIN captures' :
         captures[id].updated <= captures[other].updated]_vars

\* updateCaptureSettings reads the settings and writes them back in two store
\* calls.  As long as no two updates cross, the token in the store is the last one
\* that was given; updates without a token keep it, also over a restart.
TokenChangesSurvive == ~crossed => settings.token = acked

\* Logins in several tabs share one state cookie.  The login begun last finds its state
\* there, whatever the callbacks of the others do before, unless its five minutes pass.
LatestLoginCompletes ==
  \A t \in Tabs : tab[t].at # "away" /\ tab[t].state = issued /\ ~lapsed => stateCookie = issued

\* Where login is required, captures are deleted, settings changed and the target
\* deleted only after someone has signed in; a session may only make room for another.
HumanActionsNeedASession ==
  [][loginRequired /\ ~entered =>
       /\ UNCHANGED <<settings, registered>>
       /\ DOMAIN captures \ DOMAIN captures' # {} => DOMAIN captures' \ DOMAIN captures # {}]_vars

\* discoverUntilReady: with the identity provider back for good, login works.
DiscoverySettles == <>[](loginRequired /\ provider => ready)
=============================================================================
