-------------------------------- MODULE Gate --------------------------------
(***************************************************************************)
(* The login gate of internal/auth/auth.go, as one user with several tabs  *)
(* of one browser meets it.  Sessions are cookies that only the browser    *)
(* keeps; the state that ties a callback to its login is a cookie as well, *)
(* one for all tabs.  The identity provider is external: it may be down,   *)
(* and then neither discovery nor the exchange of a code works.            *)
(***************************************************************************)
EXTENDS Integers

CONSTANTS
  Tabs,        \* tabs of the browser
  MaxLogins,   \* bound: logins begun
  MaxOutages   \* bound: times the provider goes or comes back

ASSUME GateAssumption == MaxLogins \in Nat /\ MaxOutages \in Nat

VARIABLES
  loginRequired,  \* Config.enabled
  provider,       \* the identity provider can be reached
  ready,          \* Gate.provider is known
  outages,        \* times the provider went or came back
  issued,         \* OAuth states handed out so far; each is a number of its own
  stateCookie,    \* lo_oauth_state; 0 for none
  session,        \* lo_session: "none", "live" or "expired"
  tab,            \* where each tab is in a login, and the state it carries
  lapsed          \* the state cookie expired since the last login began (history)

gateVars == <<loginRequired, provider, ready, outages, issued, stateCookie, session, tab, lapsed>>

Away == [at |-> "away", state |-> 0]

\* The bound on logins counts so many that were abandoned.
GateInit(begun) ==
  /\ loginRequired \in BOOLEAN /\ provider \in {FALSE, loginRequired}
  /\ ready = FALSE /\ outages = 0 /\ issued = begun
  /\ stateCookie = 0 /\ session = "none"
  /\ tab = [t \in Tabs |-> Away]
  /\ lapsed = FALSE

-----------------------------------------------------------------------------
\* Tried once, when the process starts.
DiscoverOnce ==
  /\ loginRequired /\ ~ready /\ provider /\ outages = 0
  /\ ready' = TRUE
  /\ UNCHANGED <<loginRequired, provider, outages, issued, stateCookie, session, tab, lapsed>>

\* discoverUntilReady, which is started only when login is configured and tries
\* again until it succeeds.
Discover ==
  /\ loginRequired /\ ~ready /\ provider
  /\ ready' = TRUE
  /\ UNCHANGED <<loginRequired, provider, outages, issued, stateCookie, session, tab, lapsed>>

\* Login: a fresh state goes into the cookie and along to the provider.
Login(t) ==
  /\ ready /\ tab[t].at = "away" /\ issued < MaxLogins
  /\ issued' = issued + 1
  /\ stateCookie' = issued + 1 /\ lapsed' = FALSE
  /\ tab' = [tab EXCEPT ![t] = [at |-> "provider", state |-> issued + 1]]
  /\ UNCHANGED <<loginRequired, provider, ready, outages, session>>

\* The provider sends the signed-in user back (external).
SignIn(t) ==
  /\ tab[t].at = "provider" /\ provider
  /\ tab' = [tab EXCEPT ![t].at = "returning"]
  /\ UNCHANGED <<loginRequired, provider, ready, outages, issued, stateCookie, session, lapsed>>

\* It sends back a user who did not sign in, or with a code that gives no ID token the
\* gate can verify (external).
Deny(t) ==
  /\ tab[t].at = "provider" /\ provider
  /\ tab' = [tab EXCEPT ![t].at = "denied"]
  /\ UNCHANGED <<loginRequired, provider, ready, outages, issued, stateCookie, session, lapsed>>

\* The code that the tab brings back can be exchanged, and its ID token is valid.
Exchanges(t) == tab[t].at = "returning" /\ provider

\* The cookie is cleared before it is compared.
CallbackClearingFirst(t) ==
  /\ tab[t].at \in {"returning", "denied"}
  /\ tab' = [tab EXCEPT ![t] = Away]
  /\ stateCookie' = IF ready THEN 0 ELSE stateCookie
  /\ session' = IF ready /\ tab[t].state = stateCookie /\ Exchanges(t) THEN "live" ELSE session
  /\ UNCHANGED <<loginRequired, provider, ready, outages, issued, lapsed>>

\* Callback: 503 before discovery, 400 for another state than the cookie's, which
\* then stays; otherwise the cookie is spent, and the code exchanged if it can be.
Callback(t) ==
  /\ tab[t].at \in {"returning", "denied"}
  /\ tab' = [tab EXCEPT ![t] = Away]
  /\ IF ready /\ tab[t].state = stateCookie
       THEN stateCookie' = 0 /\ session' = IF Exchanges(t) THEN "live" ELSE session
       ELSE UNCHANGED <<stateCookie, session>>
  /\ UNCHANGED <<loginRequired, provider, ready, outages, issued, lapsed>>

Logout ==
  /\ session' = "none" /\ session # "none"
  /\ UNCHANGED <<loginRequired, provider, ready, outages, issued, stateCookie, tab, lapsed>>

\* Require lets a request pass; verifySession needs neither the provider nor
\* discovery, only the key all processes share.
PassesRequire == ~loginRequired \/ session = "live"

-----------------------------------------------------------------------------
\* sessionTTL and stateTTL pass.
SessionExpires ==
  /\ session = "live" /\ session' = "expired"
  /\ UNCHANGED <<loginRequired, provider, ready, outages, issued, stateCookie, tab, lapsed>>

StateExpires ==
  /\ stateCookie # 0 /\ stateCookie' = 0 /\ lapsed' = TRUE
  /\ UNCHANGED <<loginRequired, provider, ready, outages, issued, session, tab>>

\* The provider goes or comes back (external); without login there is none.
ProviderChanges ==
  /\ loginRequired /\ outages < MaxOutages /\ outages' = outages + 1
  /\ provider' = ~provider
  /\ UNCHANGED <<loginRequired, ready, issued, stateCookie, session, tab, lapsed>>

\* A new controller process has to discover the provider again.
GateRestart ==
  /\ ready' = FALSE
  /\ UNCHANGED <<loginRequired, provider, outages, issued, stateCookie, session, tab, lapsed>>
=============================================================================
