------------------------------ MODULE Captures ------------------------------
(***************************************************************************)
(* The capture proxy: the requests of coding agents that                   *)
(* captureCompletion (internal/controller/capture.go) forwards to a model  *)
(* and records, the sessions that RecordCapture (internal/store/store.go)  *)
(* makes of them, and the settings that users change.  A request and a     *)
(* settings update read the settings in one store call and act on them in  *)
(* a later one.                                                            *)
(*                                                                         *)
(* A client is a target and a session header.  A session's ID is a hash of *)
(* its client with a salt that every controller process draws anew (epoch),*)
(* followed by the start of the session where an idle period split it off. *)
(* Tokens are compared as such.  Token counts and metadata are left out;   *)
(* the settings of a replay, which the controller only keeps, too.         *)
(***************************************************************************)
EXTENDS Integers, FiniteSets, Sequences

CONSTANTS
  Clients,     \* targets with session headers
  Tokens,      \* capture tokens
  EnvToken,    \* CAPTURE_PROXY_TOKEN, or None
  Default,     \* defaultCaptureSettings
  Inputs,      \* settings users may submit; their token may be None
  MaxCalls,    \* bound: requests to the proxy; they are numbered
  MaxUpdates,  \* bound: PUT requests for the settings; they are numbered
  MaxTime,     \* bound: the clock
  MaxEpoch,    \* bound: restarts of the controller
  None

Limit == [enabled : BOOLEAN, token : Tokens \cup {None}, idle : Nat, events : Nat \ {0},
          retention : Nat \ {0}]

ASSUME CapturesAssumption ==
  /\ None \notin Tokens /\ EnvToken \in Tokens \cup {None}
  /\ MaxCalls \in Nat /\ MaxUpdates \in Nat /\ MaxTime \in Nat /\ MaxEpoch \in Nat
  /\ Inputs \subseteq Limit /\ Default \in Limit
  /\ Default.enabled /\ Default.token = None

VARIABLES
  now,         \* the clock
  epoch,       \* the controller process, and its captureSalt
  settings,    \* store.captureSettings
  captures,    \* store.captures: from <<epoch, client, split>> to [started, updated,
               \* events]; split is -1, or the start of a session that was split off
  call,        \* how far each request to the proxy has come
  update,      \* how far each settings update has come
  largest,     \* largest limits that were in force (history)
  acked,       \* the token of the last update that gave one (history)
  crossed,     \* two updates were under way at once (history)
  hurried      \* clients that had two requests under way at once (history)

captureVars == <<now, epoch, settings, captures, call, update, largest, acked, crossed, hurried>>

-----------------------------------------------------------------------------
Calls   == 1 .. MaxCalls
Updates == 1 .. MaxUpdates

\* gap and idle are history: the time since the session's update, and the limit.
Event   == [time : Int, latency : Nat, gap : Int, idle : Nat]
Session == [started : 0 .. MaxTime, updated : 0 .. MaxTime, events : Seq(Event)]

NewCall == [at |-> "new", client |-> None, started |-> 0]
NewUpdate == [at |-> "new", settings |-> Default, given |-> None]

\* Over: the request has its answer.
Done(request) == [request EXCEPT !.at = "done"]

\* The bounds on requests count so many that came and left nothing behind.
CapturesInit(calls, updates) ==
  /\ now = 0 /\ epoch = 0
  /\ settings = Default
  /\ captures = [id \in {} |-> 0]
  /\ call = [c \in Calls |-> IF c <= calls THEN Done(NewCall) ELSE NewCall]
  /\ update = [u \in Updates |-> IF u <= updates THEN Done(NewUpdate) ELSE NewUpdate]
  /\ largest = [events |-> Default.events, retention |-> Default.retention]
  /\ acked = None /\ crossed = FALSE /\ hurried = {}

-----------------------------------------------------------------------------
(***************************************************************************)
(* Requests to the proxy.                                                  *)
(***************************************************************************)
\* captureCredentials.  Settings that nobody changed are the default ones, which
\* are enabled as soon as there is a token.
TokenInForce == IF settings.token = None THEN EnvToken ELSE settings.token
ProxyEnabled == settings.enabled /\ TokenInForce # None

\* A request with the right token is let in.
Admit(c, client, token) ==
  /\ call[c].at = "new" /\ \A d \in 1 .. c - 1 : call[d].at # "new"
  /\ ProxyEnabled /\ token = TokenInForce
  /\ call' = [call EXCEPT ![c] = [at |-> "admitted", client |-> client, started |-> 0]]
  /\ hurried' = IF \E other \in Calls :
                     call[other].client = client /\ call[other].at \in {"admitted", "upstream"}
                  THEN hurried \cup {client} ELSE hurried
  /\ UNCHANGED <<now, epoch, settings, captures, update, largest, acked, crossed>>

\* The target of the request is (still) registered, or not: 404.
Forward(c, registered) ==
  /\ call[c].at = "admitted"
  /\ call' = [call EXCEPT ![c] = IF registered
                                    THEN [at |-> "upstream", client |-> @.client, started |-> now]
                                    ELSE Done(NewCall)]
  /\ UNCHANGED <<now, epoch, settings, captures, update, largest, acked, crossed, hurried>>

\* A session that was quiet for too long goes on under one further ID.
SessionIdReused(client, started) ==
  LET first == <<epoch, client, -1>>
  IN  IF first \in DOMAIN captures /\ started - captures[first].updated > settings.idle
        THEN <<epoch, client, 0>> ELSE first

\* A session that was quiet for too long is left to itself, and the request's
\* session is that of the same client and start.
SessionId(client, started) ==
  LET first == <<epoch, client, -1>>
  IN  IF first \in DOMAIN captures /\ started - captures[first].updated > settings.idle
        THEN <<epoch, client, started>> ELSE first

\* The sessions that were updated first; a Go map may show any of them first.
Oldest(ids) == {id \in ids : \A other \in ids : captures[id].updated <= captures[other].updated}

\* Nothing goes.
KeptAll(ids) == {ids}

\* What is kept to make room for one more session.
Kept(ids) ==
  IF Cardinality(ids) >= settings.retention THEN {ids \ {old} : old \in Oldest(ids)} ELSE {ids}

\* The event's time, counted from the session's first request to this one's answer.
EventAtAnswer(session, started) ==
  [time |-> now - session.started, latency |-> now - started,
   gap |-> started - session.updated, idle |-> settings.idle]

\* An event's time counts from the session's first request to this one; both clocks
\* are the controller's.
EventOf(session, started) ==
  [time |-> started - session.started, latency |-> now - started,
   gap |-> started - session.updated, idle |-> settings.idle]

\* recordCapture and RecordCapture, once the model has answered or failed.
Record(c) ==
  LET started == call[c].started
      id      == SessionId(call[c].client, started)
      isNew   == id \notin DOMAIN captures
      session == IF isNew THEN [started |-> started, updated |-> now, events |-> << >>]
                 ELSE captures[id]
      grown   == IF Len(session.events) < settings.events
                   THEN Append(session.events, EventOf(session, started)) ELSE session.events
      record  == [started |-> session.started, updated |-> now, events |-> grown]
  IN  /\ call[c].at = "upstream"
      /\ call' = [call EXCEPT ![c] = Done(NewCall)]
      /\ \E ids \in IF isNew THEN Kept(DOMAIN captures) ELSE {DOMAIN captures} :
           captures' = [i \in ids \cup {id} |-> IF i = id THEN record ELSE captures[i]]
      /\ UNCHANGED <<now, epoch, settings, update, largest, acked, crossed, hurried>>

-----------------------------------------------------------------------------
(***************************************************************************)
(* Users: updateCaptureSettings reads and writes the settings in two store *)
(* calls; DeleteCapture.                                                   *)
(***************************************************************************)
\* The new settings, with the token from the defaults.
SubmittedAnew(input) == input

\* The new settings; a token that is not given stays.
Submitted(input) ==
  [input EXCEPT !.token = IF input.token = None THEN settings.token ELSE input.token]

ReadSettings(u, input) ==
  /\ update[u].at = "new" /\ \A v \in 1 .. u - 1 : update[v].at # "new"
  /\ input.enabled => Submitted(input).token # None \/ EnvToken # None
  /\ update' = [update EXCEPT ![u] = [at |-> "read", settings |-> Submitted(input),
                                      given |-> input.token]]
  /\ crossed' = (crossed \/ \E other \in Updates : update[other].at = "read")
  /\ UNCHANGED <<now, epoch, settings, captures, call, largest, acked, hurried>>

MaxOf(a, b) == IF a >= b THEN a ELSE b

WriteSettings(u) ==
  LET written == update[u].settings
  IN  /\ update[u].at = "read"
      /\ settings' = written
      /\ update' = [update EXCEPT ![u] = Done(NewUpdate)]
      /\ largest' = [events |-> MaxOf(largest.events, written.events),
                     retention |-> MaxOf(largest.retention, written.retention)]
      /\ acked' = IF update[u].given = None THEN acked ELSE update[u].given
      /\ UNCHANGED <<now, epoch, captures, call, crossed, hurried>>

DeleteCapture(id) ==
  /\ id \in DOMAIN captures
  /\ captures' = [i \in DOMAIN captures \ {id} |-> captures[i]]
  /\ UNCHANGED <<now, epoch, settings, call, update, largest, acked, crossed, hurried>>

-----------------------------------------------------------------------------
Tick ==
  /\ now < MaxTime /\ now' = now + 1
  /\ UNCHANGED <<epoch, settings, captures, call, update, largest, acked, crossed, hurried>>

\* The controller restarts with its snapshot: what was under way is gone, and the
\* new process draws its own salt.
CapturesRestart ==
  /\ epoch < MaxEpoch /\ epoch' = epoch + 1
  /\ call' = [c \in Calls |-> IF call[c].at = "new" THEN NewCall ELSE Done(NewCall)]
  /\ update' = [u \in Updates |-> IF update[u].at = "new" THEN NewUpdate ELSE Done(NewUpdate)]
  /\ UNCHANGED <<now, settings, captures, largest, acked, crossed, hurried>>
=============================================================================
