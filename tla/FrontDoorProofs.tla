--------------------------- MODULE FrontDoorProofs ---------------------------
(***************************************************************************)
(* What the login gate and the capture proxy promise for any number of     *)
(* tabs, clients, requests and updates, whatever the limits and however    *)
(* often the provider fails: proofs of properties of FrontDoor.            *)
(***************************************************************************)
EXTENDS FrontDoor, FiniteSetTheorems, TLAPS

(***************************************************************************)
(* Logins.  Tabs that are in a login carry different states, so that only  *)
(* the tab of the latest login spends the latest cookie.                   *)
(***************************************************************************)
TabRec == [at : {"away", "provider", "returning", "denied"}, state : Nat]

StatesDiffer ==
  \A t, u \in Tabs : tab[t].at # "away" /\ tab[u].at # "away" /\ tab[t].state = tab[u].state => t = u

LoginInv ==
  /\ issued \in Nat /\ tab \in [Tabs -> TabRec]
  /\ \A t \in Tabs : tab[t].state <= issued
  /\ StatesDiffer /\ LatestLoginCompletes

LEMMA InitLogins == Init => LoginInv
BY DEF Init, InitAfter, GateInit, LoginInv, TabRec, Away, StatesDiffer, LatestLoginCompletes

(***************************************************************************)
(* A login takes a state that no tab carries and the cookie with it.       *)
(***************************************************************************)
LEMMA LoginKeepsLogins ==
  ASSUME LoginInv, NEW t \in Tabs, Login(t)
  PROVE  LoginInv'
<1>1. issued' = issued + 1 /\ issued' \in Nat /\ stateCookie' = issued'
  BY DEF LoginInv, Login
<1>2. tab' \in [Tabs -> TabRec]
  BY DEF LoginInv, Login, TabRec
<1>3. tab'[t].state = issued' /\ \A u \in Tabs \ {t} : tab'[u] = tab[u] /\ tab[u].state <= issued
  BY DEF LoginInv, Login, TabRec
<1>4. \A u \in Tabs : tab'[u].state <= issued' /\ (u # t => tab'[u].state # issued')
  BY <1>1, <1>2, <1>3 DEF LoginInv, TabRec
<1>5. StatesDiffer'
  BY <1>3, <1>4 DEF LoginInv, StatesDiffer
<1>6. LatestLoginCompletes'
  BY <1>1 DEF LatestLoginCompletes
<1> QED BY <1>1, <1>2, <1>4, <1>5, <1>6 DEF LoginInv

LEMMA SignInKeepsLogins ==
  ASSUME LoginInv, NEW t \in Tabs, SignIn(t) \/ Deny(t)
  PROVE  LoginInv'
<1>1. tab' \in [Tabs -> TabRec]
  BY DEF LoginInv, SignIn, Deny, TabRec
<1>2. \A u \in Tabs : tab'[u].state = tab[u].state /\ (tab'[u].at # "away" => tab[u].at # "away")
  BY DEF LoginInv, SignIn, Deny, TabRec
<1>3. UNCHANGED <<issued, stateCookie, lapsed>>
  BY DEF SignIn, Deny
<1> QED BY <1>1, <1>2, <1>3 DEF LoginInv, StatesDiffer, LatestLoginCompletes

(***************************************************************************)
(* A callback spends the cookie only if the tab carries its state, and     *)
(* then no other tab does.                                                 *)
(***************************************************************************)
LEMMA CallbackKeepsLogins ==
  ASSUME LoginInv, NEW t \in Tabs, Callback(t)
  PROVE  LoginInv'
<1>1. tab' \in [Tabs -> TabRec] /\ tab'[t] = Away
  BY DEF LoginInv, Callback, TabRec, Away
<1>2. \A u \in Tabs \ {t} : tab'[u] = tab[u]
  BY DEF LoginInv, Callback
<1>3. issued' = issued /\ lapsed' = lapsed /\ tab[t].at # "away"
  BY DEF Callback
<1>4. \A u \in Tabs : tab'[u].state <= issued'
  BY <1>1, <1>2, <1>3 DEF LoginInv, Away
<1>5. StatesDiffer'
  BY <1>1, <1>2 DEF LoginInv, StatesDiffer, Away
<1>6. ASSUME NEW u \in Tabs, tab'[u].at # "away", tab'[u].state = issued', ~lapsed'
      PROVE  stateCookie' = issued'
  <2>1. u # t /\ tab[u].at # "away" /\ tab[u].state = issued
    BY <1>1, <1>2, <1>3, <1>6 DEF Away
  <2>2. stateCookie = issued
    BY <1>3, <1>6, <2>1 DEF LoginInv, LatestLoginCompletes
  <2>3. tab[t].state # stateCookie
    BY <1>3, <2>1, <2>2 DEF LoginInv, StatesDiffer
  <2> QED BY <1>3, <2>2, <2>3 DEF Callback
<1>7. LatestLoginCompletes'
  BY <1>6 DEF LatestLoginCompletes
<1> QED BY <1>1, <1>3, <1>4, <1>5, <1>7 DEF LoginInv

LEMMA NextKeepsLogins == LoginInv /\ [Next]_vars => LoginInv'
<1> SUFFICES ASSUME LoginInv, [Next]_vars PROVE LoginInv'
  OBVIOUS
<1>1. CASE UNCHANGED <<issued, stateCookie, tab, lapsed>>
  BY <1>1 DEF LoginInv, StatesDiffer, LatestLoginCompletes
<1>2. CASE StateExpires
  BY <1>2 DEF StateExpires, LoginInv, StatesDiffer, LatestLoginCompletes
<1>3. CASE \E t \in Tabs : Login(t) \/ SignIn(t) \/ Deny(t) \/ Callback(t)
  BY <1>3, LoginKeepsLogins, SignInKeepsLogins, CallbackKeepsLogins
<1>4. Public => \/ \E t \in Tabs : Login(t) \/ SignIn(t) \/ Deny(t) \/ Callback(t)
                \/ UNCHANGED <<issued, stateCookie, tab, lapsed>>
  BY DEF Public, Logout, gateVars
<1>5. HumanAPI => UNCHANGED <<issued, stateCookie, tab, lapsed>>
  BY DEF HumanAPI, gateVars
<1>6. Surroundings => StateExpires \/ UNCHANGED <<issued, stateCookie, tab, lapsed>>
  BY DEF Surroundings, Discover, SessionExpires, ProviderChanges, GateRestart, gateVars
<1>7. DeleteTarget \/ UNCHANGED vars => UNCHANGED <<issued, stateCookie, tab, lapsed>>
  BY DEF DeleteTarget, vars, gateVars
<1> QED BY <1>1, <1>2, <1>3, <1>4, <1>5, <1>6, <1>7 DEF Next

(***************************************************************************)
(* The login begun last completes, whatever the callbacks of other tabs,   *)
(* restarts and failures of the provider do before.                        *)
(***************************************************************************)
THEOREM LatestLoginAlwaysCompletes == Spec => []LatestLoginCompletes
<1>1. LoginInv => LatestLoginCompletes
  BY DEF LoginInv
<1> QED BY <1>1, InitLogins, NextKeepsLogins, PTL DEF Spec

-----------------------------------------------------------------------------
(***************************************************************************)
(* Settings.  While no two updates crossed, at most one has read the       *)
(* settings, and what it will write has the token it gave or the one in    *)
(* the store.                                                              *)
(***************************************************************************)
UpdateRec == [at : {"new", "read", "done"}, settings : Limit, given : Tokens \cup {None}]

Reading == {u \in Updates : update[u].at = "read"}

TokenOf(u) == IF update[u].given = None THEN settings.token ELSE update[u].given

SettingsInv ==
  /\ settings \in Limit /\ update \in [Updates -> UpdateRec] /\ crossed \in BOOLEAN
  /\ ~crossed => /\ \A u, v \in Reading : u = v
                 /\ \A u \in Reading : update[u].settings.token = TokenOf(u)
                 /\ settings.token = acked

LEMMA NewUpdateType == NewUpdate \in UpdateRec /\ Done(NewUpdate) \in UpdateRec
                       /\ Default \in Limit /\ NewUpdate.at = "new" /\ Done(NewUpdate).at = "done"
<1>1. Default \in Limit
  BY CapturesAssumption DEF Limit
<1>2. NewUpdate \in UpdateRec /\ NewUpdate.at = "new"
  BY <1>1 DEF NewUpdate, UpdateRec
<1>3. Done(NewUpdate) = [at |-> "done", settings |-> Default, given |-> None]
  BY DEF Done, NewUpdate
<1> QED BY <1>1, <1>2, <1>3 DEF UpdateRec

LEMMA InitSettings == Init => SettingsInv
<1> SUFFICES ASSUME Init PROVE SettingsInv
  OBVIOUS
<1>1. settings = Default /\ crossed = FALSE /\ acked = None
  BY DEF Init, InitAfter, CapturesInit
<1>2. update = [u \in Updates |-> IF u <= 0 THEN Done(NewUpdate) ELSE NewUpdate]
  BY DEF Init, InitAfter, CapturesInit
<1>3. update \in [Updates -> UpdateRec] /\ \A u \in Updates : update[u].at # "read"
  BY <1>2, NewUpdateType
<1> QED BY <1>1, <1>3, NewUpdateType, CapturesAssumption DEF SettingsInv, Reading

(***************************************************************************)
(* Reading: nobody else has read if no updates cross, and what will be     *)
(* written has the token wanted.                                           *)
(***************************************************************************)
LEMMA ReadKeepsSettings ==
  ASSUME SettingsInv, NEW u \in Updates, NEW input \in Inputs, ReadSettings(u, input)
  PROVE  SettingsInv'
<1> DEFINE r == [at |-> "read", settings |-> Submitted(input), given |-> input.token]
<1>1. input \in Limit
  BY CapturesAssumption
<1>2. settings.token \in Tokens \cup {None}
  BY DEF SettingsInv, Limit
<1>3. /\ Submitted(input) \in Limit
      /\ Submitted(input).token = IF input.token = None THEN settings.token ELSE input.token
  BY <1>1, <1>2 DEF Submitted, Limit
<1>4. r \in UpdateRec /\ r.at = "read" /\ r.settings = Submitted(input) /\ r.given = input.token
  BY <1>1, <1>3 DEF UpdateRec, Limit
<1>5. update' = [update EXCEPT ![u] = r] /\ settings' = settings /\ acked' = acked
  BY DEF ReadSettings
<1>6. crossed' = (crossed \/ \E other \in Updates : update[other].at = "read")
  BY DEF ReadSettings
<1> HIDE DEF r
<1>7. update' \in [Updates -> UpdateRec]
  BY <1>4, <1>5 DEF SettingsInv
<1>8. crossed' \in BOOLEAN
  BY <1>6, ZenonT(30)
<1>9. ASSUME ~crossed'
      PROVE  ~crossed /\ Reading = {}
  BY <1>6, <1>9, ZenonT(30) DEF Reading
<1>10. ASSUME ~crossed'
       PROVE  /\ Reading' = {u} /\ TokenOf(u)' = Submitted(input).token
              /\ settings'.token = acked'
  <2>1. Reading' = {u}
    BY <1>4, <1>5, <1>9, <1>10 DEF Reading, SettingsInv
  <2>2. update'[u] = r
    BY <1>5 DEF SettingsInv
  <2> QED BY <1>3, <1>4, <1>5, <1>9, <1>10, <2>1, <2>2 DEF SettingsInv, TokenOf
<1>11. update'[u].settings = Submitted(input)
  BY <1>4, <1>5 DEF SettingsInv
<1> QED BY <1>5, <1>7, <1>8, <1>10, <1>11 DEF SettingsInv

(***************************************************************************)
(* Writing: the token written is the one given, or the one in the store,   *)
(* and nobody else is left who has read another one.                       *)
(***************************************************************************)
LEMMA WriteKeepsSettings ==
  ASSUME SettingsInv, NEW u \in Updates, WriteSettings(u)
  PROVE  SettingsInv'
<1>1. u \in Reading /\ settings' = update[u].settings /\ crossed' = crossed
  BY DEF WriteSettings, Reading
<1>2. update' = [update EXCEPT ![u] = Done(NewUpdate)]
  BY DEF WriteSettings
<1>3. acked' = IF update[u].given = None THEN acked ELSE update[u].given
  BY DEF WriteSettings
<1>4. settings' \in Limit
  BY <1>1 DEF SettingsInv, UpdateRec
<1>5. update' \in [Updates -> UpdateRec] /\ update'[u].at # "read"
  BY <1>2, NewUpdateType DEF SettingsInv
<1>6. \A v \in Updates \ {u} : update'[v] = update[v]
  BY <1>2 DEF SettingsInv
<1>7. ASSUME ~crossed
      PROVE  Reading' = {} /\ settings'.token = acked'
  <2>1. Reading = {u}
    BY <1>1, <1>7 DEF SettingsInv
  <2>2. Reading' = {}
    BY <1>5, <1>6, <2>1 DEF Reading
  <2>3. settings'.token = acked'
    BY <1>1, <1>3, <1>7 DEF SettingsInv, TokenOf
  <2> QED BY <2>2, <2>3
<1> QED BY <1>1, <1>4, <1>5, <1>7 DEF SettingsInv

(***************************************************************************)
(* A restart loses updates under way, never one that was written.          *)
(***************************************************************************)
LEMMA RestartKeepsSettings ==
  ASSUME SettingsInv, CapturesRestart
  PROVE  SettingsInv'
<1>1. update' = [u \in Updates |-> IF update[u].at = "new" THEN NewUpdate ELSE Done(NewUpdate)]
  BY DEF CapturesRestart
<1>2. update' \in [Updates -> UpdateRec] /\ \A u \in Updates : update'[u].at # "read"
  BY <1>1, NewUpdateType
<1>3. UNCHANGED <<settings, crossed, acked>>
  BY DEF CapturesRestart
<1> QED BY <1>2, <1>3 DEF SettingsInv, Reading

LEMMA NextKeepsSettings == SettingsInv /\ [Next]_vars => SettingsInv'
<1> SUFFICES ASSUME SettingsInv, [Next]_vars PROVE SettingsInv'
  OBVIOUS
<1>1. CASE UNCHANGED <<settings, update, crossed, acked>>
  BY <1>1 DEF SettingsInv, Reading, TokenOf
<1>2. CASE \E u \in Updates, input \in Inputs : ReadSettings(u, input)
  BY <1>2, ReadKeepsSettings
<1>3. CASE \E u \in Updates : WriteSettings(u)
  BY <1>3, WriteKeepsSettings
<1>4. CASE CapturesRestart
  BY <1>4, RestartKeepsSettings
<1>5. Public => UNCHANGED <<settings, update, crossed, acked>>
  BY DEF Public, Admit, Forward, Record, captureVars
<1>6. HumanAPI => \/ \E u \in Updates, input \in Inputs : ReadSettings(u, input)
                  \/ \E u \in Updates : WriteSettings(u)
                  \/ UNCHANGED <<settings, update, crossed, acked>>
  BY DEF HumanAPI, DeleteCapture
<1>7. Surroundings => CapturesRestart \/ UNCHANGED <<settings, update, crossed, acked>>
  BY DEF Surroundings, Tick, captureVars
<1>8. DeleteTarget \/ UNCHANGED vars => UNCHANGED <<settings, update, crossed, acked>>
  BY DEF DeleteTarget, vars, captureVars
<1> QED BY <1>1, <1>2, <1>3, <1>4, <1>5, <1>6, <1>7, <1>8 DEF Next

(***************************************************************************)
(* The token in force is the last one given, as long as no two updates     *)
(* cross.                                                                  *)
(***************************************************************************)
THEOREM TokenChangesAlwaysSurvive == Spec => []TokenChangesSurvive
<1>1. SettingsInv => TokenChangesSurvive
  BY DEF SettingsInv, TokenChangesSurvive
<1> QED BY <1>1, InitSettings, NextKeepsSettings, PTL DEF Spec

-----------------------------------------------------------------------------
(***************************************************************************)
(* Sessions.  Their number and length stay within the largest limits that  *)
(* were in force; a session that was split off was updated no sooner than  *)
(* its start, which its ID holds.                                          *)
(***************************************************************************)
CallRec == [at : {"new", "admitted", "upstream", "done"}, client : Clients \cup {None},
            started : Nat]

Fits(events, length) ==
  /\ events \in Seq(Event) /\ Len(events) <= length
  /\ \A i \in 2 .. Len(events) : events[i].gap <= events[i].idle

SessionFits(id) ==
  /\ captures[id].started \in Nat /\ captures[id].updated \in Nat
  /\ id[3] = -1 \/ (id[3] \in Nat /\ id[3] <= captures[id].updated)
  /\ Fits(captures[id].events, largest.events)

LimitsInv ==
  /\ largest.events \in Nat /\ largest.retention \in Nat
  /\ settings.events <= largest.events /\ settings.retention <= largest.retention

SessionsInv ==
  /\ SettingsInv /\ LimitsInv
  /\ now \in Nat /\ call \in [Calls -> CallRec]
  /\ \A c \in Calls : call[c].started <= now
  /\ IsFiniteSet(DOMAIN captures) /\ Cardinality(DOMAIN captures) <= largest.retention
  /\ \A id \in DOMAIN captures : SessionFits(id)

LEMMA NewCallType ==
  /\ NewCall \in CallRec /\ NewCall.started = 0
  /\ Done(NewCall) \in CallRec /\ Done(NewCall).started = 0
<1>1. Done(NewCall) = [at |-> "done", client |-> None, started |-> 0]
  BY DEF Done, NewCall
<1> QED BY <1>1 DEF NewCall, CallRec

LEMMA InitSessions == Init => SessionsInv
<1> SUFFICES ASSUME Init PROVE SessionsInv
  OBVIOUS
<1>1. SettingsInv
  BY InitSettings
<1>2. LimitsInv
  BY CapturesAssumption DEF Init, InitAfter, CapturesInit, LimitsInv, Limit
<1>3. call = [c \in Calls |-> IF c <= 0 THEN Done(NewCall) ELSE NewCall] /\ now = 0
  BY DEF Init, InitAfter, CapturesInit
<1>4. DOMAIN captures = {}
  BY DEF Init, InitAfter, CapturesInit
<1>5. IsFiniteSet(DOMAIN captures) /\ Cardinality(DOMAIN captures) = 0
  BY <1>4, FS_EmptySet
<1> QED BY <1>1, <1>2, <1>3, <1>4, <1>5, NewCallType DEF SessionsInv, LimitsInv

LEMMA NothingFits == \A length \in Nat : Fits(<< >>, length)
<1>1. << >> \in Seq(Event) /\ Len(<< >>) = 0 /\ 2 .. 0 = {}
  OBVIOUS
<1> QED BY <1>1 DEF Fits

(***************************************************************************)
(* One more event: the first of a session, or one that came in time.       *)
(***************************************************************************)
LEMMA AppendFits ==
  ASSUME NEW events, NEW length \in Nat, NEW limit \in Nat, Fits(events, length),
         limit <= length, Len(events) < limit, NEW e \in Event,
         events = << >> \/ e.gap <= e.idle
  PROVE  Fits(Append(events, e), length)
<1>1. events \in Seq(Event) /\ Len(events) \in Nat
  BY DEF Fits
<1>2. Append(events, e) \in Seq(Event) /\ Len(Append(events, e)) = Len(events) + 1
  BY <1>1
<1>3. ASSUME NEW i \in 2 .. Len(events) + 1
      PROVE  Append(events, e)[i].gap <= Append(events, e)[i].idle
  <2>1. CASE i <= Len(events)
    <3>1. Append(events, e)[i] = events[i]
      BY <1>1, <2>1
    <3> QED BY <2>1, <3>1 DEF Fits
  <2>2. CASE i = Len(events) + 1
    <3>1. Append(events, e)[i] = e /\ events # << >>
      BY <1>1, <2>2
    <3> QED BY <3>1
  <2> QED BY <1>1, <2>1, <2>2
<1> QED BY <1>1, <1>2, <1>3 DEF Fits

(***************************************************************************)
(* The session ID of a request: an event for a session that is there came  *)
(* in time for it.                                                         *)
(***************************************************************************)
LEMMA InTimeForItsSession ==
  ASSUME SessionsInv, NEW client, NEW started \in Nat,
         SessionId(client, started) \in DOMAIN captures
  PROVE  started - captures[SessionId(client, started)].updated <= settings.idle
<1> DEFINE first == <<epoch, client, -1>>
           id == SessionId(client, started)
<1>1. settings.idle \in Nat
  BY DEF SessionsInv, SettingsInv, Limit
<1>2. CASE first \in DOMAIN captures /\ started - captures[first].updated > settings.idle
  <2>1. id = <<epoch, client, started>> /\ id[3] = started
    BY <1>2 DEF SessionId
  <2>2. captures[id].updated \in Nat /\ started <= captures[id].updated
    BY <2>1 DEF SessionsInv, SessionFits
  <2> QED BY <1>1, <2>2
<1>3. CASE ~(first \in DOMAIN captures /\ started - captures[first].updated > settings.idle)
  <2>1. id = first
    BY <1>3 DEF SessionId
  <2>2. first \in DOMAIN captures /\ captures[first].updated \in Nat
    BY <2>1 DEF SessionsInv, SessionFits
  <2> QED BY <1>1, <1>3, <2>1, <2>2
<1> QED BY <1>2, <1>3

(***************************************************************************)
(* Room for one more: the captures kept, together with the new session,    *)
(* stay within the largest retention.                                      *)
(***************************************************************************)
LEMMA RoomForOneMore ==
  ASSUME SessionsInv, NEW id, id \notin DOMAIN captures, NEW ids \in Kept(DOMAIN captures)
  PROVE  /\ ids \subseteq DOMAIN captures /\ IsFiniteSet(ids \cup {id})
         /\ Cardinality(ids \cup {id}) <= largest.retention
<1> DEFINE all == DOMAIN captures
<1>1. /\ IsFiniteSet(all) /\ Cardinality(all) \in Nat /\ Cardinality(all) <= largest.retention
      /\ largest.retention \in Nat /\ settings.retention \in Nat
      /\ settings.retention <= largest.retention
  BY FS_CardinalityType DEF SessionsInv, SettingsInv, LimitsInv, Limit
<1> HIDE DEF all
<1>2. CASE Cardinality(all) >= settings.retention
  <2>1. PICK old \in all : ids = all \ {old}
    BY <1>2 DEF Kept, Oldest, all
  <2>2. IsFiniteSet(ids) /\ Cardinality(ids) = Cardinality(all) - 1
    BY <1>1, <2>1, FS_RemoveElement
  <2>3. IsFiniteSet(ids \cup {id}) /\ Cardinality(ids \cup {id}) = Cardinality(ids) + 1
    BY <2>1, <2>2, FS_AddElement DEF all
  <2> QED BY <1>1, <2>1, <2>2, <2>3 DEF all
<1>3. CASE ~(Cardinality(all) >= settings.retention)
  <2>1. ids = all
    BY <1>3 DEF Kept, all
  <2>2. IsFiniteSet(ids \cup {id}) /\ Cardinality(ids \cup {id}) = Cardinality(all) + 1
    BY <1>1, <2>1, FS_AddElement DEF all
  <2> QED BY <1>1, <1>3, <2>1, <2>2 DEF all
<1> QED BY <1>2, <1>3

LEMMA RecordKeepsSessions ==
  ASSUME SessionsInv, NEW c \in Calls, Record(c)
  PROVE  SessionsInv'
<1> DEFINE started == call[c].started
           id      == SessionId(call[c].client, started)
           isNew   == id \notin DOMAIN captures
           found == IF isNew THEN [started |-> started, updated |-> now, events |-> << >>]
                      ELSE captures[id]
           e       == EventOf(found, started)
           grown   == IF Len(found.events) < settings.events
                        THEN Append(found.events, e) ELSE found.events
           record  == [started |-> found.started, updated |-> now, events |-> grown]
<1>1. /\ started \in Nat /\ now \in Nat /\ started <= now
      /\ settings.idle \in Nat /\ settings.events \in Nat \ {0} /\ largest.events \in Nat
      /\ settings.events <= largest.events
  BY DEF SessionsInv, SettingsInv, LimitsInv, Limit, CallRec
<1>2. found.started \in Nat /\ found.updated \in Nat /\ Fits(found.events, largest.events)
  <2>1. CASE isNew
    <3>1. found.started = started /\ found.updated = now /\ found.events = << >>
      BY <2>1
    <3> HIDE DEF found
    <3> QED BY <1>1, <3>1, NothingFits
  <2>2. CASE ~isNew
    BY <2>2 DEF SessionsInv, SessionFits
  <2> QED BY <2>1, <2>2
<1>3. found.events = << >> \/ e.gap <= e.idle
  <2>1. CASE isNew
    BY <2>1
  <2>2. CASE ~isNew
    <3>1. started - captures[id].updated <= settings.idle
      BY <1>1, <2>2, InTimeForItsSession
    <3>2. e.gap = started - captures[id].updated /\ e.idle = settings.idle
      BY <2>2 DEF EventOf
    <3> QED BY <3>1, <3>2
  <2> QED BY <2>1, <2>2
<1>4. e \in Event
  BY <1>1, <1>2 DEF EventOf, Event
<1>5. id[3] = -1 \/ (id[3] \in Nat /\ id[3] <= now)
  BY <1>1 DEF SessionId
<1>6. PICK ids \in IF isNew THEN Kept(DOMAIN captures) ELSE {DOMAIN captures} :
        captures' = [i \in ids \cup {id} |-> IF i = id THEN record ELSE captures[i]]
  BY DEF Record
<1>7. UNCHANGED <<now, epoch, settings, update, largest, acked, crossed, hurried>>
      /\ call' = [call EXCEPT ![c] = Done(NewCall)]
  BY DEF Record
<1> HIDE DEF found, e, id, started
<1>8. Fits(grown, largest.events)
  BY <1>1, <1>2, <1>3, <1>4, AppendFits
<1>9. record.started \in Nat /\ record.updated = now /\ record.events = grown
  BY <1>2
<1> HIDE DEF record, grown
<1>10. /\ ids \subseteq DOMAIN captures /\ IsFiniteSet(ids \cup {id})
       /\ Cardinality(ids \cup {id}) <= largest.retention
  <2>1. CASE isNew
    BY <1>6, <2>1, RoomForOneMore
  <2>2. CASE ~isNew
    <3>1. ids = DOMAIN captures /\ ids \cup {id} = DOMAIN captures
      BY <1>6, <2>2
    <3> QED BY <3>1 DEF SessionsInv
  <2> QED BY <2>1, <2>2
<1>11. DOMAIN captures' = ids \cup {id}
  BY <1>6
<1>12. ASSUME NEW i \in DOMAIN captures'
       PROVE  SessionFits(i)'
  <2>1. CASE i = id
    <3>1. captures'[i] = record
      BY <1>6, <1>11, <2>1
    <3> QED BY <1>1, <1>5, <1>7, <1>8, <1>9, <2>1, <3>1 DEF SessionFits
  <2>2. CASE i # id
    <3>1. captures'[i] = captures[i] /\ i \in DOMAIN captures
      BY <1>6, <1>10, <1>11, <2>2
    <3>2. SessionFits(i)
      BY <3>1 DEF SessionsInv
    <3> QED BY <1>7, <3>1, <3>2 DEF SessionFits
  <2> QED BY <2>1, <2>2
<1>13. call' \in [Calls -> CallRec] /\ \A d \in Calls : call'[d].started <= now
  BY <1>1, <1>7, NewCallType DEF SessionsInv
<1>14. SettingsInv' /\ LimitsInv'
  BY <1>7 DEF SessionsInv, SettingsInv, LimitsInv, Reading, TokenOf
<1> QED BY <1>7, <1>10, <1>11, <1>12, <1>13, <1>14 DEF SessionsInv

(***************************************************************************)
(* The other steps of requests, users and the surroundings.                *)
(***************************************************************************)
LEMMA SessionsStutter ==
  ASSUME SessionsInv, SettingsInv', UNCHANGED <<settings, largest, now, captures>>,
         call' \in [Calls -> CallRec], \A c \in Calls : call'[c].started <= now
  PROVE  SessionsInv'
BY DEF SessionsInv, LimitsInv, SessionFits

LEMMA CallsKeepSessions ==
  ASSUME SessionsInv, SettingsInv', NEW c \in Calls,
         (\E client \in Clients, token \in Tokens : Admit(c, client, token)) \/ Forward(c, registered)
  PROVE  SessionsInv'
<1>1. CASE \E client \in Clients, token \in Tokens : Admit(c, client, token)
  <2>1. PICK client \in Clients, token \in Tokens : Admit(c, client, token)
    BY <1>1
  <2> DEFINE r == [at |-> "admitted", client |-> client, started |-> 0]
  <2>3. r \in CallRec /\ r.started = 0
    BY DEF CallRec
  <2>4. call' = [call EXCEPT ![c] = r] /\ UNCHANGED <<settings, largest, now, captures>>
    BY <2>1 DEF Admit
  <2> HIDE DEF r
  <2>5. call' \in [Calls -> CallRec] /\ \A d \in Calls : call'[d].started <= now
    BY <2>3, <2>4 DEF SessionsInv
  <2> QED BY <2>4, <2>5, SessionsStutter
<1>2. CASE Forward(c, registered)
  <2> DEFINE u == [at |-> "upstream", client |-> call[c].client, started |-> now]
             r == IF registered THEN u ELSE Done(NewCall)
  <2>1. u \in CallRec /\ u.started = now
    BY DEF SessionsInv, CallRec
  <2>4. call' = [call EXCEPT ![c] = r] /\ UNCHANGED <<settings, largest, now, captures>>
    BY <1>2 DEF Forward, SessionsInv
  <2> HIDE DEF u
  <2>3. r \in CallRec /\ r.started <= now
    BY <2>1, NewCallType DEF SessionsInv
  <2> HIDE DEF r
  <2>5. call' \in [Calls -> CallRec] /\ \A d \in Calls : call'[d].started <= now
    BY <2>3, <2>4 DEF SessionsInv
  <2> QED BY <2>4, <2>5, SessionsStutter
<1> QED BY <1>1, <1>2

LEMMA SettingsKeepSessions ==
  ASSUME SessionsInv, SettingsInv', NEW u \in Updates,
         (\E input \in Inputs : ReadSettings(u, input)) \/ WriteSettings(u)
  PROVE  SessionsInv'
<1>1. CASE \E input \in Inputs : ReadSettings(u, input)
  <2>1. UNCHANGED <<settings, largest, now, captures, call>>
    BY <1>1 DEF ReadSettings
  <2> QED BY <2>1, SessionsStutter DEF SessionsInv
<1>2. CASE WriteSettings(u)
  <2>1. /\ largest' = [events |-> MaxOf(largest.events, update[u].settings.events),
                       retention |-> MaxOf(largest.retention, update[u].settings.retention)]
        /\ settings' = update[u].settings /\ UNCHANGED <<now, call, captures>>
    BY <1>2 DEF WriteSettings
  <2>2. /\ largest.events \in Nat /\ largest.retention \in Nat
        /\ settings'.events \in Nat /\ settings'.retention \in Nat
    BY <2>1 DEF SessionsInv, SettingsInv, LimitsInv, UpdateRec, Limit
  <2>3. /\ largest'.events \in Nat /\ largest'.retention \in Nat
        /\ settings'.events <= largest'.events /\ settings'.retention <= largest'.retention
        /\ largest.events <= largest'.events /\ largest.retention <= largest'.retention
    BY <2>1, <2>2 DEF MaxOf
  <2>4. ASSUME NEW id \in DOMAIN captures
        PROVE  SessionFits(id)'
    <3>1. SessionFits(id) /\ Len(captures[id].events) \in Nat
      BY DEF SessionsInv, SessionFits, Fits
    <3> QED BY <2>1, <2>2, <2>3, <3>1 DEF SessionFits, Fits
  <2>5. Cardinality(DOMAIN captures) \in Nat /\ Cardinality(DOMAIN captures) <= largest'.retention
    BY <2>2, <2>3, FS_CardinalityType DEF SessionsInv
  <2> QED BY <2>1, <2>3, <2>4, <2>5 DEF SessionsInv, LimitsInv
<1> QED BY <1>1, <1>2

LEMMA DeleteKeepsSessions ==
  ASSUME SessionsInv, SettingsInv', NEW id \in DOMAIN captures, DeleteCapture(id)
  PROVE  SessionsInv'
<1>1. UNCHANGED <<settings, largest, now, call>>
      /\ captures' = [i \in DOMAIN captures \ {id} |-> captures[i]]
  BY DEF DeleteCapture
<1>2. DOMAIN captures' = DOMAIN captures \ {id} /\ \A i \in DOMAIN captures' : captures'[i] = captures[i]
  BY <1>1
<1>3. IsFiniteSet(DOMAIN captures') /\ Cardinality(DOMAIN captures') <= Cardinality(DOMAIN captures)
  BY <1>2, FS_Subset DEF SessionsInv
<1>4. Cardinality(DOMAIN captures') \in Nat /\ Cardinality(DOMAIN captures) \in Nat
  BY <1>3, FS_CardinalityType DEF SessionsInv
<1>5. Cardinality(DOMAIN captures') <= largest.retention
  BY <1>3, <1>4 DEF SessionsInv, LimitsInv
<1>6. \A i \in DOMAIN captures' : SessionFits(i)'
  BY <1>1, <1>2 DEF SessionsInv, SessionFits
<1> QED BY <1>1, <1>3, <1>5, <1>6 DEF SessionsInv, LimitsInv

LEMMA TickKeepsSessions ==
  ASSUME SessionsInv, SettingsInv', Tick \/ CapturesRestart
  PROVE  SessionsInv'
<1>1. CASE Tick
  <2>1. now' = now + 1 /\ UNCHANGED <<settings, largest, call, captures>>
    BY <1>1 DEF Tick
  <2>2. now' \in Nat /\ \A c \in Calls : call[c].started <= now'
    BY <2>1 DEF SessionsInv, CallRec
  <2> QED BY <2>1, <2>2 DEF SessionsInv, LimitsInv, SessionFits
<1>2. CASE CapturesRestart
  <2>1. /\ call' = [c \in Calls |-> IF call[c].at = "new" THEN NewCall ELSE Done(NewCall)]
        /\ UNCHANGED <<settings, largest, now, captures>>
    BY <1>2 DEF CapturesRestart
  <2>2. call' \in [Calls -> CallRec] /\ \A c \in Calls : call'[c].started <= now
    BY <2>1, NewCallType DEF SessionsInv
  <2> QED BY <2>1, <2>2, SessionsStutter
<1> QED BY <1>1, <1>2

LEMMA NextKeepsSessions == SessionsInv /\ [Next]_vars => SessionsInv'
<1> SUFFICES ASSUME SessionsInv, [Next]_vars PROVE SessionsInv'
  OBVIOUS
<1> DEFINE kept == UNCHANGED <<settings, largest, now, call, captures>>
<1>1. SettingsInv'
  BY NextKeepsSettings DEF SessionsInv
<1>2. CASE kept
  BY <1>1, <1>2, SessionsStutter DEF SessionsInv
<1>3. CASE Public
  <2>1. \/ kept
        \/ \E c \in Calls : \/ \E client \in Clients, token \in Tokens : Admit(c, client, token)
                           \/ Forward(c, registered)
                           \/ Record(c)
    BY <1>3 DEF Public, captureVars
  <2> HIDE DEF kept
  <2> QED BY <1>1, <1>2, <2>1, CallsKeepSessions, RecordKeepsSessions
<1>4. CASE HumanAPI
  <2>1. \/ \E u \in Updates, input \in Inputs : ReadSettings(u, input)
        \/ \E u \in Updates : WriteSettings(u)
        \/ \E id \in DOMAIN captures : DeleteCapture(id)
    BY <1>4 DEF HumanAPI
  <2> QED BY <1>1, <2>1, SettingsKeepSessions, DeleteKeepsSessions
<1>5. CASE Surroundings
  <2>1. kept \/ Tick \/ CapturesRestart
    BY <1>5 DEF Surroundings, captureVars
  <2> HIDE DEF kept
  <2> QED BY <1>1, <1>2, <2>1, TickKeepsSessions
<1>6. CASE DeleteTarget \/ UNCHANGED vars
  <2>1. kept
    BY <1>6 DEF DeleteTarget, vars, captureVars
  <2> HIDE DEF kept
  <2> QED BY <1>2, <2>1
<1> QED BY <1>3, <1>4, <1>5, <1>6 DEF Next

THEOREM SessionsInvariant == Spec => []SessionsInv
BY InitSessions, NextKeepsSessions, PTL DEF Spec

(***************************************************************************)
(* No number of capture clients makes the sessions outgrow the largest     *)
(* limits that were ever in force.                                         *)
(***************************************************************************)
THEOREM SessionsAlwaysStayBounded == Spec => []SessionsStayBounded
<1>1. SessionsInv => SessionsStayBounded
  BY DEF SessionsInv, SessionFits, Fits, SessionsStayBounded
<1> QED BY <1>1, SessionsInvariant, PTL

(***************************************************************************)
(* Requests that are further apart than the idle limit are never recorded  *)
(* in one session, also after the session's ID was split.                  *)
(***************************************************************************)
THEOREM EventsAlwaysBelongTogether == Spec => []EventsBelongTogether
<1>1. SessionsInv => EventsBelongTogether
  BY DEF SessionsInv, SessionFits, Fits, EventsBelongTogether
<1> QED BY <1>1, SessionsInvariant, PTL

-----------------------------------------------------------------------------
(***************************************************************************)
(* Eviction follows from one step alone: only RecordCapture adds a         *)
(* session, and it takes one of the oldest for it, if any.                 *)
(***************************************************************************)
Evicts ==
  \A id \in DOMAIN captures \ DOMAIN captures' : DOMAIN captures' \ DOMAIN captures # {} =>
    \A other \in DOMAIN captures \cap DOMAIN captures' :
      captures[id].updated <= captures[other].updated

LEMMA RecordEvicts ==
  ASSUME NEW c \in Calls, Record(c)
  PROVE  Evicts
<1> DEFINE id == SessionId(call[c].client, call[c].started)
           isNew == id \notin DOMAIN captures
<1>1. \E ids \in IF isNew THEN Kept(DOMAIN captures) ELSE {DOMAIN captures} :
        DOMAIN captures' = ids \cup {id}
  BY DEF Record
<1> HIDE DEF id
<1>2. CASE ~isNew
  BY <1>1, <1>2 DEF Evicts
<1>3. CASE isNew
  <2>1. PICK ids \in Kept(DOMAIN captures) : DOMAIN captures' = ids \cup {id}
    BY <1>1, <1>3
  <2>2. ids = DOMAIN captures \/ \E old \in Oldest(DOMAIN captures) : ids = DOMAIN captures \ {old}
    BY DEF Kept
  <2> QED BY <1>3, <2>1, <2>2 DEF Evicts, Oldest
<1> QED BY <1>2, <1>3

LEMMA NextEvicts == [Next]_vars => Evicts
<1> SUFFICES ASSUME [Next]_vars PROVE Evicts
  OBVIOUS
<1>1. CASE UNCHANGED captures
  BY <1>1 DEF Evicts
<1>2. CASE \E c \in Calls : Record(c)
  BY <1>2, RecordEvicts
<1>3. CASE \E id \in DOMAIN captures : DeleteCapture(id)
  BY <1>3 DEF DeleteCapture, Evicts
<1>4. Public => UNCHANGED captures \/ \E c \in Calls : Record(c)
  BY DEF Public, Admit, Forward, captureVars
<1>5. HumanAPI => UNCHANGED captures \/ \E id \in DOMAIN captures : DeleteCapture(id)
  BY DEF HumanAPI, ReadSettings, WriteSettings
<1>6. Surroundings \/ DeleteTarget \/ UNCHANGED vars => UNCHANGED captures
  BY DEF Surroundings, Tick, CapturesRestart, DeleteTarget, vars, captureVars
<1> QED BY <1>1, <1>2, <1>3, <1>4, <1>5, <1>6 DEF Next

(***************************************************************************)
(* A session that goes for a new one is among those updated longest ago.   *)
(***************************************************************************)
THEOREM EvictionAlwaysTakesTheOldest == Spec => EvictionTakesTheOldest
<1>1. [Next]_vars => [Evicts]_vars
  BY NextEvicts
<1> QED BY <1>1, PTL DEF Spec, EvictionTakesTheOldest, Evicts

-----------------------------------------------------------------------------
(***************************************************************************)
(* Where login is required and nobody has signed in, no session is live    *)
(* and no settings update has passed the gate.                             *)
(***************************************************************************)
GateInv == loginRequired /\ ~entered => session # "live" /\ Reading = {}

HumansWait ==
  loginRequired /\ ~entered =>
    /\ UNCHANGED <<settings, registered>>
    /\ DOMAIN captures \ DOMAIN captures' # {} => DOMAIN captures' \ DOMAIN captures # {}

LEMMA InitGate == Init => GateInv
<1> SUFFICES ASSUME Init PROVE GateInv
  OBVIOUS
<1>1. update = [u \in Updates |-> IF u <= 0 THEN Done(NewUpdate) ELSE NewUpdate] /\ session = "none"
  BY DEF Init, InitAfter, CapturesInit, GateInit
<1>2. \A u \in Updates : update[u].at # "read"
  BY <1>1, NewUpdateType
<1> QED BY <1>1, <1>2 DEF GateInv, Reading

LEMMA NobodyReads ==
  ASSUME GateInv, loginRequired, ~entered, [Next]_vars
  PROVE  Reading' = {} /\ HumansWait
<1>1. ~PassesRequire /\ Reading = {}
  BY DEF GateInv, PassesRequire
<1>2. ~DeleteTarget /\ ~HumanAPI
  <2>1. \A u \in Updates : ~WriteSettings(u)
    BY <1>1 DEF WriteSettings, Reading
  <2> QED BY <1>1, <2>1 DEF DeleteTarget, HumanAPI
<1>3. UNCHANGED registered /\ (Public \/ Surroundings \/ UNCHANGED vars)
  BY <1>2 DEF Next, vars
<1>4. CASE UNCHANGED <<settings, captures>> /\ (UNCHANGED update \/ CapturesRestart)
  <2>1. UNCHANGED update => Reading' = {}
    BY <1>1 DEF Reading
  <2>2. CapturesRestart => Reading' = {}
    <3> SUFFICES ASSUME CapturesRestart PROVE Reading' = {}
      OBVIOUS
    <3>1. update' = [u \in Updates |-> IF update[u].at = "new" THEN NewUpdate ELSE Done(NewUpdate)]
      BY DEF CapturesRestart
    <3>2. \A u \in Updates : update'[u].at # "read"
      BY <3>1, NewUpdateType
    <3> QED BY <3>2 DEF Reading
  <2> QED BY <1>3, <1>4, <2>1, <2>2 DEF HumansWait
<1>5. CASE \E c \in Calls : Record(c)
  <2>1. PICK c \in Calls : Record(c)
    BY <1>5
  <2> DEFINE id == SessionId(call[c].client, call[c].started)
  <2>2. (id \in DOMAIN captures => DOMAIN captures' = DOMAIN captures) /\ id \in DOMAIN captures'
    BY <2>1 DEF Record
  <2>3. UNCHANGED <<settings, update>>
    BY <2>1 DEF Record
  <2> HIDE DEF id
  <2>4. DOMAIN captures \ DOMAIN captures' # {} => DOMAIN captures' \ DOMAIN captures # {}
    BY <2>2
  <2>5. Reading' = {}
    BY <1>1, <2>3 DEF Reading
  <2> QED BY <1>3, <2>3, <2>4, <2>5 DEF HumansWait
<1>6. Public => \/ \E c \in Calls : Record(c)
                \/ UNCHANGED <<settings, captures, update>>
  BY DEF Public, Admit, Forward, captureVars
<1>7. Surroundings => UNCHANGED <<settings, captures>> /\ (UNCHANGED update \/ CapturesRestart)
  BY DEF Surroundings, Tick, CapturesRestart, captureVars
<1>8. UNCHANGED vars => UNCHANGED <<settings, captures, update>>
  BY DEF vars, captureVars
<1> QED BY <1>3, <1>4, <1>5, <1>6, <1>7, <1>8

LEMMA NextKeepsGate == GateInv /\ [Next]_vars => GateInv'
<1> SUFFICES ASSUME GateInv, [Next]_vars, loginRequired', ~entered' PROVE session' # "live" /\ Reading' = {}
  BY DEF GateInv
<1>1. loginRequired
  <2>1. UNCHANGED gateVars \/ UNCHANGED vars => loginRequired
    BY DEF gateVars, vars
  <2> QED BY <2>1 DEF Next, vars, gateVars, Public, Login, SignIn, Deny, Callback, Logout, HumanAPI, Surroundings,
         Discover, SessionExpires, StateExpires, ProviderChanges, GateRestart, DeleteTarget
<1>2. CASE Next /\ ~DeleteTarget
  <2>1. entered' = (entered \/ session' = "live")
    BY <1>2 DEF Next
  <2>2. ~entered /\ session' # "live"
    BY <2>1, ZenonT(30)
  <2> QED BY <1>1, <2>2, NobodyReads
<1>3. CASE DeleteTarget \/ UNCHANGED vars
  <2>1. entered' = entered /\ session' = session
    BY <1>3, ZenonT(30) DEF DeleteTarget, vars, gateVars
  <2> QED BY <1>1, <2>1, NobodyReads DEF GateInv
<1> QED BY <1>2, <1>3

(***************************************************************************)
(* Until someone has signed in, nothing a request sends changes the        *)
(* settings, deletes the target or deletes a session.                      *)
(***************************************************************************)
THEOREM HumanActionsAlwaysNeedASession == Spec => HumanActionsNeedASession
<1>1. GateInv /\ [Next]_vars => [HumansWait]_vars
  BY NobodyReads DEF HumansWait
<1> QED BY <1>1, InitGate, NextKeepsGate, PTL DEF Spec, HumanActionsNeedASession, HumansWait

-----------------------------------------------------------------------------
(***************************************************************************)
(* Replays.  RecordCapture sees an event only when its answer is there, so *)
(* that the order of a session's events rests on its client: of a client   *)
(* that never hurried at most one request is under way, and it started     *)
(* when the sessions of the client had all been updated.                   *)
(***************************************************************************)
UnderWay(c) == call[c].at \in {"admitted", "upstream"}

\* A session's events, with its start and its last update.
InOrder(events, begun, updated) ==
  \A i \in DOMAIN events :
    /\ events[i].time >= 0
    /\ begun + events[i].time + events[i].latency <= updated
    /\ i > 1 => events[i].time >= events[i - 1].time + events[i - 1].latency

SessionInOrder(id) ==
  /\ captures[id].started <= captures[id].updated /\ captures[id].updated <= now
  /\ id[2] \notin hurried =>
       InOrder(captures[id].events, captures[id].started, captures[id].updated)

CallIsSerial(c) ==
  UnderWay(c) /\ call[c].client \notin hurried =>
    /\ \A d \in Calls : UnderWay(d) /\ call[d].client = call[c].client => c = d
    /\ call[c].at = "upstream" => \A id \in DOMAIN captures :
         id[2] = call[c].client => captures[id].updated <= call[c].started

SerialInv ==
  /\ \A id \in DOMAIN captures : SessionInOrder(id)
  /\ \A c \in Calls : CallIsSerial(c)

LEMMA InitSerial == Init => SerialInv
<1> SUFFICES ASSUME Init PROVE SerialInv
  OBVIOUS
<1>1. call = [c \in Calls |-> IF c <= 0 THEN Done(NewCall) ELSE NewCall] /\ DOMAIN captures = {}
  BY DEF Init, InitAfter, CapturesInit
<1>2. \A c \in Calls : ~UnderWay(c)
  BY <1>1 DEF UnderWay, Done, NewCall
<1> QED BY <1>1, <1>2 DEF SerialInv, CallIsSerial

(***************************************************************************)
(* One more event, or only a later update.                                 *)
(***************************************************************************)
LEMMA AppendInOrder ==
  ASSUME NEW events \in Seq(Event), NEW begun \in Nat, NEW updated \in Nat, begun <= updated,
         InOrder(events, begun, updated), NEW started \in Nat, updated <= started,
         NEW end \in Nat, started <= end, NEW e \in Event,
         e.time = started - begun, e.latency = end - started,
         NEW longer \in {events, Append(events, e)}
  PROVE  InOrder(longer, begun, end)
<1>1. Len(events) \in Nat /\ DOMAIN events = 1 .. Len(events)
  OBVIOUS
<1>2. \A i \in 1 .. Len(events) : events[i].time \in Int /\ events[i].latency \in Nat
  <2>1. \A i \in 1 .. Len(events) : events[i] \in Event
    BY <1>1
  <2> QED BY <2>1 DEF Event
<1>3. ASSUME NEW i \in 1 .. Len(events)
      PROVE  /\ events[i].time >= 0
             /\ begun + events[i].time + events[i].latency <= end
             /\ i > 1 => events[i].time >= events[i - 1].time + events[i - 1].latency
  <2>1. /\ events[i].time >= 0
        /\ begun + events[i].time + events[i].latency <= updated
        /\ i > 1 => events[i].time >= events[i - 1].time + events[i - 1].latency
    BY <1>1 DEF InOrder
  <2>2. PICK time \in Int, latency \in Nat : time = events[i].time /\ latency = events[i].latency
    BY <1>2
  <2>3. begun + time + latency <= updated
    BY <2>1, <2>2, Zenon
  <2>4. begun + time + latency <= end
    BY <2>3
  <2>5. begun + events[i].time + events[i].latency <= end
    BY <2>2, <2>4, Zenon
  <2> QED BY <2>1, <2>5, Zenon
<1>4. CASE longer = events
  BY <1>1, <1>3, <1>4 DEF InOrder
<1>5. CASE longer = Append(events, e)
  <2>1. /\ DOMAIN longer = 1 .. Len(events) + 1
        /\ \A i \in 1 .. Len(events) : longer[i] = events[i]
        /\ longer[Len(events) + 1] = e
    BY <1>1, <1>5
  <2>2. ASSUME NEW i \in 1 .. Len(events)
        PROVE  /\ longer[i].time >= 0
               /\ begun + longer[i].time + longer[i].latency <= end
               /\ i > 1 => longer[i].time >= longer[i - 1].time + longer[i - 1].latency
    <3>1. longer[i] = events[i] /\ (i > 1 => longer[i - 1] = events[i - 1])
      <4>1. i > 1 => i - 1 \in 1 .. Len(events)
        BY <1>1
      <4> QED BY <2>1, <4>1
    <3> QED BY <1>3, <3>1
  <2>3. /\ e.time >= 0
        /\ begun + e.time + e.latency <= end
        /\ Len(events) + 1 > 1 => e.time >= events[Len(events)].time + events[Len(events)].latency
    <3>1. Len(events) + 1 > 1 => Len(events) \in 1 .. Len(events)
      BY <1>1
    <3> QED BY <1>1, <1>2, <3>1 DEF InOrder
  <2>4. ASSUME NEW i \in DOMAIN longer
        PROVE  /\ longer[i].time >= 0
               /\ begun + longer[i].time + longer[i].latency <= end
               /\ i > 1 => longer[i].time >= longer[i - 1].time + longer[i - 1].latency
    <3>1. CASE i \in 1 .. Len(events)
      BY <2>2, <3>1
    <3>2. CASE i = Len(events) + 1
      <4>1. i > 1 => i - 1 = Len(events) /\ Len(events) \in 1 .. Len(events)
        BY <1>1, <3>2
      <4> QED BY <2>1, <2>3, <3>2, <4>1
    <3> QED BY <1>1, <2>1, <3>1, <3>2
  <2> QED BY <2>4 DEF InOrder
<1> QED BY <1>4, <1>5

(***************************************************************************)
(* The answer to a request is recorded.                                    *)
(***************************************************************************)
LEMMA RecordKeepsSerial ==
  ASSUME SessionsInv, SerialInv, NEW c \in Calls, Record(c)
  PROVE  SerialInv'
<1> DEFINE client  == call[c].client
           started == call[c].started
           id      == SessionId(client, started)
           isNew   == id \notin DOMAIN captures
           found   == IF isNew THEN [started |-> started, updated |-> now, events |-> << >>]
                        ELSE captures[id]
           e       == EventOf(found, started)
           grown   == IF Len(found.events) < settings.events
                        THEN Append(found.events, e) ELSE found.events
           record  == [started |-> found.started, updated |-> now, events |-> grown]
<1>1. /\ started \in Nat /\ now \in Nat /\ started <= now
      /\ call[c].at = "upstream" /\ UnderWay(c)
      /\ settings.idle \in Nat
  BY DEF SessionsInv, CallRec, Record, UnderWay, SettingsInv, Limit
<1>2. id[2] = client
  BY DEF SessionId
<1>3. PICK ids \in IF isNew THEN Kept(DOMAIN captures) ELSE {DOMAIN captures} :
        captures' = [i \in ids \cup {id} |-> IF i = id THEN record ELSE captures[i]]
  BY DEF Record
<1>4. ids \subseteq DOMAIN captures
  BY <1>3 DEF Kept
<1>5. /\ UNCHANGED <<now, epoch, settings, update, largest, acked, crossed, hurried>>
      /\ call' = [call EXCEPT ![c] = Done(NewCall)]
  BY DEF Record
<1>6. /\ found.started \in Nat /\ found.updated \in Nat /\ found.events \in Seq(Event)
      /\ found.started <= found.updated /\ found.updated <= now
  <2>1. CASE isNew
    <3>1. found.started = started /\ found.updated = now /\ found.events = << >>
      BY <2>1
    <3> HIDE DEF found
    <3> QED BY <1>1, <3>1
  <2>2. CASE ~isNew
    BY <2>2 DEF SessionsInv, SessionFits, Fits, SerialInv, SessionInOrder
  <2> QED BY <2>1, <2>2
<1>7. /\ e \in Event /\ e.time = started - found.started /\ e.latency = now - started
      /\ grown \in {found.events, Append(found.events, e)}
  BY <1>1, <1>6 DEF EventOf, Event
<1>8. ASSUME client \notin hurried
      PROVE  \E updated \in Nat : /\ found.started <= updated /\ updated <= started
                                 /\ InOrder(found.events, found.started, updated)
  <2>1. CASE isNew
    <3>1. found.started = started /\ found.events = << >>
      BY <2>1
    <3> HIDE DEF found
    <3>2. InOrder(found.events, found.started, started)
      BY <3>1 DEF InOrder
    <3> QED BY <1>1, <3>1, <3>2
  <2>2. CASE ~isNew
    <3>1. found = captures[id] /\ id \in DOMAIN captures
      BY <2>2
    <3> HIDE DEF found, id
    <3>2. found.updated <= started
      BY <1>1, <1>2, <1>8, <3>1 DEF SerialInv, CallIsSerial
    <3>3. InOrder(found.events, found.started, found.updated)
      BY <1>2, <1>8, <3>1 DEF SerialInv, SessionInOrder
    <3> QED BY <1>6, <3>2, <3>3
  <2> QED BY <2>1, <2>2
<1> HIDE DEF id, found, e, grown, started
<1>9. client \notin hurried => InOrder(grown, found.started, now)
  BY <1>1, <1>6, <1>7, <1>8, AppendInOrder
<1>10. record.started = found.started /\ record.updated = now /\ record.events = grown
  OBVIOUS
<1> HIDE DEF record
<1>11. ASSUME NEW i \in DOMAIN captures'
       PROVE  SessionInOrder(i)'
  <2>1. CASE i = id
    <3>1. captures'[i] = record
      BY <1>3, <2>1
    <3> QED BY <1>1, <1>2, <1>5, <1>6, <1>9, <1>10, <2>1, <3>1 DEF SessionInOrder
  <2>2. CASE i # id
    <3>1. captures'[i] = captures[i] /\ i \in DOMAIN captures
      BY <1>3, <1>4, <2>2
    <3> QED BY <1>5, <3>1 DEF SerialInv, SessionInOrder
  <2> QED BY <2>1, <2>2
<1>12. ASSUME NEW d \in Calls, UnderWay(d)'
       PROVE  d # c /\ UnderWay(d) /\ call'[d] = call[d]
  <2>1. call'[c].at = "done"
    BY <1>5, NewCallType DEF SessionsInv, Done
  <2> QED BY <1>5, <1>12, <2>1 DEF SessionsInv, UnderWay
<1>13. ASSUME NEW d \in Calls, UnderWay(d)', call'[d].client \notin hurried'
       PROVE  /\ \A other \in Calls : UnderWay(other)' /\ call'[other].client = call'[d].client => d = other
              /\ call'[d].at = "upstream" => \A i \in DOMAIN captures' :
                   i[2] = call'[d].client => captures'[i].updated <= call'[d].started
  <2>1. d # c /\ UnderWay(d) /\ call'[d] = call[d] /\ call[d].client \notin hurried
    BY <1>5, <1>12, <1>13
  <2>2. call[d].client # client
    BY <1>1, <2>1 DEF SerialInv, CallIsSerial
  <2>3. \A other \in Calls : UnderWay(other)' /\ call'[other].client = call'[d].client => d = other
    BY <1>12, <2>1 DEF SerialInv, CallIsSerial
  <2>4. ASSUME NEW i \in DOMAIN captures', i[2] = call'[d].client, call'[d].at = "upstream"
        PROVE  captures'[i].updated <= call'[d].started
    <3>1. i # id
      BY <1>2, <2>1, <2>2, <2>4
    <3>2. captures'[i] = captures[i] /\ i \in DOMAIN captures
      BY <1>3, <1>4, <3>1
    <3> QED BY <2>1, <2>4, <3>2 DEF SerialInv, CallIsSerial
  <2> QED BY <2>3, <2>4
<1> QED BY <1>11, <1>13 DEF SerialInv, CallIsSerial

(***************************************************************************)
(* A request of a client that has none under way, or of one that hurries.  *)
(***************************************************************************)
LEMMA AdmitKeepsSerial ==
  ASSUME SessionsInv, SerialInv, NEW c \in Calls, NEW client, NEW token, Admit(c, client, token)
  PROVE  SerialInv'
<1> DEFINE r == [at |-> "admitted", client |-> client, started |-> 0]
<1>1. /\ call' = [call EXCEPT ![c] = r] /\ r.at = "admitted" /\ r.client = client
      /\ UNCHANGED <<now, captures>>
  BY DEF Admit
<1> HIDE DEF r
<1>2. call'[c] = r /\ \A d \in Calls \ {c} : call'[d] = call[d]
  BY <1>1 DEF SessionsInv
<1>3. /\ hurried \subseteq hurried'
      /\ client \notin hurried' => \A d \in Calls : UnderWay(d) => call[d].client # client
  BY DEF Admit, UnderWay
<1>4. \A id \in DOMAIN captures' : SessionInOrder(id)'
  BY <1>1, <1>3 DEF SerialInv, SessionInOrder
<1>5. ASSUME NEW d \in Calls, UnderWay(d)', call'[d].client \notin hurried',
             NEW other \in Calls, UnderWay(other)', call'[other].client = call'[d].client
      PROVE  d = other
  <2>1. CASE d = c \/ other = c
    BY <1>1, <1>2, <1>3, <1>5, <2>1 DEF UnderWay
  <2>2. CASE d # c /\ other # c
    BY <1>2, <1>3, <1>5, <2>2 DEF UnderWay, SerialInv, CallIsSerial
  <2> QED BY <2>1, <2>2
<1>6. ASSUME NEW d \in Calls, call'[d].client \notin hurried', call'[d].at = "upstream",
             NEW id \in DOMAIN captures', id[2] = call'[d].client
      PROVE  captures'[id].updated <= call'[d].started
  <2>1. d # c /\ call'[d] = call[d] /\ captures' = captures
    BY <1>1, <1>2, <1>6
  <2> QED BY <1>3, <1>6, <2>1 DEF UnderWay, SerialInv, CallIsSerial
<1> QED BY <1>4, <1>5, <1>6 DEF SerialInv, CallIsSerial

LEMMA ForwardKeepsSerial ==
  ASSUME SessionsInv, SerialInv, NEW c \in Calls, Forward(c, registered)
  PROVE  SerialInv'
<1> DEFINE u == [at |-> "upstream", client |-> call[c].client, started |-> now]
           r == IF registered THEN u ELSE Done(NewCall)
<1>1. call' = [call EXCEPT ![c] = r] /\ UNCHANGED <<now, captures, hurried>> /\ UnderWay(c)
  BY DEF Forward, UnderWay, SessionsInv
<1>2. \/ r.at = "done"
      \/ r.at = "upstream" /\ r.client = call[c].client /\ r.started = now
  BY DEF Done, NewCall
<1> HIDE DEF u, r
<1>3. call'[c] = r /\ \A d \in Calls \ {c} : call'[d] = call[d]
  BY <1>1 DEF SessionsInv
<1>4. \A id \in DOMAIN captures' : SessionInOrder(id)' /\ captures'[id].updated <= now
  BY <1>1 DEF SerialInv, SessionInOrder
<1>5. \A d \in Calls : UnderWay(d)' => UnderWay(d) /\ call'[d].client = call[d].client
  BY <1>1, <1>2, <1>3 DEF UnderWay
<1>6. ASSUME NEW d \in Calls, call'[d].client \notin hurried', call'[d].at = "upstream",
             NEW id \in DOMAIN captures', id[2] = call'[d].client
      PROVE  captures'[id].updated <= call'[d].started
  <2>1. CASE d = c
    BY <1>2, <1>3, <1>4, <1>6, <2>1
  <2>2. CASE d # c
    BY <1>1, <1>3, <1>6, <2>2 DEF UnderWay, SerialInv, CallIsSerial
  <2> QED BY <2>1, <2>2
<1>7. ASSUME NEW d \in Calls, UnderWay(d)', call'[d].client \notin hurried',
             NEW other \in Calls, UnderWay(other)', call'[other].client = call'[d].client
      PROVE  d = other
  BY <1>1, <1>5, <1>7 DEF SerialInv, CallIsSerial
<1> QED BY <1>4, <1>6, <1>7 DEF SerialInv, CallIsSerial

LEMMA OthersKeepSerial ==
  ASSUME SessionsInv, SerialInv, UNCHANGED hurried,
         DOMAIN captures' \subseteq DOMAIN captures,
         \A id \in DOMAIN captures' : captures'[id] = captures[id],
         now' \in {now, now + 1},
         \A c \in Calls : call'[c] = call[c] \/ ~UnderWay(c)'
  PROVE  SerialInv'
<1>1. ASSUME NEW id \in DOMAIN captures' PROVE SessionInOrder(id)'
  <2>1. SessionInOrder(id) /\ captures'[id] = captures[id] /\ captures[id].updated \in Nat
    BY DEF SerialInv, SessionsInv, SessionFits
  <2>2. captures[id].updated <= now'
    BY <2>1 DEF SessionsInv, SessionInOrder
  <2> QED BY <2>1, <2>2 DEF SessionInOrder
<1>2. \A c \in Calls : UnderWay(c)' => UnderWay(c) /\ call'[c] = call[c]
  BY DEF UnderWay
<1>3. ASSUME NEW c \in Calls, UnderWay(c)', call'[c].client \notin hurried'
      PROVE  /\ \A d \in Calls : UnderWay(d)' /\ call'[d].client = call'[c].client => c = d
             /\ call'[c].at = "upstream" => \A id \in DOMAIN captures' :
                  id[2] = call'[c].client => captures'[id].updated <= call'[c].started
  BY <1>2, <1>3 DEF SerialInv, CallIsSerial
<1> QED BY <1>1, <1>3 DEF SerialInv, CallIsSerial

LEMMA NextKeepsSerial == SessionsInv /\ SerialInv /\ [Next]_vars => SerialInv'
<1> SUFFICES ASSUME SessionsInv, SerialInv, [Next]_vars PROVE SerialInv'
  OBVIOUS
<1> DEFINE kept == UNCHANGED <<hurried, captures, now, call>>
<1>1. CASE kept
  BY <1>1, OthersKeepSerial
<1>2. CASE Public
  <2>1. \/ kept
        \/ \E c \in Calls : \/ \E client \in Clients, token \in Tokens : Admit(c, client, token)
                           \/ Forward(c, registered)
                           \/ Record(c)
    BY <1>2 DEF Public, captureVars
  <2> HIDE DEF kept
  <2> QED BY <1>1, <2>1, AdmitKeepsSerial, ForwardKeepsSerial, RecordKeepsSerial
<1>3. CASE HumanAPI
  <2>1. kept \/ \E id \in DOMAIN captures : DeleteCapture(id)
    BY <1>3 DEF HumanAPI, ReadSettings, WriteSettings
  <2>2. ASSUME NEW id \in DOMAIN captures, DeleteCapture(id) PROVE SerialInv'
    BY <2>2, OthersKeepSerial DEF DeleteCapture
  <2> HIDE DEF kept
  <2> QED BY <1>1, <2>1, <2>2
<1>4. CASE Surroundings
  <2>1. kept \/ Tick \/ CapturesRestart
    BY <1>4 DEF Surroundings, captureVars
  <2>2. CASE Tick
    BY <2>2, OthersKeepSerial DEF Tick
  <2>3. CASE CapturesRestart
    <3>1. \A c \in Calls : ~UnderWay(c)'
      BY <2>3 DEF CapturesRestart, UnderWay, Done, NewCall
    <3> QED BY <2>3, <3>1, OthersKeepSerial DEF CapturesRestart
  <2> HIDE DEF kept
  <2> QED BY <1>1, <2>1, <2>2, <2>3
<1>5. CASE DeleteTarget \/ UNCHANGED vars
  <2>1. kept
    BY <1>5 DEF DeleteTarget, vars, captureVars
  <2> HIDE DEF kept
  <2> QED BY <1>1, <2>1
<1> QED BY <1>2, <1>3, <1>4, <1>5 DEF Next

(***************************************************************************)
(* What RecordCapture notes of a client that sends one request after the   *)
(* other is replayed in the client's order, whatever other clients send,   *)
(* the limits do and restarts lose: no event's time lies before the end of *)
(* the one before it.                                                      *)
(***************************************************************************)
THEOREM SerialClientsAlwaysReplayInOrder == Spec => []SerialClientsReplayInOrder
<1>1. SerialInv => SerialClientsReplayInOrder
  BY DEF SerialInv, SessionInOrder, InOrder, SerialClientsReplayInOrder
<1> QED BY <1>1, InitSerial, NextKeepsSerial, InitSessions, NextKeepsSessions, PTL DEF Spec
=============================================================================
