---------------------------- MODULE PlatformProofs ----------------------------
(***************************************************************************)
(* What the parts every request goes through promise when messages are     *)
(* lost, processes die and clients ask again: that refreshing alone never  *)
(* ends a session (Sessions), what an Idempotency-Key gives the one who    *)
(* asks again (Idempotency), and what the delivery of events may repeat    *)
(* and may not lose (Outbox).                                              *)
(*                                                                         *)
(* Sessions, for any number of tabs, sessions, refreshes and lost          *)
(* messages: a session ends for a token used again only if that token      *)
(* outlived its grace period on its way.  The inductive invariant is       *)
(* SessionsInv.  Most steps only forget: no token is carried or promised   *)
(* that was not before, and sessions only end; for these one lemma will do *)
(* (ForgettingKeepsInv).  The others are a sign-in, a rotation, the end of *)
(* a grace period, and a token that reaches the cookie.                    *)
(* GoesOn, on top of it, says that the only session there is can go on:    *)
(* its unused token is never cleared or overwritten.                       *)
(*                                                                         *)
(* Keys, for any keys, requests, attempts, failures and expiries, whether  *)
(* or not a client waits for its answer: the inductive invariant is        *)
(* KeysInv.  What an attempt found when it looked its key up may be stale  *)
(* when it runs or stores; then it was under way together with another one *)
(* (TogetherIsCrowded, AloneFindsNothing), which is what the runs of a key *)
(* are counted against (RunsCounted).                                      *)
(*                                                                         *)
(* Events, for any number of sales, processes, crashes and errors and any  *)
(* size of a batch.  The inductive invariant is IInv.  It rests on the row *)
(* locks: an event that some poll has locked is pending, and no other poll *)
(* has it (Locks).                                                         *)
(***************************************************************************)
EXTENDS Sessions, Idempotency, Outbox, FiniteSetTheorems, TLAPS

\* The token that an answer brings to the tab t
Promised(t) == req[t].token

\* No token exists of a session that was not opened yet.
OpenedFirst ==
  \A s \in Session : session[s].status = "none" =>
    /\ \A token \in Token : token.s = s => ~Carried(token)
    /\ \A t \in Tab : Promised(t).s # s

\* A token that is carried for a live session is its last one, in its grace period, or late.
CarriedIsKnown ==
  \A token \in Token : Live(token.s) /\ Carried(token) =>
    /\ token.n <= session[token.s].last
    /\ token.n = session[token.s].last \/ token \in grace \/ session[token.s].late

\* A token promised for a live session is its last one, and it is nowhere else yet.
PromisedIsLast ==
  \A t \in Tab : Live(Promised(t).s) =>
    /\ Promised(t).n = session[Promised(t).s].last
    /\ ~Carried(Promised(t))
    /\ \A u \in Tab \ {t} : Promised(u) # Promised(t)

\* Before it is served, a refresh brings nothing.
NothingBeforeTheAnswer == \A t \in Tab : req[t].code = "none" => Promised(t) = NoToken

SessionsInv ==
  /\ SessionsTypeOK
  /\ OpenedFirst
  /\ CarriedIsKnown
  /\ PromisedIsLast
  /\ NothingBeforeTheAnswer
  /\ ReuseOnlyIfLate

-----------------------------------------------------------------------------
(* Types.                                                                  *)

LEMMA NoTokenIsToken == NoToken \in Token /\ NoToken.s \notin Session
  BY SessionsAssumption DEF NoToken, Token, NoSession, Session

LEMMA QuietType ==
  Quiet \in Refresh
  BY NoTokenIsToken DEF Quiet, Kind, Code, Refresh

LEMMA SignedOutType ==
  SignedOut \in TabState
  BY DEF SignedOut, TabState

LEMMA LiveIsSession == ASSUME NEW s \in Session \cup {NoSession}, Live(s) PROVE s \in Session
  BY DEF Live

LEMMA InitTypeOK == SessionsInit => SessionsTypeOK
  BY NoTokenIsToken, QuietType, SignedOutType, SessionsAssumption
  DEF SessionsInit, SessionsTypeOK, Unopened, SessionState

\* The state of a session that has ended
LEMMA EndedState == Over \in SessionState /\ Over.status = "ended"
  BY SessionsAssumption DEF Over, SessionState

LEMMA EndedType ==
  ASSUME SessionsTypeOK, NEW s \in Session
  PROVE  /\ Ended(s) \in [Session -> SessionState]
         /\ Ended(s)[s].status = "ended"
         /\ \A o \in Session \ {s} : Ended(s)[o] = session[o]
  BY EndedState DEF SessionsTypeOK, Ended

LEMMA OthersEndedType ==
  ASSUME SessionsTypeOK, NEW own
  PROVE  /\ OthersEnded(own) \in [Session -> SessionState]
         /\ \A o \in Session : OthersEnded(own)[o] = session[o] \/ OthersEnded(own)[o].status = "ended"
  BY EndedState DEF SessionsTypeOK, OthersEnded

LEMMA LoginType == ASSUME SessionsTypeOK, NEW t \in Tab, Login(t) PROVE SessionsTypeOK'
<1>1. PICK s \in Session :
        /\ session' = [session EXCEPT ![s].status = "live", ![s].last = 1]
        /\ cookie' = [s |-> s, n |-> 1]
        /\ tab' = [tab EXCEPT ![t] = [access |-> s, in |-> TRUE, timer |-> TRUE]]
  BY DEF Login
<1>2. UNCHANGED <<grace, req, lost, unsent>>
  BY DEF Login
<1>3. 1 \in 0..MaxTokens
  BY SessionsAssumption
<1>4. cookie' \in Token
  BY <1>1, <1>3 DEF Token
<1> QED BY <1>1, <1>2, <1>3, <1>4 DEF SessionsTypeOK, SessionState, TabState

LEMMA SendType == ASSUME SessionsTypeOK, NEW t \in Tab, Reload(t) \/ RefreshDue(t) PROVE SessionsTypeOK'
<1>1. PICK kind \in Kind : req' = [req EXCEPT ![t] = [Quiet EXCEPT !.kind = kind, !.with = cookie]]
  BY DEF Reload, RefreshDue, Send, Kind
<1> DEFINE r == [Quiet EXCEPT !.kind = kind, !.with = cookie]
<1>2. req' \in [Tab -> Refresh]
  <2>1. r \in Refresh
    BY <1>1, QuietType DEF SessionsTypeOK, Refresh
  <2>2. req' = [req EXCEPT ![t] = r]
    BY <1>1
  <2> HIDE DEF r
  <2> QED BY <2>1, <2>2 DEF SessionsTypeOK
<1>3. tab' \in [Tab -> TabState]
  BY SignedOutType DEF SessionsTypeOK, Reload, RefreshDue, TabState
<1>4. UNCHANGED <<session, grace, cookie, lost, unsent>>
  BY DEF Reload, RefreshDue
<1> QED BY <1>2, <1>3, <1>4 DEF SessionsTypeOK

LEMMA CallType == ASSUME SessionsTypeOK, NEW t \in Tab, Call(t) PROVE SessionsTypeOK'
<1>1. session' \in [Session -> SessionState]
  BY OthersEndedType DEF SessionsTypeOK, Call
<1>2. tab' \in [Tab -> TabState]
  BY SignedOutType DEF SessionsTypeOK, Call, OnSessionEnded
<1>3. grace' \subseteq Token
  BY DEF SessionsTypeOK, Call
<1>4. UNCHANGED <<cookie, req, lost, unsent>>
  BY DEF Call
<1> QED BY <1>1, <1>2, <1>3, <1>4 DEF SessionsTypeOK

LEMMA SignOutType == ASSUME SessionsTypeOK, NEW t \in Tab, SignOut(t) PROVE SessionsTypeOK'
<1> DEFINE own == tab[t].access
<1>1. own \in Session \cup {NoSession}
  BY DEF SessionsTypeOK, TabState
<1>2. session' = session \/ (Live(own) /\ session' = Ended(own))
  BY DEF SignOut
<1>3. session' \in [Session -> SessionState]
  BY <1>1, <1>2, EndedType, LiveIsSession DEF SessionsTypeOK
<1>4. tab' \in [Tab -> TabState]
  BY SignedOutType DEF SessionsTypeOK, SignOut
<1>5. grace' \subseteq Token /\ cookie' \in Token
  BY NoTokenIsToken DEF SessionsTypeOK, SignOut, Forget
<1>6. lost' \in 0..MaxLost /\ UNCHANGED <<req, unsent>>
  BY SessionsAssumption DEF SessionsTypeOK, SignOut
<1> QED BY <1>3, <1>4, <1>5, <1>6 DEF SessionsTypeOK

LEMMA ServeType == ASSUME SessionsTypeOK, NEW t \in Tab, ServeRefresh(t) PROVE SessionsTypeOK'
<1> DEFINE token == req[t].with
<1>1. token \in Token
  BY DEF SessionsTypeOK, Refresh
<1>2. UNCHANGED <<cookie, tab, lost>> /\ unsent' \in 0..MaxLost
  BY SessionsAssumption DEF ServeRefresh, Deny, SessionsTypeOK
<1>3. CASE \E code \in Code, got \in Token, s \in Session \cup {NoSession} :
             Answer(t, code, got, s) /\ session' \in [Session -> SessionState] /\ grace' \subseteq Token
  <2>1. PICK code \in Code, got \in Token, s \in Session \cup {NoSession} : Answer(t, code, got, s)
    BY <1>3
  <2> DEFINE r == [req[t] EXCEPT !.code = code, !.token = got, !.s = s]
  <2>2. r \in Refresh
    BY DEF SessionsTypeOK, Refresh
  <2>3. req' = [req EXCEPT ![t] = r]
    BY <2>1 DEF Answer
  <2> HIDE DEF r
  <2>4. req' \in [Tab -> Refresh]
    BY <2>2, <2>3 DEF SessionsTypeOK
  <2> QED BY <1>2, <1>3, <2>4 DEF SessionsTypeOK
<1>4. CASE \/ Refuse(t, "MISSING") /\ UNCHANGED <<session, grace>>
           \/ Refuse(t, "TOKEN_REVOKED") /\ UNCHANGED <<session, grace>>
           \/ Refuse(t, "DENIED") /\ UNCHANGED <<session, grace>>
  BY <1>3, <1>4, NoTokenIsToken DEF SessionsTypeOK, Refuse, Code
<1>5. CASE /\ Live(token.s) /\ Refuse(t, "TOKEN_REVOKED") /\ Forget(token.s)
           /\ session' = [session EXCEPT ![token.s].status = "token_reuse"]
  <2>1. session' \in [Session -> SessionState]
    BY <1>5 DEF SessionsTypeOK, SessionState
  <2>2. grace' \subseteq Token
    BY <1>5 DEF SessionsTypeOK, Forget
  <2> QED BY <1>3, <1>5, <2>1, <2>2, NoTokenIsToken DEF Refuse, Code
<1>6. CASE /\ Live(token.s) /\ ~IsOver(token.s)
           /\ Rotate(token)
           /\ \/ Answer(t, "ok", [token EXCEPT !.n = session[token.s].last + 1], token.s)
              \/ Refuse(t, "DENIED")
  <2>1. token.s \in Session
    BY <1>1, <1>6, LiveIsSession DEF Token
  <2>2. session[token.s] \in SessionState
    BY <2>1 DEF SessionsTypeOK
  <2>3. session[token.s].last + 1 \in 0..MaxTokens
    BY <1>6, <2>2, SessionsAssumption DEF SessionState, IsOver
  <2>4. [token EXCEPT !.n = session[token.s].last + 1] \in Token
    BY <1>1, <2>3 DEF Token
  <2>5. session' \in [Session -> SessionState] /\ grace' \subseteq Token
    BY <1>1, <1>6, <2>1, <2>2, <2>3 DEF SessionsTypeOK, SessionState, Rotate
  <2> QED BY <1>3, <1>6, <2>1, <2>4, <2>5, NoTokenIsToken DEF Refuse, Code
<1>7. CASE /\ Live(token.s) /\ session' = Ended(token.s) /\ Refuse(t, "TOKEN_REVOKED") /\ Forget(token.s)
  <2>1. token.s \in Session
    BY <1>1, <1>7, LiveIsSession DEF Token
  <2>2. session' \in [Session -> SessionState] /\ grace' \subseteq Token
    BY <1>7, <2>1, EndedType DEF SessionsTypeOK, Forget
  <2> QED BY <1>3, <1>7, <2>2, NoTokenIsToken DEF Refuse, Code
<1>8. CASE Live(token.s) /\ Answer(t, "ok", NoToken, token.s) /\ UNCHANGED <<session, grace>>
  <2>1. token.s \in Session
    BY <1>1, <1>8, LiveIsSession DEF Token
  <2> QED BY <1>3, <1>8, <2>1, NoTokenIsToken DEF SessionsTypeOK, Code
<1> QED BY <1>4, <1>5, <1>6, <1>7, <1>8 DEF ServeRefresh, Deny

LEMMA ApplyType == ASSUME SessionsTypeOK, NEW t \in Tab, ApplyRefresh(t) PROVE SessionsTypeOK'
<1>1. req[t] \in Refresh
  BY DEF SessionsTypeOK
<1>2. req' \in [Tab -> Refresh]
  BY QuietType DEF SessionsTypeOK, ApplyRefresh, Ends
<1>3. cookie' \in Token
  BY <1>1, NoTokenIsToken DEF SessionsTypeOK, ApplyRefresh, CookieAfter, Refresh
<1>4. tab' \in [Tab -> TabState]
  <2>1. CASE tab' = [WithAccess(t, req[t].s) EXCEPT ![t].in = @ \/ req[t].kind = "restore"]
    <3> DEFINE with == WithAccess(t, req[t].s)
               in == with[t].in \/ req[t].kind = "restore"
    <3>1. with \in [Tab -> TabState]
      BY <1>1 DEF SessionsTypeOK, WithAccess, TabState, Refresh
    <3>2. in \in BOOLEAN
      OBVIOUS
    <3>3. tab' = [with EXCEPT ![t].in = in]
      BY <2>1
    <3> HIDE DEF with, in
    <3> QED BY <3>1, <3>2, <3>3 DEF TabState
  <2>2. CASE tab' = OnSessionEnded(t) \/ tab' = WithoutToken(t)
    BY <2>2, SignedOutType DEF SessionsTypeOK, OnSessionEnded, WithoutToken, TabState
  <2> QED BY <2>1, <2>2 DEF ApplyRefresh
<1>5. UNCHANGED <<session, grace, lost, unsent>>
  BY DEF ApplyRefresh
<1> QED BY <1>2, <1>3, <1>4, <1>5 DEF SessionsTypeOK

LEMMA LoseType == ASSUME SessionsTypeOK, NEW t \in Tab, Lose(t) PROVE SessionsTypeOK'
<1>1. req' \in [Tab -> Refresh]
  BY QuietType DEF SessionsTypeOK, Lose, Ends
<1>2. tab' \in [Tab -> TabState]
  BY DEF SessionsTypeOK, Lose, WithoutToken, TabState
<1>3. lost' \in 0..MaxLost
  BY SessionsAssumption DEF SessionsTypeOK, Lose
<1> QED BY <1>1, <1>2, <1>3 DEF SessionsTypeOK, Lose

LEMMA EndElsewhereType == ASSUME SessionsTypeOK, NEW s \in Session, EndElsewhere(s) PROVE SessionsTypeOK'
  BY EndedType DEF SessionsTypeOK, EndElsewhere, Forget

LEMMA GraceEndsType == ASSUME SessionsTypeOK, NEW token \in Token, GraceEnds(token) PROVE SessionsTypeOK'
<1>1. session' \in [Session -> SessionState]
  BY DEF SessionsTypeOK, GraceEnds, SessionState, Carried
<1> QED BY <1>1 DEF SessionsTypeOK, GraceEnds

\* Every step keeps the types.
LEMMA StepTypeOK == ASSUME SessionsTypeOK, [SessionsNext]_sessionVars PROVE SessionsTypeOK'
<1>1. CASE \E t \in Tab : Login(t)
  BY <1>1, LoginType
<1>2. CASE \E t \in Tab : Reload(t) \/ RefreshDue(t)
  BY <1>2, SendType
<1>3. CASE \E t \in Tab : Call(t)
  BY <1>3, CallType
<1>4. CASE \E t \in Tab : SignOut(t)
  BY <1>4, SignOutType
<1>5. CASE \E t \in Tab : ServeRefresh(t)
  BY <1>5, ServeType
<1>6. CASE \E t \in Tab : ApplyRefresh(t)
  BY <1>6, ApplyType
<1>7. CASE \E t \in Tab : Lose(t)
  BY <1>7, LoseType
<1>8. CASE \E s \in Session : EndElsewhere(s)
  BY <1>8, EndElsewhereType
<1>9. CASE \E token \in Token : GraceEnds(token)
  BY <1>9, GraceEndsType
<1>10. CASE UNCHANGED sessionVars
  BY <1>10 DEF SessionsTypeOK, sessionVars
<1> QED BY <1>1, <1>2, <1>3, <1>4, <1>5, <1>6, <1>7, <1>8, <1>9, <1>10 DEF SessionsNext

-----------------------------------------------------------------------------
(* Steps that only forget.                                                 *)

\* A step after which fewer tokens are under way keeps the invariant, if it leaves live
\* sessions, and their grace periods, as they were.
LEMMA ForgettingKeepsInv ==
  ASSUME SessionsInv, SessionsTypeOK',
         \A token \in Token : token # NoToken /\ Carried(token)' => Carried(token),
         \A t \in Tab : Promised(t)' \in {NoToken, Promised(t)},
         \A t \in Tab : req'[t].code = "none" => Promised(t)' = NoToken,
         \A s \in Session :
           \/ session'[s] = session[s] /\ (Live(s) => \A token \in grace : token.s = s => token \in grace')
           \/ session'[s].status = "ended"
           \/ session'[s].status = "token_reuse" /\ session'[s].late
  PROVE  SessionsInv'
<1>1. ASSUME NEW s \in Session, Live(s)'
      PROVE  Live(s) /\ session'[s] = session[s] /\ \A token \in grace : token.s = s => token \in grace'
  BY <1>1 DEF Live
<1>2. OpenedFirst'
  BY NoTokenIsToken DEF OpenedFirst, SessionsInv
<1>3. CarriedIsKnown'
  <2> SUFFICES ASSUME NEW token \in Token, Live(token.s)', Carried(token)'
               PROVE  /\ token.n <= session'[token.s].last
                      /\ token.n = session'[token.s].last \/ token \in grace' \/ session'[token.s].late
    BY DEF CarriedIsKnown
  <2>1. token.s \in Session
    BY DEF Token, Live
  <2>2. token # NoToken /\ Carried(token)
    BY <2>1, NoTokenIsToken
  <2>3. /\ Live(token.s) /\ session'[token.s] = session[token.s]
        /\ token \in grace => token \in grace'
    BY <1>1, <2>1
  <2> QED BY <2>2, <2>3 DEF SessionsInv, CarriedIsKnown
<1>4. PromisedIsLast'
  <2> SUFFICES ASSUME NEW t \in Tab, Live(Promised(t).s)'
               PROVE  /\ req'[t].token.n = session'[req'[t].token.s].last
                      /\ ~Carried(Promised(t))'
                      /\ \A u \in Tab \ {t} : Promised(u)' # Promised(t)'
    BY DEF PromisedIsLast, Promised
  <2>1. Promised(t)' \in Token /\ req'[t].token.s \in Session
    BY DEF Promised, SessionsInv, SessionsTypeOK, Refresh, Token, Live
  <2>2. Promised(t)' = Promised(t) /\ Promised(t) # NoToken
    BY <2>1, NoTokenIsToken DEF Promised
  <2>3. Live(Promised(t).s) /\ session'[Promised(t).s] = session[Promised(t).s]
    BY <1>1, <2>1, <2>2 DEF Promised
  <2>4. /\ Promised(t).n = session[Promised(t).s].last
        /\ ~Carried(Promised(t))
        /\ \A u \in Tab \ {t} : Promised(u) # Promised(t)
    BY <2>3 DEF SessionsInv, PromisedIsLast
  <2>5. ~Carried(Promised(t))'
    <3> SUFFICES ASSUME Carried(Promised(t))' PROVE FALSE
      OBVIOUS
    <3> PICK token \in Token : token = Promised(t)'
      BY <2>1
    <3> QED BY <2>2, <2>4 DEF Carried, Promised
  <2>6. \A u \in Tab \ {t} : Promised(u)' # Promised(t)'
    BY <2>2, <2>4
  <2> QED BY <2>2, <2>3, <2>4, <2>5, <2>6 DEF Promised
<1>5. NothingBeforeTheAnswer'
  BY DEF NothingBeforeTheAnswer
<1>6. ReuseOnlyIfLate'
  BY DEF SessionsInv, ReuseOnlyIfLate
<1> QED BY <1>2, <1>3, <1>4, <1>5, <1>6 DEF SessionsInv

\* A tab's request that ends, or is answered without a token, carries and brings nothing.
LEMMA AnsweredCarriesLess ==
  ASSUME SessionsTypeOK, NEW t \in Tab, NEW r \in Refresh, r.kind = "none" \/ r.code # "none",
         req' = [req EXCEPT ![t] = r], cookie' \in {cookie, NoToken}
  PROVE  \A token \in Token : token # NoToken /\ Carried(token)' => Carried(token)
  BY DEF SessionsTypeOK, Carried, Unserved

LEMMA SendKeepsSessions == ASSUME SessionsInv, NEW t \in Tab, Reload(t) \/ RefreshDue(t) PROVE SessionsInv'
<1>1. SessionsTypeOK'
  BY SendType DEF SessionsInv
<1>2. PICK kind \in Kind : req' = [req EXCEPT ![t] = [Quiet EXCEPT !.kind = kind, !.with = cookie]]
  BY DEF Reload, RefreshDue, Send, Kind
<1>3. UNCHANGED <<session, grace, cookie>>
  BY DEF Reload, RefreshDue
<1>4. \A token \in Token : token # NoToken /\ Carried(token)' => Carried(token)
  BY <1>2, <1>3 DEF SessionsInv, SessionsTypeOK, Carried, Unserved, Quiet
<1>5. \A u \in Tab : Promised(u)' \in {NoToken, Promised(u)}
  BY <1>2 DEF SessionsInv, SessionsTypeOK, Promised, Quiet
<1>6. \A u \in Tab : req'[u].code = "none" => Promised(u)' = NoToken
  BY <1>2 DEF SessionsInv, SessionsTypeOK, NothingBeforeTheAnswer, Promised, Quiet
<1> QED BY <1>1, <1>3, <1>4, <1>5, <1>6, ForgettingKeepsInv

\* Sessions end, and requests and cookie stay, but for a cookie that is cleared.
LEMMA EndingKeepsSessions ==
  ASSUME SessionsInv, SessionsTypeOK', UNCHANGED req, cookie' \in {cookie, NoToken},
         \A s \in Session :
           \/ session'[s] = session[s] /\ (Live(s) => \A token \in grace : token.s = s => token \in grace')
           \/ session'[s].status = "ended"
  PROVE  SessionsInv'
<1>1. \A token \in Token : token # NoToken /\ Carried(token)' => Carried(token)
  BY DEF Carried, Unserved
<1>2. \A u \in Tab : Promised(u)' = Promised(u)
  BY DEF Promised
<1>3. \A u \in Tab : req'[u].code = "none" => Promised(u)' = NoToken
  BY DEF SessionsInv, NothingBeforeTheAnswer, Promised
<1> QED BY <1>1, <1>2, <1>3, ForgettingKeepsInv

LEMMA CallKeepsSessions == ASSUME SessionsInv, NEW t \in Tab, Call(t) PROVE SessionsInv'
<1>1. SessionsTypeOK'
  BY CallType DEF SessionsInv
<1>2. UNCHANGED req /\ cookie' = cookie
  BY DEF Call
<1>3. \A s \in Session :
        \/ session'[s] = session[s] /\ (Live(s) => \A token \in grace : token.s = s => token \in grace')
        \/ session'[s].status = "ended"
  BY EndedState DEF Call, OthersEnded, Live
<1> QED BY <1>1, <1>2, <1>3, EndingKeepsSessions

LEMMA SignOutKeepsSessions == ASSUME SessionsInv, NEW t \in Tab, SignOut(t) PROVE SessionsInv'
<1> DEFINE own == tab[t].access
<1>1. SessionsTypeOK' /\ own \in Session \cup {NoSession}
  BY SignOutType DEF SessionsInv, SessionsTypeOK, TabState
<1>2. UNCHANGED req /\ cookie' \in {cookie, NoToken}
  BY DEF SignOut
<1>3. \/ UNCHANGED <<session, grace>>
      \/ own \in Session /\ session' = Ended(own) /\ Forget(own)
  BY <1>1, LiveIsSession DEF SignOut
<1>4. \A s \in Session :
        \/ session'[s] = session[s] /\ (Live(s) => \A token \in grace : token.s = s => token \in grace')
        \/ session'[s].status = "ended"
  BY <1>3, EndedType DEF SessionsInv, Forget
<1> QED BY <1>1, <1>2, <1>4, EndingKeepsSessions

LEMMA EndElsewhereKeepsSessions == ASSUME SessionsInv, NEW own \in Session, EndElsewhere(own) PROVE SessionsInv'
<1>1. SessionsTypeOK'
  BY EndElsewhereType DEF SessionsInv
<1>2. UNCHANGED req /\ cookie' = cookie
  BY DEF EndElsewhere
<1>3. \A s \in Session :
        \/ session'[s] = session[s] /\ (Live(s) => \A token \in grace : token.s = s => token \in grace')
        \/ session'[s].status = "ended"
  BY EndedType DEF SessionsInv, EndElsewhere, Forget
<1> QED BY <1>1, <1>2, <1>3, EndingKeepsSessions

\* A request ends, or is answered without a token.
LEMMA AnsweringKeepsSessions ==
  ASSUME SessionsInv, SessionsTypeOK', NEW t \in Tab, NEW r \in Refresh, r.kind = "none" \/ r.code # "none",
         r.token = NoToken, req' = [req EXCEPT ![t] = r], cookie' \in {cookie, NoToken},
         \A s \in Session :
           \/ session'[s] = session[s] /\ (Live(s) => \A token \in grace : token.s = s => token \in grace')
           \/ session'[s].status = "ended"
           \/ session'[s].status = "token_reuse" /\ session'[s].late
  PROVE  SessionsInv'
<1>1. \A token \in Token : token # NoToken /\ Carried(token)' => Carried(token)
  BY AnsweredCarriesLess DEF SessionsInv
<1>2. \A u \in Tab : Promised(u)' \in {NoToken, Promised(u)}
  BY DEF SessionsInv, SessionsTypeOK, Promised
<1>3. \A u \in Tab : req'[u].code = "none" => Promised(u)' = NoToken
  BY DEF SessionsInv, SessionsTypeOK, NothingBeforeTheAnswer, Promised
<1> QED BY <1>1, <1>2, <1>3, ForgettingKeepsInv

LEMMA LoseKeepsSessions == ASSUME SessionsInv, NEW t \in Tab, Lose(t) PROVE SessionsInv'
<1>1. SessionsTypeOK'
  BY LoseType DEF SessionsInv
<1>2. Quiet.kind = "none" /\ Quiet.token = NoToken
  BY DEF Quiet
<1>3. req' = [req EXCEPT ![t] = Quiet] /\ UNCHANGED <<session, grace, cookie>>
  BY DEF Lose, Ends
<1> QED BY <1>1, <1>2, <1>3, QuietType, AnsweringKeepsSessions

-----------------------------------------------------------------------------
(* The other steps.                                                        *)

LEMMA LoginKeepsSessions == ASSUME SessionsInv, NEW t \in Tab, Login(t) PROVE SessionsInv'
<1>1. PICK s \in Session :
        /\ session[s].status = "none"
        /\ session' = [session EXCEPT ![s].status = "live", ![s].last = 1]
        /\ cookie' = [s |-> s, n |-> 1]
  BY DEF Login
<1>2. UNCHANGED <<grace, req>>
  BY DEF Login
<1>3. SessionsTypeOK'
  BY LoginType DEF SessionsInv
<1>4. /\ session'[s].last = 1 /\ session'[s].status = "live"
      /\ \A o \in Session \ {s} : session'[o] = session[o]
  BY <1>1 DEF SessionsInv, SessionsTypeOK, SessionState
<1>5. \A token \in Token : Carried(token)' => token = [s |-> s, n |-> 1] \/ Carried(token)
  BY <1>1, <1>2 DEF Carried, Unserved
<1>6. \A token \in Token : token.s = s => ~Carried(token)
  BY <1>1 DEF SessionsInv, OpenedFirst
<1>7. \A u \in Tab : Promised(u)' = Promised(u) /\ Promised(u).s # s /\ Promised(u) \in Token
  BY <1>1, <1>2 DEF SessionsInv, OpenedFirst, Promised, SessionsTypeOK, Refresh
<1>8. \A o \in Session \cup {NoSession} : Live(o)' => o = s \/ (Live(o) /\ session'[o] = session[o])
  BY <1>4 DEF Live
<1>9. OpenedFirst'
  BY <1>4, <1>5, <1>7 DEF SessionsInv, OpenedFirst
<1>10. CarriedIsKnown'
  <2> SUFFICES ASSUME NEW token \in Token, Live(token.s)', Carried(token)'
               PROVE  /\ token.n <= session'[token.s].last
                      /\ token.n = session'[token.s].last \/ token \in grace' \/ session'[token.s].late
    BY DEF CarriedIsKnown
  <2>1. CASE token.s = s
    BY <1>4, <1>5, <1>6, <2>1
  <2>2. CASE token.s # s
    <3>1. Live(token.s) /\ session'[token.s] = session[token.s]
      BY <1>8, <2>2 DEF Token
    <3>2. Carried(token)
      BY <1>5, <2>2
    <3> QED BY <1>2, <3>1, <3>2 DEF SessionsInv, CarriedIsKnown
  <2> QED BY <2>1, <2>2
<1>11. PromisedIsLast'
  <2> SUFFICES ASSUME NEW u \in Tab, Live(Promised(u).s)'
               PROVE  /\ Promised(u).n = session'[Promised(u).s].last
                      /\ ~Carried(Promised(u))'
                      /\ \A v \in Tab \ {u} : Promised(v) # Promised(u)
    BY <1>7 DEF PromisedIsLast, Promised
  <2>1. Promised(u) \in Token /\ Promised(u).s # s
    BY <1>7
  <2>2. Live(Promised(u).s) /\ session'[Promised(u).s] = session[Promised(u).s]
    <3>1. Promised(u).s \in Session \cup {NoSession}
      BY <2>1 DEF Token
    <3>2. Live(Promised(u).s)' => Live(Promised(u).s) /\ session'[Promised(u).s] = session[Promised(u).s]
      BY <1>2, <1>4, <2>1, <3>1 DEF Live, Promised
    <3> QED BY <3>2
  <2>3. ~Carried(Promised(u))'
    BY <1>1, <1>2, <2>1, <2>2 DEF SessionsInv, PromisedIsLast, Carried, Unserved, Promised
  <2> QED BY <2>2, <2>3 DEF SessionsInv, PromisedIsLast
<1>12. NothingBeforeTheAnswer'
  BY <1>2 DEF SessionsInv, NothingBeforeTheAnswer, Promised
<1>13. ReuseOnlyIfLate'
  BY <1>4 DEF SessionsInv, ReuseOnlyIfLate
<1> QED BY <1>3, <1>9, <1>10, <1>11, <1>12, <1>13 DEF SessionsInv

\* A rotation: the token is replaced by a new one, which is on its way to the browser, or will
\* never be.
LEMMA RotateKeepsSessions ==
  ASSUME SessionsInv, SessionsTypeOK', NEW t \in Tab, NEW s \in Session, Live(s), Unserved(t), req[t].with.s = s,
         req[t].with.n = session[s].last,
         session'[s].last = session[s].last + 1,
         session'[s].status = session[s].status, session'[s].late = session[s].late,
         \A o \in Session \ {s} : session'[o] = session[o],
         grace' = grace \cup {req[t].with},
         NEW r \in Refresh, r.code # "none", r.token \in {NoToken, [s |-> s, n |-> session[s].last + 1]},
         req' = [req EXCEPT ![t] = r],
         UNCHANGED cookie
  PROVE  SessionsInv'
<1> DEFINE old == req[t].with
           new == [s |-> s, n |-> session[s].last + 1]
<1>1. old \in Token /\ session[s] \in SessionState /\ session[s].last \in Nat
  BY DEF SessionsInv, SessionsTypeOK, Refresh, SessionState
<1>2. session'[s].last = session[s].last + 1 /\ \A o \in Session \ {s} : session'[o] = session[o]
  OBVIOUS
<1>3. \A o \in Session : session'[o].status = session[o].status /\ session'[o].late = session[o].late
  OBVIOUS
<1>4. \A token \in Token : Carried(token)' => Carried(token)
  BY DEF SessionsInv, SessionsTypeOK, Carried, Unserved
<1>5. /\ Promised(t)' \in {NoToken, new}
      /\ \A u \in Tab \ {t} : Promised(u)' = Promised(u) /\ Promised(u) \in Token
  BY DEF SessionsInv, SessionsTypeOK, Refresh, Promised
<1>6. old = [s |-> s, n |-> session[s].last] /\ Carried(old)
  BY <1>1 DEF Token, Carried
<1>7. \A u \in Tab : Promised(u).s # s
  <2> SUFFICES ASSUME NEW u \in Tab, Promised(u).s = s PROVE FALSE
    OBVIOUS
  <2>1. Promised(u) \in Token
    BY DEF SessionsInv, SessionsTypeOK, Refresh, Promised
  <2>2. Promised(u).n = session[s].last /\ ~Carried(Promised(u))
    BY DEF SessionsInv, PromisedIsLast
  <2>3. Promised(u) = old
    BY <1>6, <2>1, <2>2 DEF Token
  <2> QED BY <1>6, <2>2, <2>3
<1>8. OpenedFirst'
  <2> SUFFICES ASSUME NEW o \in Session, session'[o].status = "none"
               PROVE  /\ \A token \in Token : token.s = o => ~Carried(token)'
                      /\ \A u \in Tab : req'[u].token.s # o
    BY DEF OpenedFirst, Promised
  <2>1. session[o].status = "none" /\ o # s /\ NoToken.s # o
    BY <1>3, NoTokenIsToken DEF Live
  <2> QED BY <1>4, <1>5, <2>1 DEF SessionsInv, OpenedFirst, Promised
<1>9. CarriedIsKnown'
  <2> SUFFICES ASSUME NEW token \in Token, Live(token.s)', Carried(token)'
               PROVE  /\ token.n <= session'[token.s].last
                      /\ token.n = session'[token.s].last \/ token \in grace' \/ session'[token.s].late
    BY DEF CarriedIsKnown
  <2>1. Carried(token) /\ token.s \in Session /\ Live(token.s)
    BY <1>3, <1>4 DEF Live, Token
  <2>2. /\ token.n <= session[token.s].last
        /\ token.n = session[token.s].last \/ token \in grace \/ session[token.s].late
    BY <2>1 DEF SessionsInv, CarriedIsKnown
  <2>3. CASE token.s = s
    <3>1. token.n <= session'[s].last
      BY <1>1, <1>2, <2>2, <2>3 DEF Token
    <3>2. token.n = session[s].last => token = old
      BY <1>6, <2>3 DEF Token
    <3> QED BY <1>3, <2>2, <2>3, <3>1, <3>2
  <2>4. CASE token.s # s
    BY <1>2, <2>1, <2>2, <2>4
  <2> QED BY <2>3, <2>4
<1>10. ~Carried(new)
  <2> SUFFICES ASSUME Carried(new) PROVE FALSE
    OBVIOUS
  <2>1. new \in Token
    BY DEF SessionsInv, SessionsTypeOK, Refresh, Carried
  <2>2. session[s].last + 1 <= session[s].last
    BY <2>1 DEF SessionsInv, CarriedIsKnown
  <2> QED BY <1>1, <2>2
<1>11. PromisedIsLast'
  <2> SUFFICES ASSUME NEW u \in Tab, NEW p, p = Promised(u)', session'[p.s].status = "live", p.s # NoSession
               PROVE  /\ p.n = session'[p.s].last
                      /\ ~Carried(p)'
                      /\ \A v \in Tab \ {u} : Promised(v)' # p
    BY DEF PromisedIsLast, Live, Promised, Carried, Unserved
  <2>1. p \in Token /\ p.s \in Session
    BY DEF SessionsInv, SessionsTypeOK, Refresh, Promised, Token
  <2>2. ~Carried(p) => ~Carried(p)'
    BY DEF SessionsInv, SessionsTypeOK, Carried, Unserved
  <2>3. CASE u = t
    <3>1. p = new
      BY <1>5, <2>3 DEF NoToken
    <3>2. \A v \in Tab \ {u} : Promised(v)' # p
      BY <1>5, <1>7, <2>3, <3>1
    <3> QED BY <1>2, <1>10, <2>2, <3>1, <3>2
  <2>4. CASE u # t
    <3>1. p = Promised(u) /\ p.s # s
      BY <1>5, <1>7, <2>4
    <3>2. Live(p.s) /\ session'[p.s] = session[p.s]
      BY <1>2, <2>1, <3>1 DEF Live
    <3>3. /\ p.n = session[p.s].last
          /\ ~Carried(p)
          /\ \A v \in Tab \ {u} : Promised(v) # p
      BY <3>1, <3>2 DEF SessionsInv, PromisedIsLast
    <3>4. \A v \in Tab \ {u} : Promised(v)' # p
      BY <1>5, <3>1, <3>3 DEF NoToken
    <3> QED BY <2>2, <3>2, <3>3, <3>4
  <2> QED BY <2>3, <2>4
<1>12. NothingBeforeTheAnswer'
  BY DEF SessionsInv, SessionsTypeOK, NothingBeforeTheAnswer, Promised
<1>13. ReuseOnlyIfLate'
  BY <1>3 DEF SessionsInv, ReuseOnlyIfLate
<1> QED BY <1>8, <1>9, <1>11, <1>12, <1>13 DEF SessionsInv

LEMMA ServeKeepsSessions == ASSUME SessionsInv, NEW t \in Tab, ServeRefresh(t) PROVE SessionsInv'
<1> DEFINE token == req[t].with
           r(code, s) == [req[t] EXCEPT !.code = code, !.token = NoToken, !.s = s]
<1>1. SessionsTypeOK'
  BY ServeType DEF SessionsInv
<1>2. token \in Token /\ Carried(token) /\ UNCHANGED cookie /\ Unserved(t)
  BY DEF SessionsInv, SessionsTypeOK, Refresh, Carried, ServeRefresh
<1>3. ASSUME NEW code \in Code \ {"none"}, NEW s \in Session \cup {NoSession}, Answer(t, code, NoToken, s),
             \A o \in Session :
               \/ session'[o] = session[o] /\ (Live(o) => \A g \in grace : g.s = o => g \in grace')
               \/ session'[o].status = "ended"
               \/ session'[o].status = "token_reuse" /\ session'[o].late
      PROVE  SessionsInv'
  <2>1. r(code, s) \in Refresh /\ r(code, s).token = NoToken /\ r(code, s).code = code
    BY NoTokenIsToken DEF SessionsInv, SessionsTypeOK, Refresh
  <2>2. req' = [req EXCEPT ![t] = r(code, s)]
    BY <1>3 DEF Answer
  <2> HIDE DEF r
  <2> QED BY <1>1, <1>2, <1>3, <2>1, <2>2, AnsweringKeepsSessions
<1>4. CASE \/ Refuse(t, "MISSING") /\ UNCHANGED <<session, grace>>
           \/ Refuse(t, "TOKEN_REVOKED") /\ UNCHANGED <<session, grace>>
           \/ Refuse(t, "DENIED") /\ UNCHANGED <<session, grace>>
  BY <1>3, <1>4 DEF Refuse, Code
<1>5. CASE /\ Live(token.s) /\ RefreshOutcome(token) = "reuse"
           /\ Refuse(t, "TOKEN_REVOKED") /\ Forget(token.s)
           /\ session' = [session EXCEPT ![token.s].status = "token_reuse"]
  <2>1. token.s \in Session
    BY <1>2, <1>5, LiveIsSession DEF Token
  <2>2. session[token.s].late
    BY <1>2, <1>5 DEF SessionsInv, CarriedIsKnown, RefreshOutcome
  <2>3. /\ session'[token.s].status = "token_reuse" /\ session'[token.s].late
        /\ \A o \in Session \ {token.s} : session'[o] = session[o]
    BY <1>5, <2>1, <2>2 DEF SessionsInv, SessionsTypeOK, SessionState
  <2> QED BY <1>3, <1>5, <2>1, <2>3 DEF Refuse, Code, Forget
<1>6. CASE /\ Live(token.s) /\ RefreshOutcome(token) = "rotate"
           /\ Rotate(token)
           /\ \/ Answer(t, "ok", [token EXCEPT !.n = session[token.s].last + 1], token.s)
              \/ Refuse(t, "DENIED")
  <2>1. token.s \in Session
    BY <1>2, <1>6, LiveIsSession DEF Token
  <2>2. token.n = session[token.s].last
    BY <1>6 DEF RefreshOutcome
  <2>3. [token EXCEPT !.n = session[token.s].last + 1] = [s |-> token.s, n |-> session[token.s].last + 1]
    BY <1>2 DEF Token
  <2>4. PICK code \in {"ok", "DENIED"}, got \in {NoToken, [s |-> token.s, n |-> session[token.s].last + 1]},
             s \in {token.s, NoSession} :
          req' = [req EXCEPT ![t] = [@ EXCEPT !.code = code, !.token = got, !.s = s]]
    BY <1>6, <2>3 DEF Answer, Refuse
  <2> DEFINE r6 == [req[t] EXCEPT !.code = code, !.token = got, !.s = s]
  <2>5. /\ req' = [req EXCEPT ![t] = r6] /\ r6.code # "none"
        /\ r6.token \in {NoToken, [s |-> token.s, n |-> session[token.s].last + 1]}
    BY <2>4 DEF SessionsInv, SessionsTypeOK, Refresh
  <2>6. r6 \in Refresh
    BY <1>1, <2>5 DEF SessionsInv, SessionsTypeOK
  <2>7. /\ session'[token.s].last = session[token.s].last + 1
        /\ session'[token.s].status = session[token.s].status
        /\ session'[token.s].late = session[token.s].late
        /\ \A o \in Session \ {token.s} : session'[o] = session[o]
    BY <1>6, <2>1 DEF SessionsInv, SessionsTypeOK, SessionState, Rotate
  <2>8. grace' = grace \cup {token} /\ Live(token.s)
    BY <1>6 DEF Rotate
  <2> HIDE DEF r6
  <2> QED BY <1>1, <1>2, <2>1, <2>2, <2>5, <2>6, <2>7, <2>8, RotateKeepsSessions
<1>7. CASE /\ Live(token.s) /\ session' = Ended(token.s)
           /\ Refuse(t, "TOKEN_REVOKED") /\ Forget(token.s)
  <2>1. token.s \in Session
    BY <1>2, <1>7, LiveIsSession DEF Token
  <2> QED BY <1>3, <1>7, <2>1, EndedType DEF SessionsInv, Refuse, Code, Forget
<1>8. CASE Live(token.s) /\ Answer(t, "ok", NoToken, token.s) /\ UNCHANGED <<session, grace>>
  <2>1. token.s \in Session
    BY <1>2, <1>8, LiveIsSession DEF Token
  <2> QED BY <1>3, <1>8, <2>1 DEF Code
<1> QED BY <1>4, <1>5, <1>6, <1>7, <1>8 DEF ServeRefresh, Deny

\* The token of an answer reaches the cookie.
LEMMA CookieKeepsSessions ==
  ASSUME SessionsInv, SessionsTypeOK', NEW t \in Tab, Promised(t) # NoToken, cookie' = Promised(t),
         req' = [req EXCEPT ![t] = Quiet], UNCHANGED <<session, grace>>
  PROVE  SessionsInv'
<1> DEFINE p == Promised(t)
<1>1. p \in Token
  BY DEF SessionsInv, SessionsTypeOK, Refresh, Promised
<1>2. \A token \in Token : Carried(token)' => token = p \/ Carried(token)
  BY DEF SessionsInv, SessionsTypeOK, Carried, Unserved, Quiet
<1>3. Promised(t)' = NoToken /\ \A u \in Tab \ {t} : Promised(u)' = Promised(u)
  BY DEF SessionsInv, SessionsTypeOK, Promised, Quiet
<1>4. \A o : Live(o)' <=> Live(o)
  BY DEF Live
<1>5. OpenedFirst'
  <2> SUFFICES ASSUME NEW o \in Session, session[o].status = "none"
               PROVE  /\ \A token \in Token : token.s = o => ~Carried(token)'
                      /\ \A u \in Tab : req'[u].token.s # o
    BY DEF OpenedFirst, Promised
  <2> QED BY <1>2, <1>3, NoTokenIsToken DEF SessionsInv, OpenedFirst, Promised
<1>6. CarriedIsKnown'
  <2> SUFFICES ASSUME NEW token \in Token, Live(token.s), Carried(token)'
               PROVE  /\ token.n <= session[token.s].last
                      /\ token.n = session[token.s].last \/ token \in grace \/ session[token.s].late
    BY <1>4 DEF CarriedIsKnown
  <2>1. CASE token = p
    <3>1. token.n = session[token.s].last
      BY <2>1 DEF SessionsInv, PromisedIsLast
    <3>2. token.n \in Int
      BY SessionsAssumption DEF Token
    <3> QED BY <3>1, <3>2
  <2>2. CASE Carried(token)
    BY <2>2 DEF SessionsInv, CarriedIsKnown
  <2> QED BY <1>2, <2>1, <2>2
<1>7. PromisedIsLast'
  <2> SUFFICES ASSUME NEW u \in Tab, NEW q, q = Promised(u)', Live(q.s)
               PROVE  /\ q.n = session[q.s].last
                      /\ ~Carried(q)'
                      /\ \A v \in Tab \ {u} : Promised(v)' # q
    BY DEF PromisedIsLast, Live, Promised, Carried, Unserved
  <2>1. q \in Token /\ q.s \in Session
    BY DEF SessionsInv, SessionsTypeOK, Refresh, Promised, Token, Live
  <2>2. u # t /\ q = Promised(u) /\ q # NoToken
    BY <1>3, <2>1, NoTokenIsToken
  <2>3. /\ q.n = session[q.s].last
        /\ ~Carried(q)
        /\ \A v \in Tab \ {u} : Promised(v) # q
    BY <2>2 DEF SessionsInv, PromisedIsLast
  <2>4. q # p
    BY <2>2, <2>3
  <2>5. ~Carried(q)'
    <3> SUFFICES ASSUME Carried(q)' PROVE FALSE
      OBVIOUS
    <3>1. cookie' = q \/ \E v \in Tab : Unserved(v)' /\ req'[v].with = q
      BY DEF Carried
    <3>2. Carried(q)
      BY <2>4, <3>1 DEF SessionsInv, SessionsTypeOK, Carried, Unserved, Quiet
    <3> QED BY <2>3, <3>2
  <2>6. \A v \in Tab \ {u} : Promised(v)' # q
    BY <1>3, <2>2, <2>3
  <2> QED BY <2>3, <2>5, <2>6
<1>8. NothingBeforeTheAnswer'
  BY DEF SessionsInv, SessionsTypeOK, NothingBeforeTheAnswer, Promised, Quiet
<1>9. ReuseOnlyIfLate'
  BY DEF SessionsInv, ReuseOnlyIfLate
<1> QED BY <1>5, <1>6, <1>7, <1>8, <1>9 DEF SessionsInv

LEMMA ApplyKeepsSessions == ASSUME SessionsInv, NEW t \in Tab, ApplyRefresh(t) PROVE SessionsInv'
<1>1. SessionsTypeOK'
  BY ApplyType DEF SessionsInv
<1>2. req' = [req EXCEPT ![t] = Quiet] /\ UNCHANGED <<session, grace>>
  BY DEF ApplyRefresh, Ends
<1>3. cookie' \in {cookie, NoToken} \/ (Promised(t) # NoToken /\ cookie' = Promised(t))
  BY DEF ApplyRefresh, CookieAfter, Promised
<1>4. Quiet.kind = "none" /\ Quiet.token = NoToken
  BY DEF Quiet
<1>5. CASE cookie' \in {cookie, NoToken}
  BY <1>1, <1>2, <1>4, <1>5, QuietType, AnsweringKeepsSessions
<1>6. CASE Promised(t) # NoToken /\ cookie' = Promised(t)
  BY <1>1, <1>2, <1>6, CookieKeepsSessions
<1> QED BY <1>3, <1>5, <1>6

LEMMA GraceEndsKeepsSessions == ASSUME SessionsInv, NEW g \in Token, GraceEnds(g) PROVE SessionsInv'
<1>1. SessionsTypeOK'
  BY GraceEndsType DEF SessionsInv
<1>2. /\ grace' = grace \ {g} /\ UNCHANGED <<cookie, req>>
      /\ session' = [session EXCEPT ![g.s].late = @ \/ Carried(g)]
  BY DEF GraceEnds
<1>3. /\ DOMAIN session' = Session
      /\ \A o \in Session :
           /\ session'[o].status = session[o].status /\ session'[o].last = session[o].last
           /\ session[o].late => session'[o].late
           /\ o = g.s /\ Carried(g) => session'[o].late
  BY <1>2 DEF SessionsInv, SessionsTypeOK, SessionState, Carried
<1>4. \A token : Carried(token)' <=> Carried(token)
  BY <1>2 DEF Carried, Unserved
<1>5. \A u : Promised(u)' = Promised(u)
  BY <1>2 DEF Promised
<1>6. \A o \in Session \cup {NoSession} : Live(o)' <=> Live(o)
  BY <1>3 DEF Live
<1>7. OpenedFirst'
  BY <1>3, <1>4, <1>5 DEF SessionsInv, OpenedFirst
<1>8. CarriedIsKnown'
  <2> SUFFICES ASSUME NEW token \in Token, Live(token.s)', Carried(token)'
               PROVE  /\ token.n <= session'[token.s].last
                      /\ token.n = session'[token.s].last \/ token \in grace' \/ session'[token.s].late
    BY DEF CarriedIsKnown
  <2>1. token.s \in Session /\ Live(token.s) /\ Carried(token)
    BY <1>4, <1>6 DEF Token, Live
  <2>2. /\ token.n <= session[token.s].last
        /\ token.n = session[token.s].last \/ token \in grace \/ session[token.s].late
    BY <2>1 DEF SessionsInv, CarriedIsKnown
  <2> QED BY <1>2, <1>3, <2>1, <2>2
<1>9. PromisedIsLast'
  <2> SUFFICES ASSUME NEW u \in Tab, Live(Promised(u).s)'
               PROVE  /\ Promised(u).n = session'[Promised(u).s].last
                      /\ ~Carried(Promised(u))
                      /\ \A v \in Tab \ {u} : Promised(v) # Promised(u)
    BY <1>2 DEF PromisedIsLast, Promised, Carried, Unserved
  <2>1. Promised(u).s \in Session /\ session'[Promised(u).s].status = "live"
    BY <1>2 DEF SessionsInv, SessionsTypeOK, Refresh, Promised, Token, Live
  <2>2. Live(Promised(u).s)
    BY <1>3, <2>1, SessionsAssumption DEF Live, Session, NoSession
  <2> QED BY <1>3, <2>1, <2>2 DEF SessionsInv, PromisedIsLast
<1>10. NothingBeforeTheAnswer'
  BY <1>2 DEF SessionsInv, NothingBeforeTheAnswer, Promised
<1>11. ReuseOnlyIfLate'
  BY <1>3 DEF SessionsInv, ReuseOnlyIfLate
<1> QED BY <1>1, <1>7, <1>8, <1>9, <1>10, <1>11 DEF SessionsInv

-----------------------------------------------------------------------------
(* The theorems.                                                           *)

LEMMA InitSessionsInv == SessionsInit => SessionsInv
<1> SUFFICES ASSUME SessionsInit PROVE SessionsInv
  OBVIOUS
<1>1. SessionsTypeOK
  BY InitTypeOK
<1>2. \A token \in Token : Carried(token) => token = NoToken
  BY DEF SessionsInit, Carried, Unserved, Quiet
<1>3. \A t \in Tab : Promised(t) = NoToken
  <2>1. Quiet.token = NoToken
    BY DEF Quiet
  <2>2. req = [u \in Tab |-> Quiet]
    BY DEF SessionsInit
  <2>3. \A t \in Tab : req[t] = Quiet
    BY <2>2
  <2> QED BY <2>1, <2>3, Zenon DEF Promised
<1>4. \A s \in Session : session[s].status = "none" /\ ~Live(s)
  BY DEF SessionsInit, Unopened, Live
<1>5. OpenedFirst
  BY <1>2, <1>3, NoTokenIsToken DEF OpenedFirst
<1>6. CarriedIsKnown
  BY <1>4 DEF CarriedIsKnown, Live, Token
<1>7. PromisedIsLast
  BY <1>3, NoTokenIsToken DEF PromisedIsLast, Live, NoToken
<1>8. NothingBeforeTheAnswer
  BY <1>3 DEF NothingBeforeTheAnswer
<1>9. ReuseOnlyIfLate
  BY <1>4 DEF ReuseOnlyIfLate
<1> QED BY <1>1, <1>5, <1>6, <1>7, <1>8, <1>9 DEF SessionsInv

LEMMA SessionsStep == SessionsInv /\ [SessionsNext]_sessionVars => SessionsInv'
<1> SUFFICES ASSUME SessionsInv, [SessionsNext]_sessionVars PROVE SessionsInv'
  OBVIOUS
<1>1. CASE \E t \in Tab : Login(t)
  BY <1>1, LoginKeepsSessions
<1>2. CASE \E t \in Tab : Reload(t) \/ RefreshDue(t)
  BY <1>2, SendKeepsSessions
<1>3. CASE \E t \in Tab : Call(t)
  BY <1>3, CallKeepsSessions
<1>4. CASE \E t \in Tab : SignOut(t)
  BY <1>4, SignOutKeepsSessions
<1>5. CASE \E t \in Tab : ServeRefresh(t)
  BY <1>5, ServeKeepsSessions
<1>6. CASE \E t \in Tab : ApplyRefresh(t)
  BY <1>6, ApplyKeepsSessions
<1>7. CASE \E t \in Tab : Lose(t)
  BY <1>7, LoseKeepsSessions
<1>8. CASE \E s \in Session : EndElsewhere(s)
  BY <1>8, EndElsewhereKeepsSessions
<1>9. CASE \E token \in Token : GraceEnds(token)
  BY <1>9, GraceEndsKeepsSessions
<1>10. CASE UNCHANGED sessionVars
  BY <1>10 DEF sessionVars, SessionsInv, SessionsTypeOK, OpenedFirst, CarriedIsKnown, PromisedIsLast, NothingBeforeTheAnswer,
     ReuseOnlyIfLate, Carried, Unserved, Promised, Live
<1> QED BY <1>1, <1>2, <1>3, <1>4, <1>5, <1>6, <1>7, <1>8, <1>9, <1>10 DEF SessionsNext

\* Sessions, tokens, tabs and requests keep their shape.
THEOREM SessionsTypeCorrect == SessionsSpec => []SessionsTypeOK
<1>1. SessionsInit => SessionsTypeOK
  BY InitTypeOK
<1>2. SessionsTypeOK /\ [SessionsNext]_sessionVars => SessionsTypeOK'
  BY StepTypeOK
<1> QED BY <1>1, <1>2, PTL DEF SessionsSpec

\* Refreshing alone never ends a session: the server takes a token for one used twice
\* (refreshOutcome) only if it outlived its grace period in the cookie or under way,
\* whatever the tabs, the refreshes and the lost answers.
THEOREM OnlyLateTokensEndSessions == SessionsSpec => []ReuseOnlyIfLate
<1>1. SessionsInv => ReuseOnlyIfLate
  BY DEF SessionsInv
<1> QED BY <1>1, InitSessionsInv, SessionsStep, PTL DEF SessionsSpec

-----------------------------------------------------------------------------
(* While one session is open and nothing is missing, it can go on.         *)

\* Whatever was sent arrives.
NoneMissing == lost = 0 /\ unsent = 0

\* A token is one of a session, or none at all.
TokensAreOfSessions ==
  /\ \A token \in Token : Carried(token) /\ token.s = NoSession => token = NoToken
  /\ \A t \in Tab : Promised(t).s = NoSession => Promised(t) = NoToken

\* Only an answer that grants a refresh brings a token.
RefusalsBringNothing == \A t \in Tab : req[t].code # "ok" => Promised(t) = NoToken

\* No refresh was refused while the only session there is, or will be next, did not end.
NothingRefused ==
  \A s \in Session : session[s].status \in {"none", "live"} /\ Alone(s) =>
    \A t \in Tab : req[t].code # "TOKEN_REVOKED"

GoesOn ==
  /\ TokensAreOfSessions
  /\ RefusalsBringNothing
  /\ NothingRefused
  /\ SessionCanGoOn

LEMMA InitGoesOn == SessionsInit => GoesOn
<1> SUFFICES ASSUME SessionsInit PROVE GoesOn
  OBVIOUS
<1>1. Quiet.kind = "none" /\ Quiet.token = NoToken /\ Quiet.code = "none"
  BY DEF Quiet
<1>2. ASSUME NEW t \in Tab PROVE Promised(t) = NoToken /\ ~Unserved(t) /\ req[t].code = "none"
  <2>1. req[t] = Quiet
    BY DEF SessionsInit
  <2> QED BY <1>1, <2>1 DEF Promised, Unserved
<1>3. \A s \in Session : ~Live(s)
  BY DEF SessionsInit, Unopened, Live
<1>4. TokensAreOfSessions
  BY <1>2 DEF TokensAreOfSessions, Carried, SessionsInit
<1> QED BY <1>2, <1>3, <1>4 DEF GoesOn, RefusalsBringNothing, NothingRefused, SessionCanGoOn

\* A step after which no token is carried, brought or refused that was not before, none is
\* dropped, and sessions only end, keeps all this.
LEMMA EndingGoesOn ==
  ASSUME GoesOn, SessionsInv, NoneMissing' => NoneMissing /\ cookie' = cookie,
         \A token \in Token : token # NoToken /\ Carried(token)' => Carried(token),
         \A t \in Tab : Promised(t)' = Promised(t) \/ (Promised(t)' = NoToken /\ ~NoneMissing'),
         \A t \in Tab : req'[t].code # "ok" => Promised(t)' = NoToken,
         \A t \in Tab : req'[t].code = "TOKEN_REVOKED" => req[t].code = "TOKEN_REVOKED",
         \A s \in Session :
           \/ session'[s].status = session[s].status /\ session'[s].last = session[s].last
           \/ session'[s].status \in {"ended", "token_reuse"}
  PROVE  GoesOn'
<1>1. ASSUME NEW s \in Session, Alone(s)' PROVE Alone(s)
  BY <1>1 DEF Alone
<1>2. TokensAreOfSessions'
  BY DEF GoesOn, TokensAreOfSessions
<1>3. RefusalsBringNothing'
  BY DEF RefusalsBringNothing
<1>4. NothingRefused'
  <2> SUFFICES ASSUME NEW s \in Session, session'[s].status \in {"none", "live"}, Alone(s)',
                      NEW t \in Tab, req'[t].code = "TOKEN_REVOKED"
               PROVE  FALSE
    BY DEF NothingRefused
  <2>1. session[s].status \in {"none", "live"} /\ req[t].code = "TOKEN_REVOKED"
    OBVIOUS
  <2> QED BY <1>1, <2>1 DEF GoesOn, NothingRefused
<1>5. SessionCanGoOn'
  <2> SUFFICES ASSUME NEW s \in Session, Live(s)', NoneMissing', Alone(s)'
               PROVE  \/ cookie' = [s |-> s, n |-> session'[s].last]
                      \/ \E t \in Tab : Promised(t)' = [s |-> s, n |-> session'[s].last]
    BY DEF SessionCanGoOn, CanGoOn, NoneMissing, Promised, Alone
  <2>1. Live(s) /\ session'[s].last = session[s].last
    BY DEF Live
  <2>2. \/ cookie = [s |-> s, n |-> session[s].last]
        \/ \E t \in Tab : Promised(t) = [s |-> s, n |-> session[s].last]
    BY <1>1, <2>1 DEF GoesOn, SessionCanGoOn, CanGoOn, NoneMissing, Promised, Alone
  <2> QED BY <2>1, <2>2
<1> QED BY <1>2, <1>3, <1>4, <1>5 DEF GoesOn

LEMMA SendGoesOn == ASSUME GoesOn, SessionsInv, NEW t \in Tab, Reload(t) \/ RefreshDue(t) PROVE GoesOn'
<1>1. PICK kind \in Kind : req' = [req EXCEPT ![t] = [Quiet EXCEPT !.kind = kind, !.with = cookie]]
  BY DEF Reload, RefreshDue, Send, Kind
<1>2. UNCHANGED <<session, grace, cookie, lost, unsent>> /\ req[t] = Quiet
  BY DEF Reload, RefreshDue, Free
<1>3. \A token \in Token : token # NoToken /\ Carried(token)' => Carried(token)
  BY <1>1, <1>2 DEF SessionsInv, SessionsTypeOK, Carried, Unserved, Quiet
<1>4. \A u \in Tab : Promised(u)' = Promised(u) /\ req'[u].code = req[u].code
  BY <1>1, <1>2 DEF SessionsInv, SessionsTypeOK, Promised, Quiet
<1>5. \A u \in Tab : req'[u].code # "ok" => Promised(u)' = NoToken
  BY <1>4 DEF GoesOn, RefusalsBringNothing
<1> QED BY <1>2, <1>3, <1>4, <1>5, EndingGoesOn DEF NoneMissing

\* The requests stay as they are, the cookie too unless something was lost, and sessions end.
LEMMA RequestsStayGoesOn ==
  ASSUME GoesOn, SessionsInv, UNCHANGED req, cookie' \in {cookie, NoToken},
         NoneMissing' => NoneMissing /\ cookie' = cookie,
         \A s \in Session :
           \/ session'[s].status = session[s].status /\ session'[s].last = session[s].last
           \/ session'[s].status \in {"ended", "token_reuse"}
  PROVE  GoesOn'
<1>1. \A token \in Token : token # NoToken /\ Carried(token)' => Carried(token)
  BY DEF Carried, Unserved
<1>2. \A u \in Tab : Promised(u)' = Promised(u) /\ req'[u].code = req[u].code
  BY DEF Promised
<1>3. \A u \in Tab : req'[u].code # "ok" => Promised(u)' = NoToken
  BY <1>2 DEF GoesOn, RefusalsBringNothing
<1> QED BY <1>1, <1>2, <1>3, EndingGoesOn

LEMMA EndElsewhereGoesOn ==
  ASSUME GoesOn, SessionsInv, NEW own \in Session, EndElsewhere(own)
  PROVE  GoesOn'
<1>1. \A s \in Session :
        \/ session'[s].status = session[s].status /\ session'[s].last = session[s].last
        \/ session'[s].status \in {"ended", "token_reuse"}
  BY EndedType DEF SessionsInv, EndElsewhere
<1> QED BY <1>1, RequestsStayGoesOn DEF EndElsewhere, NoneMissing

LEMMA CallGoesOn == ASSUME GoesOn, SessionsInv, NEW t \in Tab, Call(t) PROVE GoesOn'
<1>1. \A s \in Session :
        \/ session'[s].status = session[s].status /\ session'[s].last = session[s].last
        \/ session'[s].status \in {"ended", "token_reuse"}
  BY OthersEndedType DEF SessionsInv, Call
<1> QED BY <1>1, RequestsStayGoesOn DEF Call, NoneMissing

LEMMA GraceEndsGoesOn == ASSUME GoesOn, SessionsInv, NEW token \in Token, GraceEnds(token) PROVE GoesOn'
<1>1. \A s \in Session : session'[s].status = session[s].status /\ session'[s].last = session[s].last
  BY DEF SessionsInv, SessionsTypeOK, SessionState, GraceEnds
<1> QED BY <1>1, RequestsStayGoesOn DEF GraceEnds, NoneMissing

\* A sign-out that is answered clears the cookie, of a session that has ended or another's.
LEMMA SignOutGoesOn == ASSUME GoesOn, SessionsInv, NEW t \in Tab, SignOut(t) PROVE GoesOn'
<1> DEFINE own == tab[t].access
<1>1. own \in Session \cup {NoSession} /\ lost \in Nat
  BY SessionsAssumption DEF SessionsInv, SessionsTypeOK, TabState
<1>2. UNCHANGED req /\ cookie' \in {cookie, NoToken}
  BY DEF SignOut
<1>3. \A s \in Session :
        \/ session'[s].status = session[s].status /\ session'[s].last = session[s].last
        \/ session'[s].status \in {"ended", "token_reuse"}
  BY <1>1, EndedType, LiveIsSession DEF SessionsInv, SignOut
<1>4. CASE NoneMissing' => NoneMissing /\ cookie' = cookie
  BY <1>2, <1>3, <1>4, RequestsStayGoesOn
<1>5. CASE Live(own) /\ session' = Ended(own) /\ UNCHANGED lost
  <2>1. own \in Session
    BY <1>1, <1>5, LiveIsSession
  <2>2. session'[own].status = "ended" /\ \A o \in Session \ {own} : session'[o] = session[o]
    BY <1>5, <2>1, EndedType DEF SessionsInv
  <2>3. \A token \in Token : token # NoToken /\ Carried(token)' => Carried(token)
    BY <1>2 DEF Carried, Unserved
  <2>4. TokensAreOfSessions' /\ RefusalsBringNothing'
    BY <1>2, <2>3 DEF GoesOn, TokensAreOfSessions, RefusalsBringNothing, Promised
  <2>5. \A s \in Session : Alone(s)' => s = own
    BY <2>1, <2>2 DEF Alone
  <2>6. NothingRefused'
    BY <2>2, <2>5 DEF NothingRefused
  <2>7. SessionCanGoOn'
    BY <2>2, <2>5 DEF SessionCanGoOn, Live, Alone
  <2> QED BY <2>4, <2>6, <2>7 DEF GoesOn
<1>6. \/ UNCHANGED <<lost, cookie>>
      \/ lost' = lost + 1
      \/ Live(own) /\ session' = Ended(own) /\ UNCHANGED lost
  BY DEF SignOut
<1>7. UNCHANGED unsent
  BY DEF SignOut
<1> QED BY <1>1, <1>4, <1>5, <1>6, <1>7 DEF NoneMissing

LEMMA LoseGoesOn == ASSUME GoesOn, SessionsInv, NEW t \in Tab, Lose(t) PROVE GoesOn'
<1>1. Quiet.kind = "none" /\ Quiet.token = NoToken /\ Quiet.code = "none"
  BY DEF Quiet
<1>2. req' = [req EXCEPT ![t] = Quiet] /\ UNCHANGED <<session, grace, cookie>>
  BY DEF Lose, Ends
<1>3. ~NoneMissing'
  BY SessionsAssumption DEF Lose, SessionsInv, SessionsTypeOK, NoneMissing
<1>4. \A token \in Token : token # NoToken /\ Carried(token)' => Carried(token)
  BY <1>1, <1>2, QuietType, AnsweredCarriesLess DEF SessionsInv
<1>5. req'[t] = Quiet /\ \A u \in Tab \ {t} : req'[u] = req[u]
  BY <1>2 DEF SessionsInv, SessionsTypeOK
<1>6. Promised(t)' = NoToken /\ \A u \in Tab \ {t} : Promised(u)' = Promised(u)
  BY <1>1, <1>5 DEF Promised
<1>7. \A u \in Tab : req'[u].code # "ok" => Promised(u)' = NoToken
  BY <1>5, <1>6 DEF GoesOn, RefusalsBringNothing
<1>8. \A u \in Tab : req'[u].code = "TOKEN_REVOKED" => req[u].code = "TOKEN_REVOKED"
  BY <1>1, <1>5
<1> QED BY <1>2, <1>3, <1>4, <1>6, <1>7, <1>8, EndingGoesOn

LEMMA LoginGoesOn == ASSUME GoesOn, SessionsInv, NEW t \in Tab, Login(t) PROVE GoesOn'
<1>1. PICK s \in Session :
        /\ session[s].status = "none"
        /\ session' = [session EXCEPT ![s].status = "live", ![s].last = 1]
        /\ cookie' = [s |-> s, n |-> 1]
  BY DEF Login
<1>2. UNCHANGED <<req, lost>>
  BY DEF Login
<1>3. /\ session'[s].status = "live" /\ session'[s].last = 1
      /\ \A o \in Session \ {s} : session'[o] = session[o]
  BY <1>1 DEF SessionsInv, SessionsTypeOK, SessionState
<1>4. \A o \in Session : Alone(o)' => o = s /\ Alone(o)
  BY <1>3 DEF Alone
<1>5. TokensAreOfSessions'
  <2>1. cookie'.s # NoSession
    BY <1>1, SessionsAssumption DEF Session, NoSession
  <2> QED BY <1>2, <2>1 DEF GoesOn, TokensAreOfSessions, Carried, Unserved, Promised
<1>6. RefusalsBringNothing'
  BY <1>2 DEF GoesOn, RefusalsBringNothing, Promised
<1>7. NothingRefused'
  <2>1. Alone(s) => \A u \in Tab : req[u].code # "TOKEN_REVOKED"
    BY <1>1 DEF GoesOn, NothingRefused
  <2>2. ASSUME NEW o \in Session, Alone(o)' PROVE Alone(s)
    BY <1>4, <2>2
  <2> QED BY <1>2, <2>1, <2>2 DEF NothingRefused
<1>8. SessionCanGoOn'
  BY <1>1, <1>3, <1>4 DEF SessionCanGoOn, CanGoOn, Alone
<1> QED BY <1>5, <1>6, <1>7, <1>8 DEF GoesOn

\* A request that is answered without a new token, and without a rotation: if it is refused, no
\* session is alone any more.
LEMMA NotGrantedGoesOn ==
  ASSUME GoesOn, SessionsInv, NEW t \in Tab, Unserved(t), UNCHANGED cookie, NoneMissing' => NoneMissing,
         NEW code \in Code \ {"none"}, NEW s \in Session \cup {NoSession}, Answer(t, code, NoToken, s),
         code = "TOKEN_REVOKED" =>
           \A o \in Session : session'[o].status \in {"none", "live"} => ~Alone(o)',
         \A o \in Session :
           \/ session'[o].status = session[o].status /\ session'[o].last = session[o].last
           \/ session'[o].status \in {"ended", "token_reuse"}
  PROVE  GoesOn'
<1> DEFINE r == [req[t] EXCEPT !.code = code, !.token = NoToken, !.s = s]
<1>1. r \in Refresh /\ r.token = NoToken /\ r.code = code
  BY NoTokenIsToken DEF SessionsInv, SessionsTypeOK, Refresh
<1>2. req' = [req EXCEPT ![t] = r]
  BY DEF Answer
<1> HIDE DEF r
<1>3. req'[t] = r /\ \A u \in Tab \ {t} : req'[u] = req[u]
  BY <1>2 DEF SessionsInv, SessionsTypeOK
<1>4. Promised(t) = NoToken
  BY DEF Unserved, SessionsInv, NothingBeforeTheAnswer
<1>5. \A u \in Tab : Promised(u)' = Promised(u)
  BY <1>1, <1>3, <1>4 DEF Promised
<1>6. \A token \in Token : token # NoToken /\ Carried(token)' => Carried(token)
  BY <1>1, <1>2, AnsweredCarriesLess DEF SessionsInv
<1>7. \A u \in Tab : req'[u].code # "ok" => Promised(u)' = NoToken
  BY <1>3, <1>4, <1>5 DEF GoesOn, RefusalsBringNothing
<1>8. CASE code # "TOKEN_REVOKED"
  <2>1. \A u \in Tab : req'[u].code = "TOKEN_REVOKED" => req[u].code = "TOKEN_REVOKED"
    BY <1>1, <1>3, <1>8
  <2> QED BY <1>5, <1>6, <1>7, <2>1, EndingGoesOn
<1>9. CASE code = "TOKEN_REVOKED"
  <2>1. TokensAreOfSessions'
    BY <1>5, <1>6 DEF GoesOn, TokensAreOfSessions
  <2>2. RefusalsBringNothing'
    BY <1>7 DEF RefusalsBringNothing
  <2>3. NothingRefused'
    BY <1>9 DEF NothingRefused
  <2>4. SessionCanGoOn'
    BY <1>9 DEF SessionCanGoOn, Live, Alone
  <2> QED BY <2>1, <2>2, <2>3, <2>4 DEF GoesOn
<1> QED BY <1>8, <1>9

LEMMA RotateGoesOn ==
  ASSUME GoesOn, SessionsInv, NEW t \in Tab, Unserved(t), UNCHANGED cookie,
         NEW s \in Session, Live(s), NEW r \in Refresh,
         r.code \in {"ok", "DENIED"}, NoneMissing' => r.code = "ok",
         r.token = (IF r.code = "ok" THEN [s |-> s, n |-> session[s].last + 1] ELSE NoToken), req' = [req EXCEPT ![t] = r],
         session'[s].status = "live", session'[s].last = session[s].last + 1,
         \A o \in Session \ {s} : session'[o] = session[o]
  PROVE  GoesOn'
<1>1. req'[t] = r /\ \A u \in Tab \ {t} : req'[u] = req[u]
  BY DEF SessionsInv, SessionsTypeOK
<1>2. Promised(t)' = r.token /\ \A u \in Tab \ {t} : Promised(u)' = Promised(u)
  BY <1>1 DEF Promised
<1>3. \A token \in Token : Carried(token)' => Carried(token)
  BY <1>1 DEF Carried, Unserved
<1>4. \A o \in Session : Alone(o)' => o = s /\ Alone(o)
  BY DEF Alone
<1>5. TokensAreOfSessions'
  <2>1. r.token.s = NoSession => r.token = NoToken
    BY SessionsAssumption DEF Session, NoSession
  <2> QED BY <1>2, <1>3, <2>1 DEF GoesOn, TokensAreOfSessions
<1>6. RefusalsBringNothing'
  BY <1>1, <1>2 DEF GoesOn, RefusalsBringNothing
<1>7. NothingRefused'
  <2>1. Alone(s) => \A u \in Tab : req[u].code # "TOKEN_REVOKED"
    BY DEF Live, GoesOn, NothingRefused
  <2>2. ASSUME NEW o \in Session, Alone(o)' PROVE Alone(s)
    BY <1>4, <2>2
  <2> QED BY <1>1, <2>1, <2>2 DEF NothingRefused
<1>8. SessionCanGoOn'
  <2> SUFFICES ASSUME NEW o \in Session, Alone(o)', NoneMissing'
               PROVE  Promised(t)' = [s |-> o, n |-> session'[o].last]
    BY DEF SessionCanGoOn, CanGoOn, Alone, Promised, NoneMissing
  <2> QED BY <1>2, <1>4
<1> QED BY <1>5, <1>6, <1>7, <1>8 DEF GoesOn

LEMMA ServeGoesOn == ASSUME GoesOn, SessionsInv, NEW t \in Tab, ServeRefresh(t) PROVE GoesOn'
<1> DEFINE token == req[t].with
<1>1. token \in Token /\ Carried(token) /\ UNCHANGED <<cookie, lost>> /\ Unserved(t)
  BY DEF SessionsInv, SessionsTypeOK, Refresh, Carried, ServeRefresh
<1>2. CASE /\ UNCHANGED <<session, grace, unsent>>
           /\ \/ token = NoToken /\ Refuse(t, "MISSING")
              \/ Live(token.s) /\ Answer(t, "ok", NoToken, token.s)
              \/ Refuse(t, "DENIED")
  <2>1. token.s \in Session \cup {NoSession}
    BY <1>1 DEF Token
  <2> QED BY <1>1, <1>2, <2>1, NotGrantedGoesOn DEF Refuse, Code, NoneMissing
<1>3. CASE token # NoToken /\ ~Live(token.s) /\ Refuse(t, "TOKEN_REVOKED") /\ UNCHANGED <<session, grace, unsent>>
  <2>1. token.s \in Session
    BY <1>1, <1>3 DEF GoesOn, TokensAreOfSessions, Token
  <2>2. session[token.s].status \notin {"none", "live"}
    BY <1>1, <1>3, <2>1, NoTokenIsToken DEF SessionsInv, OpenedFirst, Live, NoToken
  <2>3. \A o \in Session : session'[o].status \in {"none", "live"} => ~Alone(o)'
    BY <1>3, <2>1, <2>2 DEF Alone
  <2> QED BY <1>1, <1>3, <2>3, NotGrantedGoesOn DEF Refuse, Code, NoneMissing
<1>4. CASE /\ Live(token.s) /\ Refuse(t, "TOKEN_REVOKED") /\ UNCHANGED unsent
           /\ \/ session' = [session EXCEPT ![token.s].status = "token_reuse"]
              \/ session' = Ended(token.s)
  <2>1. token.s \in Session
    BY <1>1, <1>4, LiveIsSession DEF Token
  <2>2. /\ session'[token.s].status \in {"ended", "token_reuse"}
        /\ \A o \in Session \ {token.s} : session'[o] = session[o]
    BY <1>4, <2>1, EndedType DEF SessionsInv, SessionsTypeOK, SessionState
  <2>3. \A o \in Session : session'[o].status \in {"none", "live"} => ~Alone(o)'
    BY <2>1, <2>2 DEF Alone
  <2> QED BY <1>1, <1>4, <2>2, <2>3, NotGrantedGoesOn DEF Refuse, Code, NoneMissing
<1>5. CASE /\ Live(token.s)
           /\ Rotate(token)
           /\ \/ Answer(t, "ok", [token EXCEPT !.n = session[token.s].last + 1], token.s)
              \/ Refuse(t, "DENIED") /\ unsent' = unsent + 1
  <2>1. token.s \in Session
    BY <1>1, <1>5, LiveIsSession DEF Token
  <2> DEFINE granted == [req[t] EXCEPT !.code = "ok", !.s = token.s,
                           !.token = [token EXCEPT !.n = session[token.s].last + 1]]
             denied == [req[t] EXCEPT !.code = "DENIED", !.token = NoToken, !.s = NoSession]
  <2>2. PICK r \in {granted, denied} : req' = [req EXCEPT ![t] = r] /\ (r = granted \/ unsent' = unsent + 1)
    BY <1>5 DEF Answer, Refuse, SessionsInv, SessionsTypeOK, Refresh
  <2>3. /\ granted.code = "ok" /\ granted.token = [s |-> token.s, n |-> session[token.s].last + 1]
        /\ denied.code = "DENIED" /\ denied.token = NoToken
    BY <1>1 DEF SessionsInv, SessionsTypeOK, Refresh, Token
  <2>4. NoneMissing' => r = granted
    BY <2>2, SessionsAssumption DEF SessionsInv, SessionsTypeOK, NoneMissing
  <2> HIDE DEF granted, denied
  <2>5. /\ r.code \in {"ok", "DENIED"} /\ (NoneMissing' => r.code = "ok")
        /\ r.token = IF r.code = "ok" THEN [s |-> token.s, n |-> session[token.s].last + 1] ELSE NoToken
    BY <2>2, <2>3, <2>4
  <2>6. r \in Refresh
    <3>1. SessionsTypeOK'
      BY ServeType DEF SessionsInv
    <3>2. req'[t] = r
      BY <2>2 DEF SessionsInv, SessionsTypeOK
    <3> QED BY <3>1, <3>2 DEF SessionsTypeOK
  <2>7. /\ session'[token.s].last = session[token.s].last + 1 /\ session'[token.s].status = "live"
        /\ \A o \in Session \ {token.s} : session'[o] = session[o]
    BY <1>5, <2>1 DEF SessionsInv, SessionsTypeOK, SessionState, Live, Rotate
  <2>8. Live(token.s)
    BY <1>5
  <2> QED BY <1>1, <2>1, <2>2, <2>6, <2>7, <2>8, <2>5, RotateGoesOn
<1> QED BY <1>2, <1>3, <1>4, <1>5 DEF ServeRefresh, Deny

LEMMA ApplyGoesOn == ASSUME GoesOn, SessionsInv, NEW t \in Tab, ApplyRefresh(t) PROVE GoesOn'
<1>1. Quiet.kind = "none" /\ Quiet.token = NoToken /\ Quiet.code = "none"
  BY DEF Quiet
<1>2. req' = [req EXCEPT ![t] = Quiet] /\ UNCHANGED <<session, grace, lost, unsent>>
  BY DEF ApplyRefresh, Ends
<1>3. req'[t] = Quiet /\ \A u \in Tab \ {t} : req'[u] = req[u]
  BY <1>2 DEF SessionsInv, SessionsTypeOK
<1>4. Promised(t)' = NoToken /\ \A u \in Tab \ {t} : Promised(u)' = Promised(u)
  BY <1>1, <1>3 DEF Promised
<1>5. \A u \in Tab : Unserved(u)' => Unserved(u) /\ req'[u].with = req[u].with
  BY <1>1, <1>3 DEF Unserved
<1>6. cookie' \in {cookie, NoToken, Promised(t)}
  BY DEF ApplyRefresh, CookieAfter, Promised
<1>7. TokensAreOfSessions'
  <2>1. \A token \in Token : Carried(token)' => Carried(token) \/ token \in {NoToken, Promised(t)}
    BY <1>5, <1>6 DEF Carried
  <2> QED BY <1>4, <2>1 DEF GoesOn, TokensAreOfSessions
<1>8. RefusalsBringNothing'
  BY <1>3, <1>4 DEF GoesOn, RefusalsBringNothing
<1>9. NothingRefused'
  BY <1>1, <1>2, <1>3 DEF GoesOn, NothingRefused, Alone
<1>10. SessionCanGoOn'
  <2> SUFFICES ASSUME NEW s \in Session, Live(s), NoneMissing, Alone(s)
               PROVE  \/ cookie' = [s |-> s, n |-> session[s].last]
                      \/ \E u \in Tab : Promised(u)' = [s |-> s, n |-> session[s].last]
    BY <1>2 DEF SessionCanGoOn, CanGoOn, NoneMissing, Promised, Alone, Live
  <2>1. s # NoSession /\ s \in Session
    BY DEF Live
  <2>2. req[t].code # "TOKEN_REVOKED"
    BY DEF GoesOn, NothingRefused, Live
  <2>3. cookie' = IF Promised(t) = NoToken THEN cookie ELSE Promised(t)
    BY <2>2 DEF ApplyRefresh, CookieAfter, Promised, GoesOn, RefusalsBringNothing
  <2>4. CASE Promised(t) = NoToken
    <3>1. \/ cookie = [s |-> s, n |-> session[s].last]
          \/ \E u \in Tab : Promised(u) = [s |-> s, n |-> session[s].last]
      BY DEF GoesOn, SessionCanGoOn, CanGoOn, NoneMissing, Promised, Alone
    <3> QED BY <1>4, <2>1, <2>3, <2>4, <3>1
  <2>5. CASE Promised(t) # NoToken
    <3>1. Promised(t) \in Token /\ Promised(t).s \in Session
      BY <2>5 DEF GoesOn, TokensAreOfSessions, SessionsInv, SessionsTypeOK, Refresh, Promised, Token
    <3>2. Promised(t).s = s
      BY <3>1 DEF SessionsInv, OpenedFirst, Alone
    <3>3. Promised(t).n = session[s].last
      BY <3>2 DEF SessionsInv, PromisedIsLast
    <3>4. Promised(t) = [s |-> s, n |-> session[s].last]
      BY <3>1, <3>2, <3>3 DEF Token
    <3> QED BY <2>3, <2>5, <3>4
  <2> QED BY <2>4, <2>5
<1> QED BY <1>7, <1>8, <1>9, <1>10 DEF GoesOn

LEMMA StepGoesOn == GoesOn /\ SessionsInv /\ [SessionsNext]_sessionVars => GoesOn'
<1> SUFFICES ASSUME GoesOn, SessionsInv, [SessionsNext]_sessionVars PROVE GoesOn'
  OBVIOUS
<1>1. CASE \E t \in Tab : Login(t) \/ Reload(t) \/ RefreshDue(t) \/ Call(t)
  BY <1>1, LoginGoesOn, SendGoesOn, CallGoesOn
<1>2. CASE \E t \in Tab : SignOut(t) \/ ServeRefresh(t) \/ ApplyRefresh(t) \/ Lose(t)
  BY <1>2, SignOutGoesOn, ServeGoesOn, ApplyGoesOn, LoseGoesOn
<1>3. CASE \E s \in Session : EndElsewhere(s)
  BY <1>3, EndElsewhereGoesOn
<1>4. CASE \E token \in Token : GraceEnds(token)
  BY <1>4, GraceEndsGoesOn
<1>5. CASE UNCHANGED sessionVars
  BY <1>5 DEF sessionVars, GoesOn, TokensAreOfSessions, RefusalsBringNothing, NothingRefused, SessionCanGoOn, CanGoOn,
     Carried, Unserved, Promised, Live, Alone
<1> QED BY <1>1, <1>2, <1>3, <1>4, <1>5 DEF SessionsNext

\* The unused token of the one open session is in the cookie or on its way there, as long as
\* nothing was lost and no refresh refused after its rotation: no order in which tabs refresh,
\* reload, sign out and apply their answers makes them overwrite or clear it (CookieAfter,
\* refresh, setRefreshCookie).
THEOREM SessionsCanGoOn == SessionsSpec => []SessionCanGoOn
<1>1. SessionsInit => SessionsInv /\ GoesOn
  BY InitSessionsInv, InitGoesOn
<1>2. (SessionsInv /\ GoesOn) /\ [SessionsNext]_sessionVars => (SessionsInv /\ GoesOn)'
  BY SessionsStep, StepGoesOn
<1>3. GoesOn => SessionCanGoOn
  BY DEF GoesOn
<1> QED BY <1>1, <1>2, <1>3, PTL DEF SessionsSpec

-----------------------------------------------------------------------------
(* The keys.                                                               *)

Running == [k \in Key |-> {a \in Of(k) : attempt[a].at = "running"}]

RunsAreOwn ==
  \A k \in Key : \A a \in runs[k] : a \in Of(k) /\ attempt[a].at \in {"ran", "answered", "lost"}

ResultsAreOwn ==
  \A a \in Attempt : attempt[a].at \in {"ran", "answered"} =>
    attempt[a].answer = a /\ a \in runs[attempt[a].key]

TogetherIsCrowded ==
  \A k \in Key : \A a, b \in Of(k) : a # b /\ InFlight(a) /\ InFlight(b) => a \in crowded

\* Whoever is let in alone and has yet to run is still alone, and nothing was stored.
AloneFindsNothing ==
  \A k \in Key : \A a \in Of(k) : attempt[a].at = "running" /\ a \notin crowded => ~Found(k)

\* Who stored the answer has told it.
StoredIsRun ==
  \A k \in Key : Found(k) => table[k].answer \in runs[k] /\ attempt[table[k].answer].at = "answered"

ExpiredCounts == \A k \in Key : table[k].state = "expired" => expiries[k] > 0

\* What was replayed is still stored.
ReplayedIsStored ==
  \A k \in Key : \A a \in Of(k) : attempt[a].at = "replayed" =>
    /\ attempt[a].answer \in runs[k]
    /\ expiries[k] = 0 => Found(k) /\ table[k].answer = attempt[a].answer

\* Of the runs of a key, those to come included, each was forgotten by a failure or overlapped
\* another, but one: the one under way or stored.
RunsCounted ==
  \A k \in Key : expiries[k] = 0 =>
    Cardinality(runs[k]) + Cardinality(Running[k])
      <= overlaps[k] + failures[k] + (IF Found(k) \/ Serving[k] # {} THEN 1 ELSE 0)

KeysInv ==
  /\ KeysTypeOK
  /\ RunsAreOwn
  /\ ResultsAreOwn
  /\ TogetherIsCrowded
  /\ AloneFindsNothing
  /\ StoredIsRun
  /\ ExpiredCounts
  /\ ReplayedIsStored
  /\ RunsCounted

\* Counting is possible.
LEMMA KeysCount ==
  ASSUME KeysTypeOK, NEW k \in Key
  PROVE  /\ IsFiniteSet(runs[k]) /\ Cardinality(runs[k]) \in Nat
         /\ IsFiniteSet(Running[k]) /\ Cardinality(Running[k]) \in Nat
         /\ failures[k] \in Nat /\ expiries[k] \in Nat /\ overlaps[k] \in Nat
<1>1. runs[k] \subseteq Attempt /\ Running[k] \subseteq Attempt
  BY DEF KeysTypeOK, Running, Of
<1>2. /\ IsFiniteSet(runs[k]) /\ Cardinality(runs[k]) \in Nat
      /\ IsFiniteSet(Running[k]) /\ Cardinality(Running[k]) \in Nat
  BY <1>1, IdempotencyAssumption, FS_Subset, FS_CardinalityType
<1> QED BY <1>2 DEF KeysTypeOK

LEMMA InitKeysInv == KeysInit => KeysInv
<1> SUFFICES ASSUME KeysInit PROVE KeysInv
  OBVIOUS
<1>1. KeysTypeOK
  BY IdempotencyAssumption DEF KeysInit, KeysTypeOK, AttemptState, Answers
<1>2. \A a \in Attempt : attempt[a].at = "new"
  BY DEF KeysInit
<1>3. \A k \in Key : table[k].state = "absent" /\ runs[k] = {} /\ Running[k] = {} /\ ~Found(k)
  BY <1>2 DEF KeysInit, Running, Of, Found
<1>4. RunsCounted
  <2>1. ASSUME NEW k \in Key
        PROVE  /\ Cardinality(runs[k]) = 0 /\ Cardinality(Running[k]) = 0
               /\ overlaps[k] = 0 /\ failures[k] = 0
    BY <1>3, FS_EmptySet DEF KeysInit
  <2> QED BY <2>1 DEF RunsCounted
<1> QED BY <1>1, <1>2, <1>3, <1>4 DEF KeysInv, RunsAreOwn, ResultsAreOwn, TogetherIsCrowded, AloneFindsNothing,
             StoredIsRun, ExpiredCounts, ReplayedIsStored, InFlight, Of

\* A step of one attempt, and what it leaves as it was
Stepped(a) ==
  /\ attempt' \in [Attempt -> AttemptState] /\ attempt'[a].key = attempt[a].key
  /\ attempt[a].key \in Key /\ a \in Of(attempt[a].key)
  /\ \A b \in Attempt \ {a} : attempt'[b] = attempt[b] /\ InFlight(b)' = InFlight(b)
  /\ \A k \in Key : Of(k)' = Of(k) /\ Of(k) \subseteq Attempt
  /\ \A k \in Key \ {attempt[a].key} : a \notin Of(k) /\ Running'[k] = Running[k] /\ Serving'[k] = Serving[k]
  /\ attempt'[a].at = "running" => Running'[attempt[a].key] = Running[attempt[a].key] \cup {a}
  /\ attempt'[a].at # "running" => Running'[attempt[a].key] = Running[attempt[a].key] \ {a}
  /\ InFlight(a)' => Serving'[attempt[a].key] = Serving[attempt[a].key] \cup {a}
  /\ ~InFlight(a)' => Serving'[attempt[a].key] = Serving[attempt[a].key] \ {a}

LEMMA OneSteps ==
  ASSUME KeysTypeOK, NEW a \in Attempt, NEW r, attempt' = [attempt EXCEPT ![a] = r],
         r \in AttemptState, r.key = attempt[a].key
  PROVE  Stepped(a) /\ attempt'[a] = r
<1>1. /\ attempt'[a] = r /\ \A b \in Attempt \ {a} : attempt'[b] = attempt[b]
      /\ attempt' \in [Attempt -> AttemptState] /\ attempt[a].key \in Key
  BY DEF KeysTypeOK, AttemptState
<1>2. \A b \in Attempt : attempt'[b].key = attempt[b].key
  BY <1>1
<1>3. \A k \in Key : Of(k)' = Of(k) /\ Of(k) \subseteq Attempt
  BY <1>2 DEF Of
<1>4. \A k \in Key \ {attempt[a].key} : a \notin Of(k)
  BY DEF Of
<1>5. \A b \in Attempt \ {a} : InFlight(b)' = InFlight(b)
  BY <1>1 DEF InFlight
<1>6. \A k \in Key : /\ Running'[k] = {b \in Of(k) : attempt'[b].at = "running"}
                     /\ Running[k] = {b \in Of(k) : attempt[b].at = "running"}
  BY <1>3 DEF Running
<1>7. \A k \in Key : Serving'[k] = {b \in Of(k) : InFlight(b)'} /\ Serving[k] = {b \in Of(k) : InFlight(b)}
  BY <1>3 DEF Serving
<1>8. a \in Of(attempt[a].key)
  BY DEF Of
<1>9. ASSUME NEW k \in Key \ {attempt[a].key} PROVE Running'[k] = Running[k] /\ Serving'[k] = Serving[k]
  <2>1. \A b \in Of(k) : attempt'[b] = attempt[b] /\ InFlight(b)' = InFlight(b)
    BY <1>1, <1>3, <1>4, <1>5
  <2>2. Running'[k] = Running[k]
    <3>1. /\ Running'[k] = {b \in Of(k) : attempt'[b].at = "running"}
          /\ Running[k] = {b \in Of(k) : attempt[b].at = "running"}
      BY <1>6
    <3>2. {b \in Of(k) : attempt'[b].at = "running"} = {b \in Of(k) : attempt[b].at = "running"}
      BY <2>1
    <3> QED BY <3>1, <3>2
  <2>3. Serving'[k] = Serving[k]
    <3>1. Serving'[k] = {b \in Of(k) : InFlight(b)'} /\ Serving[k] = {b \in Of(k) : InFlight(b)}
      BY <1>7
    <3>2. {b \in Of(k) : InFlight(b)'} = {b \in Of(k) : InFlight(b)}
      BY <2>1
    <3> QED BY <3>1, <3>2
  <2> QED BY <2>2, <2>3
<1>10. /\ r.at = "running" => Running'[attempt[a].key] = Running[attempt[a].key] \cup {a}
       /\ r.at # "running" => Running'[attempt[a].key] = Running[attempt[a].key] \ {a}
  BY <1>1, <1>3, <1>6, <1>8
<1>11. /\ InFlight(a)' => Serving'[attempt[a].key] = Serving[attempt[a].key] \cup {a}
       /\ ~InFlight(a)' => Serving'[attempt[a].key] = Serving[attempt[a].key] \ {a}
  BY <1>1, <1>3, <1>5, <1>7, <1>8
<1> QED BY <1>1, <1>3, <1>4, <1>5, <1>8, <1>9, <1>10, <1>11 DEF Stepped

\* What the statements of an attempt do
LEMMA LookupDoes ==
  ASSUME KeysTypeOK, NEW a \in Attempt, Lookup(a), NEW k, k = attempt[a].key
  PROVE  /\ Stepped(a)
         /\ Found(k) => attempt'[a].at = "replayed" /\ attempt'[a].answer = table[k].answer
         /\ ~Found(k) => attempt'[a].at = "running"
<1>0. attempt[a] \in AttemptState /\ table[k].answer \in Answers
  BY DEF KeysTypeOK, AttemptState
<1> DEFINE replayed == [[attempt[a] EXCEPT !.at = "replayed"] EXCEPT !.answer = table[k].answer]
           running == [attempt[a] EXCEPT !.at = "running"]
<1>1. /\ replayed \in AttemptState /\ replayed.at = "replayed" /\ replayed.key = k
      /\ replayed.answer = table[k].answer
      /\ running \in AttemptState /\ running.at = "running" /\ running.key = k
  BY <1>0 DEF AttemptState
<1>2. /\ Found(k) => attempt' = [attempt EXCEPT ![a] = replayed]
      /\ ~Found(k) => attempt' = [attempt EXCEPT ![a] = running]
  BY DEF Lookup
<1> HIDE DEF replayed, running
<1>4. CASE Found(k)
  BY <1>1, <1>2, <1>4, OneSteps
<1>5. CASE ~Found(k)
  BY <1>1, <1>2, <1>5, OneSteps
<1> QED BY <1>4, <1>5

LEMMA RunDoes ==
  ASSUME KeysTypeOK, NEW a \in Attempt, Run(a)
  PROVE  Stepped(a) /\ attempt'[a].at = "ran" /\ attempt'[a].answer = a
<1> DEFINE r == [[attempt[a] EXCEPT !.at = "ran"] EXCEPT !.answer = a]
<1>1. r \in AttemptState /\ r.at = "ran" /\ r.answer = a /\ r.key = attempt[a].key
  BY DEF KeysTypeOK, AttemptState, Answers
<1>2. attempt' = [attempt EXCEPT ![a] = r]
  BY DEF Run
<1> HIDE DEF r
<1> QED BY <1>1, <1>2, OneSteps

LEMMA AtDoes ==
  ASSUME KeysTypeOK, NEW a \in Attempt, NEW at \in {"answered", "lost"}, attempt' = [attempt EXCEPT ![a].at = at]
  PROVE  Stepped(a) /\ attempt'[a].at = at /\ attempt'[a].answer = attempt[a].answer
<1> DEFINE r == [attempt[a] EXCEPT !.at = at]
<1>1. r \in AttemptState /\ r.at = at /\ r.answer = attempt[a].answer /\ r.key = attempt[a].key
  BY DEF KeysTypeOK, AttemptState
<1>2. attempt' = [attempt EXCEPT ![a] = r]
  OBVIOUS
<1> HIDE DEF r
<1> QED BY <1>1, <1>2, OneSteps

LEMMA LookupKeeps == ASSUME KeysInv, NEW a \in Attempt, Lookup(a) PROVE KeysInv'
<1> DEFINE k == attempt[a].key
<1>1. attempt[a].at = "new" /\ UNCHANGED <<table, runs, failures, expiries>>
  BY DEF Lookup
<1>2. k \in Key /\ attempt[a] \in AttemptState /\ table[k].answer \in Answers
  BY DEF KeysInv, KeysTypeOK, AttemptState
<1>3. /\ Stepped(a)
      /\ Found(k) => attempt'[a].at = "replayed" /\ attempt'[a].answer = table[k].answer
      /\ ~Found(k) => attempt'[a].at = "running"
  BY LookupDoes DEF KeysInv
<1>4. /\ Found(k) => UNCHANGED <<overlaps, crowded>>
      /\ ~Found(k) /\ Serving[k] = {} => UNCHANGED <<overlaps, crowded>>
      /\ ~Found(k) /\ Serving[k] # {} => /\ overlaps' = [overlaps EXCEPT ![k] = @ + 1]
                                         /\ crowded' = crowded \cup Serving[k] \cup {a}
  <2>1. overlaps = [overlaps EXCEPT ![k] = overlaps[k]]
    BY DEF KeysInv, KeysTypeOK
  <2>2. Serving[k] = {b \in Of(k) : InFlight(b)}
    BY <1>2 DEF Serving
  <2> QED BY <1>2, <2>1, <2>2 DEF Lookup
<1>5. \A j \in Key : Found(j)' = Found(j) /\ table'[j] = table[j]
  BY <1>1 DEF Found
<1>6. crowded \subseteq crowded' /\ Serving[k] \subseteq Attempt
  BY <1>2, <1>4 DEF Serving, Of
<1>7. KeysTypeOK'
  <2>1. attempt' \in [Attempt -> AttemptState] /\ crowded' \subseteq Attempt
    BY <1>3, <1>4, <1>6 DEF Stepped, KeysInv, KeysTypeOK
  <2>2. overlaps' \in [Key -> Nat]
    BY <1>4 DEF KeysInv, KeysTypeOK
  <2> QED BY <1>1, <2>1, <2>2 DEF KeysInv, KeysTypeOK
<1>8. RunsAreOwn'
  <2>1. \A j \in Key : \A b \in runs[j] : b # a /\ b \in Of(j) /\ b \in Attempt
    BY <1>1, <1>3 DEF Stepped, KeysInv, RunsAreOwn
  <2> QED BY <1>1, <1>3, <2>1 DEF Stepped, KeysInv, RunsAreOwn
<1>9. ResultsAreOwn'
  BY <1>1, <1>3 DEF Stepped, KeysInv, ResultsAreOwn
<1>10. TogetherIsCrowded'
  <2> SUFFICES ASSUME NEW j \in Key, NEW b \in Of(j), NEW c \in Of(j), b # c, InFlight(b)', InFlight(c)'
               PROVE  b \in crowded'
    BY <1>3 DEF Stepped, KeysInv, TogetherIsCrowded
  <2>1. CASE b # a /\ c # a
    BY <1>3, <1>6, <2>1 DEF Stepped, KeysInv, TogetherIsCrowded
  <2>2. CASE b = a \/ c = a
    <3>1. j = k
      BY <2>2 DEF Of
    <3>2. InFlight(a)' /\ ~Found(k)
      BY <1>3, <2>2 DEF InFlight, Found
    <3>3. \A d \in Of(k) \ {a} : InFlight(d)' => d \in Serving[k]
      BY <1>2, <1>3 DEF Stepped, KeysInv, Serving
    <3> QED BY <1>4, <2>2, <3>1, <3>2, <3>3
  <2> QED BY <2>1, <2>2
<1>11. AloneFindsNothing'
  BY <1>3, <1>5, <1>6 DEF Stepped, KeysInv, AloneFindsNothing
<1>12. StoredIsRun' /\ ExpiredCounts'
  <2>1. \A j \in Key : Found(j) => table[j].answer # a /\ table[j].answer \in Attempt
    BY <1>1, <1>3 DEF Stepped, KeysInv, StoredIsRun, KeysTypeOK
  <2>2. \A j \in Key : Found(j) => attempt'[table[j].answer].at = "answered"
    BY <1>3, <2>1 DEF Stepped, KeysInv, StoredIsRun
  <2> QED BY <1>1, <1>5, <2>2 DEF KeysInv, StoredIsRun, ExpiredCounts
<1>13. ReplayedIsStored'
  BY <1>1, <1>3, <1>5 DEF Stepped, KeysInv, ReplayedIsStored, StoredIsRun
<1>14. RunsCounted'
  <2> SUFFICES ASSUME NEW j \in Key, expiries[j] = 0
               PROVE  Cardinality(runs[j]) + Cardinality(Running'[j])
                        <= overlaps'[j] + failures[j] + (IF Found(j) \/ Serving'[j] # {} THEN 1 ELSE 0)
    BY <1>1, <1>5 DEF RunsCounted
  <2>1. Cardinality(runs[j]) + Cardinality(Running[j])
          <= overlaps[j] + failures[j] + (IF Found(j) \/ Serving[j] # {} THEN 1 ELSE 0)
    BY DEF KeysInv, RunsCounted
  <2>2. /\ IsFiniteSet(Running[j]) /\ Cardinality(Running[j]) \in Nat /\ Cardinality(runs[j]) \in Nat
        /\ overlaps[j] \in Nat /\ failures[j] \in Nat
    BY KeysCount DEF KeysInv
  <2>3. CASE j # k
    <3>1. Running'[j] = Running[j] /\ Serving'[j] = Serving[j]
      BY <1>3, <2>3 DEF Stepped
    <3>2. overlaps'[j] = overlaps[j]
      BY <1>4, <2>3 DEF KeysInv, KeysTypeOK
    <3> QED BY <2>1, <3>1, <3>2
  <2>4. CASE j = k /\ Found(k)
    <3>1. a \notin Running[k]
      BY <1>1, <1>2 DEF Running
    <3>2. Running'[k] = Running[k]
      <4>1. Running'[k] = Running[k] \ {a}
        BY <1>3, <2>4 DEF Stepped
      <4> QED BY <3>1, <4>1
    <3>3. overlaps'[k] = overlaps[k]
      BY <1>4, <2>4
    <3>4. Cardinality(runs[k]) + Cardinality(Running[k]) <= overlaps[k] + failures[k] + 1
      BY <2>1, <2>4
    <3> QED BY <2>4, <3>2, <3>3, <3>4
  <2>5. CASE j = k /\ ~Found(k)
    <3>1. a \notin Running[k]
      BY <1>1, <1>2 DEF Running
    <3>2. Running'[k] = Running[k] \cup {a} /\ a \in Serving'[k]
      BY <1>3, <2>5 DEF Stepped, InFlight
    <3>3. Cardinality(Running'[k]) = Cardinality(Running[k]) + 1
      BY <2>2, <2>5, <3>1, <3>2, FS_AddElement
    <3>4. overlaps'[k] = IF Serving[k] = {} THEN overlaps[k] ELSE overlaps[k] + 1
      BY <1>2, <1>4, <2>5 DEF KeysInv, KeysTypeOK
    <3>5. CASE Serving[k] = {}
      <4>1. Cardinality(runs[k]) + Cardinality(Running[k]) <= overlaps[k] + failures[k]
        BY <2>1, <2>2, <2>5, <3>5
      <4>2. overlaps'[k] = overlaps[k]
        BY <3>4, <3>5
      <4> QED BY <2>2, <2>5, <3>2, <3>3, <4>1, <4>2
    <3>6. CASE Serving[k] # {}
      <4>1. Cardinality(runs[k]) + Cardinality(Running[k]) <= overlaps[k] + failures[k] + 1
        BY <2>1, <2>2, <2>5, <3>6
      <4>2. overlaps'[k] = overlaps[k] + 1
        BY <3>4, <3>6
      <4> QED BY <2>2, <2>5, <3>2, <3>3, <4>1, <4>2
    <3> QED BY <3>5, <3>6
  <2> QED BY <2>3, <2>4, <2>5
<1> QED BY <1>7, <1>8, <1>9, <1>10, <1>11, <1>12, <1>13, <1>14 DEF KeysInv

LEMMA RunKeeps == ASSUME KeysInv, NEW a \in Attempt, Run(a) PROVE KeysInv'
<1> DEFINE k == attempt[a].key
<1>1. attempt[a].at = "running" /\ UNCHANGED <<table, failures, expiries, overlaps, crowded>>
  BY DEF Run, outside
<1>2. k \in Key /\ attempt[a] \in AttemptState /\ a \in Answers /\ a \in Of(k)
  BY DEF KeysInv, KeysTypeOK, AttemptState, Answers, Of
<1>3. Stepped(a) /\ attempt'[a].at = "ran" /\ attempt'[a].answer = a
  BY RunDoes DEF KeysInv
<1>4. runs'[k] = runs[k] \cup {a} /\ (\A j \in Key \ {k} : runs'[j] = runs[j]) /\ runs' \in [Key -> SUBSET Attempt]
  BY <1>2 DEF KeysInv, KeysTypeOK, Run
<1>5. \A j \in Key : Found(j)' = Found(j) /\ table'[j] = table[j]
  BY <1>1 DEF Found
<1>6. KeysTypeOK'
  BY <1>1, <1>3, <1>4 DEF KeysInv, KeysTypeOK, Stepped
<1>7. RunsAreOwn'
  BY <1>2, <1>3, <1>4 DEF Stepped, KeysInv, RunsAreOwn
<1>8. ResultsAreOwn'
  <2> SUFFICES ASSUME NEW b \in Attempt, attempt'[b].at \in {"ran", "answered"}
               PROVE  attempt'[b].answer = b /\ b \in runs'[attempt'[b].key]
    BY DEF ResultsAreOwn
  <2>1. CASE b = a
    BY <1>3, <1>4, <2>1 DEF Stepped
  <2>2. CASE b # a
    <3>1. attempt[b].answer = b /\ b \in runs[attempt[b].key] /\ attempt'[b] = attempt[b] /\ attempt[b].key \in Key
      BY <1>3, <2>2 DEF Stepped, KeysInv, ResultsAreOwn, KeysTypeOK, AttemptState
    <3> QED BY <1>4, <3>1
  <2> QED BY <2>1, <2>2
<1>9. TogetherIsCrowded'
  BY <1>1, <1>3 DEF Stepped, KeysInv, TogetherIsCrowded, InFlight
<1>10. AloneFindsNothing'
  BY <1>1, <1>3, <1>5 DEF Stepped, KeysInv, AloneFindsNothing
<1>11. StoredIsRun' /\ ExpiredCounts'
  <2>1. \A j \in Key : Found(j) => table[j].answer # a /\ table[j].answer \in Attempt
    BY <1>1 DEF KeysInv, StoredIsRun, KeysTypeOK
  <2>2. \A j \in Key : Found(j) => attempt'[table[j].answer].at = "answered"
    BY <1>3, <2>1 DEF Stepped, KeysInv, StoredIsRun
  <2> QED BY <1>1, <1>4, <1>5, <2>2 DEF KeysInv, StoredIsRun, ExpiredCounts
<1>12. ReplayedIsStored'
  BY <1>1, <1>3, <1>4, <1>5 DEF Stepped, KeysInv, ReplayedIsStored
<1>13. RunsCounted'
  <2> SUFFICES ASSUME NEW j \in Key, expiries[j] = 0
               PROVE  Cardinality(runs'[j]) + Cardinality(Running'[j])
                        <= overlaps[j] + failures[j] + (IF Found(j) \/ Serving'[j] # {} THEN 1 ELSE 0)
    BY <1>1, <1>5 DEF RunsCounted
  <2>1. Cardinality(runs[j]) + Cardinality(Running[j])
          <= overlaps[j] + failures[j] + (IF Found(j) \/ Serving[j] # {} THEN 1 ELSE 0)
    BY DEF KeysInv, RunsCounted
  <2>2. /\ IsFiniteSet(Running[j]) /\ Cardinality(Running[j]) \in Nat
        /\ IsFiniteSet(runs[j]) /\ Cardinality(runs[j]) \in Nat
        /\ overlaps[j] \in Nat /\ failures[j] \in Nat
    BY KeysCount DEF KeysInv
  <2>3. CASE j # k
    <3>1. Running'[j] = Running[j] /\ Serving'[j] = Serving[j] /\ runs'[j] = runs[j]
      BY <1>3, <1>4, <2>3 DEF Stepped
    <3> QED BY <2>1, <3>1
  <2>4. CASE j = k
    <3>1. a \in Running[k] /\ a \notin runs[k]
      BY <1>1, <1>2 DEF Running, KeysInv, RunsAreOwn
    <3>2. Running'[k] = Running[k] \ {a} /\ a \in Serving'[k] /\ a \in Serving[k]
      BY <1>1, <1>2, <1>3 DEF Stepped, InFlight, Serving
    <3> DEFINE open == Running[k]
               ended == runs[k]
    <3>3. Cardinality(Running'[k]) = Cardinality(Running[k]) - 1
      <4>1. IsFiniteSet(open) /\ a \in open
        BY <2>2, <2>4, <3>1
      <4>2. Cardinality(open \ {a}) = Cardinality(open) - 1
        BY <4>1, FS_RemoveElement
      <4> QED BY <3>2, <4>2
    <3>4. Cardinality(runs'[k]) = Cardinality(runs[k]) + 1
      <4>1. IsFiniteSet(ended) /\ a \notin ended
        BY <2>2, <2>4, <3>1
      <4>2. Cardinality(ended \cup {a}) = Cardinality(ended) + 1
        BY <4>1, FS_AddElement
      <4> QED BY <1>4, <4>2
    <3>5. Cardinality(runs[k]) + Cardinality(Running[k]) <= overlaps[k] + failures[k] + 1
      BY <2>1, <2>4, <3>2
    <3> QED BY <2>2, <2>4, <3>2, <3>3, <3>4, <3>5
  <2> QED BY <2>3, <2>4
<1> QED BY <1>6, <1>7, <1>8, <1>9, <1>10, <1>11, <1>12, <1>13 DEF KeysInv

\* An attempt ends without storing anything: a failure, unless nothing ran.
LEMMA EndKeeps ==
  ASSUME KeysInv, NEW a \in Attempt, NEW at \in {"answered", "lost"}, InFlight(a),
         attempt' = [attempt EXCEPT ![a].at = at], UNCHANGED <<table, runs, expiries, overlaps, crowded>>,
         at = "answered" => attempt[a].at = "ran",
         \/ failures' = failures /\ attempt[a].at = "running"
         \/ failures' = [failures EXCEPT ![attempt[a].key] = @ + 1]
  PROVE  KeysInv'
<1> DEFINE k == attempt[a].key
<1>1. k \in Key /\ attempt[a] \in AttemptState /\ a \in Of(k)
  BY DEF KeysInv, KeysTypeOK, AttemptState, Answers, Of
<1>2. Stepped(a) /\ attempt'[a].at = at /\ attempt'[a].answer = attempt[a].answer
  BY AtDoes DEF KeysInv
<1>3. /\ failures' \in [Key -> Nat] /\ \A j \in Key \ {k} : failures'[j] = failures[j]
      /\ \/ failures' = failures /\ attempt[a].at = "running"
         \/ failures'[k] = failures[k] + 1
  BY <1>1 DEF KeysInv, KeysTypeOK
<1>4. \A j \in Key : Found(j)' = Found(j) /\ table'[j] = table[j]
  BY DEF Found
<1>5. KeysTypeOK'
  BY <1>2, <1>3 DEF KeysInv, KeysTypeOK, Stepped
<1>6. RunsAreOwn' /\ ResultsAreOwn'
  BY <1>2 DEF Stepped, KeysInv, RunsAreOwn, ResultsAreOwn
<1>7. TogetherIsCrowded'
  BY <1>2 DEF Stepped, KeysInv, TogetherIsCrowded, InFlight
<1>8. AloneFindsNothing'
  BY <1>2, <1>4 DEF Stepped, KeysInv, AloneFindsNothing
<1>9. StoredIsRun' /\ ExpiredCounts'
  <2>1. \A j \in Key : Found(j) => table[j].answer # a /\ table[j].answer \in Attempt
    BY DEF KeysInv, StoredIsRun, KeysTypeOK, InFlight
  <2>2. \A j \in Key : Found(j) => attempt'[table[j].answer].at = "answered"
    BY <1>2, <2>1 DEF Stepped, KeysInv, StoredIsRun
  <2> QED BY <1>4, <2>2 DEF KeysInv, StoredIsRun, ExpiredCounts
<1>10. ReplayedIsStored'
  BY <1>2, <1>4 DEF Stepped, KeysInv, ReplayedIsStored
<1>11. RunsCounted'
  <2> SUFFICES ASSUME NEW j \in Key, expiries[j] = 0
               PROVE  Cardinality(runs[j]) + Cardinality(Running'[j])
                        <= overlaps[j] + failures'[j] + (IF Found(j) \/ Serving'[j] # {} THEN 1 ELSE 0)
    BY <1>4 DEF RunsCounted
  <2>1. Cardinality(runs[j]) + Cardinality(Running[j])
          <= overlaps[j] + failures[j] + (IF Found(j) \/ Serving[j] # {} THEN 1 ELSE 0)
    BY DEF KeysInv, RunsCounted
  <2>2. /\ IsFiniteSet(Running[j]) /\ Cardinality(Running[j]) \in Nat
        /\ Cardinality(runs[j]) \in Nat
        /\ overlaps[j] \in Nat /\ failures[j] \in Nat
    BY KeysCount DEF KeysInv
  <2>3. CASE j # k
    <3>1. Running'[j] = Running[j] /\ Serving'[j] = Serving[j] /\ failures'[j] = failures[j]
      BY <1>2, <1>3, <2>3 DEF Stepped
    <3> QED BY <2>1, <3>1
  <2>4. CASE j = k
    <3>1. Running'[k] = Running[k] \ {a}
      BY <1>2 DEF Stepped
    <3>2. Cardinality(runs[k]) + Cardinality(Running[k]) <= overlaps[k] + failures[k] + 1
      BY <2>1, <2>2, <2>4
    <3>3. CASE failures'[k] = failures[k] + 1
      <4>1. Cardinality(Running'[k]) <= Cardinality(Running[k]) /\ Cardinality(Running'[k]) \in Nat
        BY <2>2, <2>4, <3>1, FS_Subset, FS_CardinalityType
      <4> QED BY <2>2, <2>4, <3>2, <3>3, <4>1
    <3>4. CASE failures' = failures /\ attempt[a].at = "running"
      <4>1. a \in Running[k]
        BY <1>1, <3>4 DEF Running
      <4>2. Cardinality(Running'[k]) = Cardinality(Running[k]) - 1
        <5> DEFINE open == Running[k]
        <5>1. IsFiniteSet(open) /\ a \in open
          BY <2>2, <2>4, <4>1
        <5>2. Cardinality(open \ {a}) = Cardinality(open) - 1
          BY <5>1, FS_RemoveElement
        <5> QED BY <3>1, <5>2
      <4> QED BY <2>2, <2>4, <3>2, <3>4, <4>2
    <3> QED BY <1>3, <3>3, <3>4
  <2> QED BY <2>3, <2>4
<1> QED BY <1>5, <1>6, <1>7, <1>8, <1>9, <1>10, <1>11 DEF KeysInv

LEMMA StoreKeeps == ASSUME KeysInv, NEW a \in Attempt, Store(a) PROVE KeysInv'
<1> DEFINE k == attempt[a].key
<1>1. attempt[a].at = "ran" /\ UNCHANGED <<runs, failures, expiries, overlaps, crowded>>
  BY DEF Store, outside
<1>2. k \in Key /\ attempt[a] \in AttemptState /\ a \in Of(k) /\ a \in runs[k] /\ attempt[a].answer = a
  BY <1>1 DEF KeysInv, KeysTypeOK, AttemptState, Answers, Of, ResultsAreOwn
<1>3. Stepped(a) /\ attempt'[a].at = "answered" /\ attempt'[a].answer = a
  BY <1>1, <1>2, AtDoes DEF KeysInv, Store
<1>4. /\ \A j \in Key \ {k} : table'[j] = table[j] /\ Found(j)' = Found(j)
      /\ table[k].state = "absent" => table'[k] = [state |-> "fresh", answer |-> a]
      /\ table[k].state # "absent" => table'[k] = table[k]
  BY <1>2 DEF KeysInv, KeysTypeOK, Store, Stored, Found
<1>5. /\ table' \in [Key -> [state : {"absent", "fresh", "expired"}, answer : Answers]]
      /\ Found(k) => table'[k] = table[k]
  <2>1. [state |-> "fresh", answer |-> a] \in [state : {"absent", "fresh", "expired"}, answer : Answers]
    BY DEF Answers
  <2>2. table' = [table EXCEPT ![k] = table'[k]]
    BY <1>2 DEF Store, KeysInv, KeysTypeOK
  <2>3. table \in [Key -> [state : {"absent", "fresh", "expired"}, answer : Answers]]
    BY DEF KeysInv, KeysTypeOK
  <2>4. table'[k] \in [state : {"absent", "fresh", "expired"}, answer : Answers]
    BY <1>2, <1>4, <2>1, <2>3
  <2>5. table' \in [Key -> [state : {"absent", "fresh", "expired"}, answer : Answers]]
    BY <1>2, <2>2, <2>3, <2>4
  <2> QED BY <1>4, <2>5 DEF Found
<1>6. KeysTypeOK'
  BY <1>1, <1>3, <1>5 DEF KeysInv, KeysTypeOK, Stepped
<1>7. RunsAreOwn' /\ ResultsAreOwn'
  BY <1>1, <1>2, <1>3 DEF Stepped, KeysInv, RunsAreOwn, ResultsAreOwn
<1>8. TogetherIsCrowded'
  BY <1>1, <1>3 DEF Stepped, KeysInv, TogetherIsCrowded, InFlight
<1>9. AloneFindsNothing'
  <2> SUFFICES ASSUME NEW j \in Key, NEW b \in Of(j), attempt'[b].at = "running", b \notin crowded
               PROVE  ~Found(j)'
    BY <1>1, <1>3 DEF AloneFindsNothing, Stepped
  <2>1. b # a /\ b \in Attempt /\ attempt'[b] = attempt[b]
    BY <1>3 DEF Stepped
  <2>2. ~Found(j)
    BY <2>1 DEF KeysInv, AloneFindsNothing
  <2>3. j # k
    BY <1>1, <1>2, <2>1 DEF KeysInv, TogetherIsCrowded, InFlight
  <2> QED BY <1>4, <2>2, <2>3
<1>10. StoredIsRun'
  <2>1. ASSUME NEW j \in Key, Found(j)', table'[j] = table[j]
        PROVE  table'[j].answer \in runs[j] /\ attempt'[table'[j].answer].at = "answered"
    <3>1. table[j].answer \in runs[j] /\ attempt[table[j].answer].at = "answered" /\ table[j].answer \in Attempt
      BY <2>1 DEF KeysInv, StoredIsRun, KeysTypeOK, Found
    <3> QED BY <1>1, <2>1, <1>3, <3>1 DEF Stepped
  <2>2. ASSUME NEW j \in Key, table'[j] # table[j]
        PROVE  table'[j].answer \in runs[j] /\ attempt'[table'[j].answer].at = "answered"
    BY <1>2, <1>3, <1>4, <2>2
  <2> QED BY <1>1, <2>1, <2>2 DEF StoredIsRun
<1>11. ExpiredCounts'
  BY <1>1, <1>4 DEF KeysInv, ExpiredCounts
<1>12. ReplayedIsStored'
  BY <1>1, <1>3, <1>4 DEF Stepped, KeysInv, ReplayedIsStored, Found
<1>13. RunsCounted'
  <2> SUFFICES ASSUME NEW j \in Key, expiries[j] = 0
               PROVE  Cardinality(runs[j]) + Cardinality(Running'[j])
                        <= overlaps[j] + failures[j] + (IF Found(j)' \/ Serving'[j] # {} THEN 1 ELSE 0)
    BY <1>1 DEF RunsCounted
  <2>1. Cardinality(runs[j]) + Cardinality(Running[j])
          <= overlaps[j] + failures[j] + (IF Found(j) \/ Serving[j] # {} THEN 1 ELSE 0)
    BY DEF KeysInv, RunsCounted
  <2>2. CASE j # k
    <3>1. Running'[j] = Running[j] /\ Serving'[j] = Serving[j] /\ Found(j)' = Found(j)
      BY <1>3, <1>4, <2>2 DEF Stepped
    <3> QED BY <2>1, <3>1
  <2>3. CASE j = k
    <3>1. Running'[k] = Running[k]
      <4>1. a \notin Running[k]
        BY <1>1, <1>2 DEF Running
      <4>2. Running'[k] = Running[k] \ {a}
        BY <1>3 DEF Stepped
      <4> QED BY <4>1, <4>2
    <3>2. a \in Serving[k]
      BY <1>1, <1>2 DEF Serving, InFlight
    <3>3. table[k].state # "expired"
      BY <1>2, <2>3 DEF KeysInv, ExpiredCounts
    <3>4. table'[k].state = "fresh"
      <4>1. table[k].state \in {"absent", "fresh", "expired"}
        BY <1>2 DEF KeysInv, KeysTypeOK
      <4> QED BY <1>4, <3>3, <4>1
    <3>5. Cardinality(runs[k]) + Cardinality(Running[k]) <= overlaps[k] + failures[k] + 1
      BY <2>1, <2>3, <3>2
    <3> QED BY <2>3, <3>1, <3>4, <3>5 DEF Found
  <2> QED BY <2>2, <2>3
<1> QED BY <1>6, <1>7, <1>8, <1>9, <1>10, <1>11, <1>12, <1>13 DEF KeysInv

\* A row expires, or expired rows are deleted: nobody is under way because of it.
LEMMA ForgettingKeeps ==
  ASSUME KeysInv, UNCHANGED <<runs, attempt, failures, overlaps, crowded>>,
         table' \in [Key -> [state : {"absent", "fresh", "expired"}, answer : Answers]],
         expiries' \in [Key -> Nat],
         \A k \in Key : /\ expiries[k] <= expiries'[k]
                        /\ table'[k].state = "expired" => expiries'[k] > 0
                        /\ table'[k] = table[k] \/ (table'[k].state # "fresh" /\ expiries'[k] > 0)
  PROVE  KeysInv'
<1>1. \A k \in Key : Of(k)' = Of(k) /\ Running'[k] = Running[k] /\ Serving'[k] = Serving[k]
  BY DEF Of, Running, Serving, InFlight
<1>2. \A k \in Key : expiries[k] \in Nat /\ expiries'[k] \in Nat
  BY DEF KeysInv, KeysTypeOK
<1>3. \A k \in Key : /\ Found(k)' => Found(k) /\ table'[k] = table[k]
                     /\ expiries'[k] = 0 => expiries[k] = 0 /\ table'[k] = table[k] /\ Found(k)' = Found(k)
  BY <1>2 DEF Found
<1>4. KeysTypeOK'
  BY DEF KeysInv, KeysTypeOK
<1>5. RunsAreOwn' /\ ResultsAreOwn'
  BY <1>1 DEF KeysInv, RunsAreOwn, ResultsAreOwn
<1>6. TogetherIsCrowded'
  BY <1>1 DEF KeysInv, TogetherIsCrowded, InFlight
<1>7. AloneFindsNothing' /\ StoredIsRun'
  BY <1>1, <1>3 DEF KeysInv, AloneFindsNothing, StoredIsRun
<1>8. ExpiredCounts'
  BY DEF ExpiredCounts
<1>9. ReplayedIsStored'
  BY <1>1, <1>3 DEF KeysInv, ReplayedIsStored
<1>10. RunsCounted'
  <2> SUFFICES ASSUME NEW j \in Key, expiries'[j] = 0
               PROVE  Cardinality(runs[j]) + Cardinality(Running'[j])
                        <= overlaps[j] + failures[j] + (IF Found(j)' \/ Serving'[j] # {} THEN 1 ELSE 0)
    BY DEF RunsCounted
  <2>1. expiries[j] = 0 /\ Found(j)' = Found(j) /\ Running'[j] = Running[j] /\ Serving'[j] = Serving[j]
    BY <1>1, <1>3
  <2>2. Cardinality(runs[j]) + Cardinality(Running[j])
          <= overlaps[j] + failures[j] + (IF Found(j) \/ Serving[j] # {} THEN 1 ELSE 0)
    BY <2>1 DEF KeysInv, RunsCounted
  <2> QED BY <2>1, <2>2
<1> QED BY <1>4, <1>5, <1>6, <1>7, <1>8, <1>9, <1>10 DEF KeysInv

LEMMA ExpireKeeps == ASSUME KeysInv, NEW k \in Key, Expire(k) PROVE KeysInv'
<1>1. /\ table \in [Key -> [state : {"absent", "fresh", "expired"}, answer : Answers]]
      /\ expiries \in [Key -> Nat]
  BY DEF KeysInv, KeysTypeOK
<1>2. /\ table' \in [Key -> [state : {"absent", "fresh", "expired"}, answer : Answers]]
      /\ expiries' \in [Key -> Nat] /\ expiries'[k] = expiries[k] + 1 /\ table'[k].state = "expired"
      /\ \A j \in Key \ {k} : table'[j] = table[j] /\ expiries'[j] = expiries[j]
  BY <1>1 DEF Expire
<1>3. \A j \in Key : table[j].state = "expired" => expiries[j] > 0
  BY DEF KeysInv, ExpiredCounts
<1>4. UNCHANGED <<runs, attempt, failures, overlaps, crowded>>
  BY DEF Expire
<1>5. \A j \in Key : /\ expiries[j] <= expiries'[j]
                     /\ table'[j].state = "expired" => expiries'[j] > 0
                     /\ table'[j] = table[j] \/ (table'[j].state # "fresh" /\ expiries'[j] > 0)
  BY <1>1, <1>2, <1>3
<1> QED BY <1>2, <1>4, <1>5, ForgettingKeeps

LEMMA CleanUpKeeps == ASSUME KeysInv, CleanUp PROVE KeysInv'
<1>1. /\ table \in [Key -> [state : {"absent", "fresh", "expired"}, answer : Answers]]
      /\ expiries \in [Key -> Nat]
  BY DEF KeysInv, KeysTypeOK
<1>2. [state |-> "absent", answer |-> NoAnswer] \in [state : {"absent", "fresh", "expired"}, answer : Answers]
  BY DEF Answers
<1>3. /\ table' \in [Key -> [state : {"absent", "fresh", "expired"}, answer : Answers]]
      /\ \A j \in Key : \/ table'[j] = table[j] /\ table[j].state # "expired"
                        \/ table'[j].state = "absent" /\ table[j].state = "expired"
  <2> DEFINE absent == [state |-> "absent", answer |-> NoAnswer]
  <2>1. \A j \in Key : table'[j] = IF table[j].state = "expired" THEN absent ELSE table[j]
    BY DEF CleanUp
  <2>2. table' = [j \in Key |-> table'[j]]
    BY DEF CleanUp
  <2>3. absent.state = "absent"
    OBVIOUS
  <2> HIDE DEF absent
  <2>4. \A j \in Key : table'[j] \in [state : {"absent", "fresh", "expired"}, answer : Answers]
    BY <1>1, <1>2, <2>1 DEF absent
  <2>5. table' \in [Key -> [state : {"absent", "fresh", "expired"}, answer : Answers]]
    BY <2>2, <2>4
  <2>6. \A j \in Key : \/ table'[j] = table[j] /\ table[j].state # "expired"
                       \/ table'[j].state = "absent" /\ table[j].state = "expired"
    <3> TAKE j \in Key
    <3>1. CASE table[j].state = "expired"
      BY <2>1, <2>3, <3>1
    <3>2. CASE table[j].state # "expired"
      BY <2>1, <3>2
    <3> QED BY <3>1, <3>2
  <2> QED BY <2>5, <2>6
<1>4. \A j \in Key : table[j].state = "expired" => expiries[j] > 0
  BY DEF KeysInv, ExpiredCounts
<1>5. UNCHANGED <<runs, attempt, failures, expiries, overlaps, crowded>>
  BY DEF CleanUp, outside
<1> QED BY <1>1, <1>3, <1>4, <1>5, ForgettingKeeps

LEMMA KeysNextKeeps == ASSUME KeysInv, [KeysNext]_keyVars PROVE KeysInv'
<1>1. ASSUME NEW a \in Attempt, RefuseRun(a) PROVE KeysInv'
  BY <1>1, EndKeeps DEF RefuseRun, outside, InFlight
<1>2. ASSUME NEW a \in Attempt, StoreFails(a) PROVE KeysInv'
  BY <1>2, EndKeeps DEF StoreFails, InFlight
<1>3. ASSUME NEW a \in Attempt, Die(a) PROVE KeysInv'
  BY <1>3, EndKeeps DEF Die
<1>4. CASE UNCHANGED keyVars
  <2>1. /\ \A k \in Key : expiries[k] <= expiries'[k] /\ table'[k] = table[k]
        /\ table' \in [Key -> [state : {"absent", "fresh", "expired"}, answer : Answers]]
        /\ expiries' \in [Key -> Nat]
    BY <1>4 DEF keyVars, KeysInv, KeysTypeOK
  <2>2. \A k \in Key : table'[k].state = "expired" => expiries'[k] > 0
    BY <1>4 DEF keyVars, KeysInv, ExpiredCounts
  <2> QED BY <1>4, <2>1, <2>2, ForgettingKeeps DEF keyVars
<1> QED BY <1>1, <1>2, <1>3, <1>4, LookupKeeps, RunKeeps, StoreKeeps, ExpireKeeps, CleanUpKeeps DEF KeysNext

LEMMA KeysInductive == KeysSpec => []KeysInv
<1>1. KeysInv /\ [KeysNext]_keyVars => KeysInv'
  BY KeysNextKeeps
<1> QED BY <1>1, InitKeysInv, PTL DEF KeysSpec

-----------------------------------------------------------------------------
(* The theorems.                                                           *)

\* Rows, runs and attempts keep their shape (withIdempotency, table idempotency_keys).
THEOREM KeysTypeCorrect == KeysSpec => []KeysTypeOK
<1>1. KeysInv => KeysTypeOK
  BY DEF KeysInv
<1> QED BY <1>1, KeysInductive, PTL

\* A key runs its operation again only after an attempt that died or could not store, for an
\* attempt sent while another one was under way, or after its 24 hours (withIdempotency).
THEOREM RunsAgainOnlyIfForgotten == KeysSpec => []RunAgainOnlyIfForgotten
<1>1. KeysInv => RunAgainOnlyIfForgotten
  <2> SUFFICES ASSUME KeysInv, NEW k \in Key, expiries[k] = 0
               PROVE  Cardinality(runs[k]) <= 1 + failures[k] + overlaps[k]
    BY DEF RunAgainOnlyIfForgotten
  <2>1. Cardinality(runs[k]) + Cardinality(Running[k])
          <= overlaps[k] + failures[k] + (IF Found(k) \/ Serving[k] # {} THEN 1 ELSE 0)
    BY DEF KeysInv, RunsCounted
  <2>2. /\ Cardinality(runs[k]) \in Nat /\ Cardinality(Running[k]) \in Nat
        /\ failures[k] \in Nat /\ overlaps[k] \in Nat
    BY KeysCount DEF KeysInv
  <2> QED BY <2>1, <2>2
<1> QED BY <1>1, KeysInductive, PTL

\* All replays of a key tell of one run, the one whose answer is stored, also when attempts
\* overlapped: the row is never overwritten (ON CONFLICT DO NOTHING in withIdempotency).
THEOREM ReplaysAlwaysAgree == KeysSpec => []ReplaysAgree
<1>1. KeysInv => ReplaysAgree
  BY DEF KeysInv, ReplayedIsStored, ReplaysAgree
<1> QED BY <1>1, KeysInductive, PTL

-----------------------------------------------------------------------------
(* The refinement: every step is one of AnswerOnce's, or none.             *)

\* What is kept and what was told, as functions
LEMMA KeptIs ==
  /\ \A k \in Key : Kept[k] = {a \in Of(k) : attempt[a].at = "ran"}
                             \cup (IF Found(k) THEN {table[k].answer} ELSE {})
  /\ Kept = [k \in Key |-> Kept[k]] /\ Serving = [k \in Key |-> Serving[k]] /\ Given = [a \in Attempt |-> Given[a]]
  /\ \A k \in Key : Serving[k] = {a \in Of(k) : InFlight(a)}
  /\ \A a \in Attempt : Given[a] = IF attempt[a].at \in {"answered", "replayed"} THEN attempt[a].answer ELSE NoAnswer
  BY DEF Kept, Serving, Given, Found

\* How a step of one attempt shows: only its key is served and keeps anything else.
LEMMA SteppedShows ==
  ASSUME KeysInv, NEW a \in Attempt, Stepped(a), NEW k, k = attempt[a].key,
         \A j \in Key \ {k} : table'[j] = table[j]
  PROVE  /\ Serving' = [Serving EXCEPT ![k] = Serving'[k]] /\ Kept' = [Kept EXCEPT ![k] = Kept'[k]]
         /\ Given' = [Given EXCEPT ![a] = Given'[a]]
         /\ Kept'[k] = (IF attempt'[a].at = "ran" THEN {a} ELSE {})
                         \cup {b \in Of(k) \ {a} : attempt[b].at = "ran"}
                         \cup (IF table'[k].state = "fresh" THEN {table'[k].answer} ELSE {})
<1>1. /\ k \in Key /\ \A j \in Key : Of(j)' = Of(j) /\ Of(j) \subseteq Attempt
      /\ \A b \in Attempt \ {a} : attempt'[b] = attempt[b]
      /\ \A j \in Key \ {k} : a \notin Of(j) /\ Serving'[j] = Serving[j]
      /\ a \in Of(k)
  BY DEF Stepped
<1>2. \A j \in Key : Kept'[j] = {b \in Of(j) : attempt'[b].at = "ran"}
                               \cup (IF table'[j].state = "fresh" THEN {table'[j].answer} ELSE {})
  BY <1>1 DEF Kept
<1>3. \A j \in Key \ {k} : Kept'[j] = Kept[j]
  <2> SUFFICES ASSUME NEW j \in Key \ {k} PROVE Kept'[j] = Kept[j]
    OBVIOUS
  <2>1. {b \in Of(j) : attempt'[b].at = "ran"} = {b \in Of(j) : attempt[b].at = "ran"}
    BY <1>1
  <2> QED BY <1>2, <2>1 DEF Kept
<1>4. \A b \in Attempt \ {a} : Given'[b] = Given[b]
  BY <1>1 DEF Given
<1>5. {b \in Of(k) : attempt'[b].at = "ran"} = (IF attempt'[a].at = "ran" THEN {a} ELSE {})
                                              \cup {b \in Of(k) \ {a} : attempt[b].at = "ran"}
  BY <1>1
<1>6. Serving' = [Serving EXCEPT ![k] = Serving'[k]]
  BY <1>1 DEF Serving
<1>7. Kept' = [Kept EXCEPT ![k] = Kept'[k]]
  <2>1. Kept' = [j \in Key |-> Kept'[j]] /\ Kept = [j \in Key |-> Kept[j]]
    BY DEF Kept
  <2> QED BY <1>1, <1>3, <2>1
<1>8. Given' = [Given EXCEPT ![a] = Given'[a]]
  BY <1>4 DEF Given
<1> QED BY <1>1, <1>2, <1>5, <1>6, <1>7, <1>8

LEMMA InitRefines == KeysInit => Once!Init
<1> SUFFICES ASSUME KeysInit PROVE Once!Init
  OBVIOUS
<1>1. \A a \in Attempt : attempt[a].at = "new"
  BY DEF KeysInit
<1>2. \A k \in Key : Kept[k] = {} /\ Serving[k] = {}
  BY <1>1 DEF KeysInit, Kept, Serving, InFlight, Of
<1>3. Kept = [k \in Key |-> {}] /\ Serving = [k \in Key |-> {}]
  <2>1. Kept = [k \in Key |-> Kept[k]] /\ Serving = [k \in Key |-> Serving[k]]
    BY KeptIs
  <2> QED BY <1>2, <2>1
<1>4. Given = [a \in Attempt |-> NoAnswer]
  BY <1>1 DEF Given
<1> QED BY <1>3, <1>4 DEF Once!Init, KeysInit

\* A key is looked up: its answer is told, or the attempt is let in.
LEMMA LookupRefines == ASSUME KeysInv, NEW a \in Attempt, Lookup(a) PROVE Once!Next
<1> DEFINE k == attempt[a].key
<1>1. /\ Stepped(a) /\ attempt[a].at = "new" /\ UNCHANGED <<table, runs>> /\ k \in Key
      /\ Found(k) => attempt'[a].at = "replayed" /\ attempt'[a].answer = table[k].answer
      /\ ~Found(k) => attempt'[a].at = "running"
  BY LookupDoes DEF KeysInv, Lookup, Stepped
<1>2. /\ Serving' = [Serving EXCEPT ![k] = Serving'[k]] /\ Kept' = [Kept EXCEPT ![k] = Kept'[k]]
      /\ Given' = [Given EXCEPT ![a] = Given'[a]]
      /\ Kept'[k] = (IF attempt'[a].at = "ran" THEN {a} ELSE {})
                      \cup {b \in Of(k) \ {a} : attempt[b].at = "ran"}
                      \cup (IF table'[k].state = "fresh" THEN {table'[k].answer} ELSE {})
  BY <1>1, SteppedShows
<1>3. Kept'[k] = Kept[k]
  <2>1. {b \in Of(k) : attempt[b].at = "ran"} = {b \in Of(k) \ {a} : attempt[b].at = "ran"}
    BY <1>1
  <2>2. attempt'[a].at # "ran"
    BY <1>1
  <2> QED BY <1>1, <1>2, <2>1, <2>2 DEF Kept
<1>4. Kept' = Kept
  <2>1. Kept = [j \in Key |-> Kept[j]]
    BY DEF Kept
  <2> QED BY <1>2, <1>3, <2>1
<1>5. a \notin Serving[k] /\ Given[a] = NoAnswer
  BY <1>1 DEF Serving, InFlight, Given
<1>6. CASE Found(k)
  <2>1. Serving' = Serving
    <3>1. Serving'[k] = Serving[k]
      BY <1>1, <1>5, <1>6 DEF Stepped, InFlight
    <3>2. Serving = [j \in Key |-> Serving[j]]
      BY DEF Serving
    <3> QED BY <1>2, <3>1, <3>2
  <2>2. table[k].answer \in Kept[k] /\ Given'[a] = table[k].answer
    BY <1>1, <1>6 DEF Kept, Given, Found
  <2>3. UNCHANGED <<crowded, runs>>
    BY <1>6 DEF Lookup
  <2>4. Once!Replay(k, a)
    BY <1>2, <1>4, <1>5, <2>1, <2>2, <2>3 DEF Once!Replay
  <2> QED BY <1>1, <2>4 DEF Once!Next
<1>7. CASE ~Found(k)
  <2>1. Serving' = [Serving EXCEPT ![k] = @ \cup {a}]
    <3>1. Serving'[k] = Serving[k] \cup {a}
      BY <1>1, <1>7 DEF Stepped, InFlight
    <3> QED BY <1>2, <3>1
  <2>2. Given' = Given
    <3>1. Given'[a] = NoAnswer
      BY <1>1, <1>7 DEF Given
    <3>2. Given = [b \in Attempt |-> Given[b]]
      BY DEF Given
    <3> QED BY <1>2, <1>5, <3>1, <3>2
  <2>3. Kept[k] = {} \/ Serving[k] # {}
    BY <1>1, <1>7 DEF Kept, Serving, InFlight, Found
  <2>4. UNCHANGED runs /\ crowded' = IF Serving[k] = {} THEN crowded ELSE crowded \cup Serving[k] \cup {a}
    BY <1>1, <1>7, KeptIs DEF Lookup
  <2>5. Once!Enter(k, a)
    BY <1>4, <1>5, <2>1, <2>2, <2>3, <2>4 DEF Once!Enter
  <2> QED BY <1>1, <2>5 DEF Once!Next
<1> QED BY <1>6, <1>7

\* The operation runs: nothing was kept for its key, or the attempt was not alone.
LEMMA RunRefines == ASSUME KeysInv, NEW a \in Attempt, Run(a) PROVE Once!Next
<1> DEFINE k == attempt[a].key
<1>1. /\ Stepped(a) /\ attempt[a].at = "running" /\ UNCHANGED <<table, crowded>> /\ k \in Key /\ a \in Of(k)
      /\ attempt'[a].at = "ran" /\ attempt'[a].answer = a
      /\ runs' = [runs EXCEPT ![k] = @ \cup {a}]
  BY RunDoes DEF KeysInv, Run, Stepped, outside
<1>2. /\ Serving' = [Serving EXCEPT ![k] = Serving'[k]] /\ Kept' = [Kept EXCEPT ![k] = Kept'[k]]
      /\ Given' = [Given EXCEPT ![a] = Given'[a]]
      /\ Kept'[k] = (IF attempt'[a].at = "ran" THEN {a} ELSE {})
                      \cup {b \in Of(k) \ {a} : attempt[b].at = "ran"}
                      \cup (IF table'[k].state = "fresh" THEN {table'[k].answer} ELSE {})
  BY <1>1, SteppedShows
<1>3. Kept' = [Kept EXCEPT ![k] = @ \cup {a}]
  <2>1. {b \in Of(k) : attempt[b].at = "ran"} = {b \in Of(k) \ {a} : attempt[b].at = "ran"}
    BY <1>1
  <2>2. Kept'[k] = Kept[k] \cup {a}
    BY <1>1, <1>2, <2>1 DEF Kept
  <2> QED BY <1>2, <2>2
<1>4. a \in Serving[k] \ runs[k]
  BY <1>1 DEF Serving, InFlight, KeysInv, RunsAreOwn
<1>5. Serving' = Serving
  <2>1. Serving'[k] = Serving[k]
    <3>1. Serving'[k] = Serving[k] \cup {a}
      BY <1>1 DEF Stepped, InFlight
    <3> QED BY <1>4, <3>1
  <2>2. Serving = [j \in Key |-> Serving[j]]
    BY DEF Serving
  <2> QED BY <1>2, <2>1, <2>2
<1>6. Given' = Given
  <2>1. Given'[a] = NoAnswer /\ Given[a] = NoAnswer
    BY <1>1 DEF Given
  <2>2. Given = [b \in Attempt |-> Given[b]]
    BY DEF Given
  <2>3. [Given EXCEPT ![a] = NoAnswer] = Given
    BY <2>1, <2>2
  <2> QED BY <1>2, <2>1, <2>3
<1>7. Kept[k] = {} \/ a \in crowded
  <2> SUFFICES ASSUME a \notin crowded PROVE Kept[k] = {}
    OBVIOUS
  <2>1. ~Found(k)
    BY <1>1 DEF KeysInv, AloneFindsNothing
  <2>2. \A b \in Of(k) : attempt[b].at # "ran"
    BY <1>1 DEF KeysInv, TogetherIsCrowded, InFlight
  <2> QED BY <1>1, <2>1, <2>2 DEF Kept, Found
<1>8. Once!Run(k, a)
  BY <1>1, <1>3, <1>4, <1>5, <1>6, <1>7 DEF Once!Run
<1> QED BY <1>1, <1>8 DEF Once!Next

\* An attempt leaves: its result is stored, or kept no more.
Leaves(a, k, at) ==
  /\ k = attempt[a].key /\ at \in {"answered", "lost"}
  /\ InFlight(a) /\ (at = "answered" => attempt[a].at = "ran")
  /\ attempt' = [attempt EXCEPT ![a].at = at]
  /\ UNCHANGED <<runs, crowded>>
  /\ \A j \in Key \ {k} : table'[j] = table[j]
  /\ \/ table'[k] = table[k]
     \/ attempt[a].at = "ran" /\ ~Found(k) /\ table'[k] = [state |-> "fresh", answer |-> a]

LEMMA LeaveRefines ==
  ASSUME KeysInv, NEW a \in Attempt, NEW k, NEW at, Leaves(a, k, at) PROVE Once!Next
<1> USE DEF Leaves
<1>1. /\ Stepped(a) /\ attempt'[a].at = at /\ attempt'[a].answer = attempt[a].answer /\ k \in Key /\ a \in Of(k)
  BY AtDoes DEF KeysInv, Stepped
<1>2. /\ Serving' = [Serving EXCEPT ![k] = Serving'[k]] /\ Kept' = [Kept EXCEPT ![k] = Kept'[k]]
      /\ Given' = [Given EXCEPT ![a] = Given'[a]]
      /\ Kept'[k] = (IF attempt'[a].at = "ran" THEN {a} ELSE {})
                      \cup {b \in Of(k) \ {a} : attempt[b].at = "ran"}
                      \cup (IF table'[k].state = "fresh" THEN {table'[k].answer} ELSE {})
  BY <1>1, SteppedShows
<1>3. a \in Serving[k] /\ Serving' = [Serving EXCEPT ![k] = @ \ {a}]
  BY <1>1, <1>2 DEF Serving, Stepped, InFlight
<1>4. Kept'[k] \in {Kept[k], Kept[k] \ {a}}
  <2>1. Found(k) => table[k].answer # a
    BY <1>1 DEF KeysInv, StoredIsRun, InFlight
  <2> DEFINE hands == {b \in Of(k) : attempt[b].at = "ran"}
             others == {b \in Of(k) \ {a} : attempt[b].at = "ran"}
  <2>2. others = hands \ {a} /\ (attempt[a].at = "ran" => a \in hands) /\ (attempt[a].at # "ran" => a \notin hands)
    BY <1>1
  <2>3. /\ Kept[k] = hands \cup (IF Found(k) THEN {table[k].answer} ELSE {})
        /\ Kept'[k] = others \cup (IF table'[k].state = "fresh" THEN {table'[k].answer} ELSE {})
    BY <1>1, <1>2 DEF Kept, Found
  <2> HIDE DEF hands, others
  <2>4. CASE table'[k] = table[k]
    BY <2>1, <2>2, <2>3, <2>4 DEF Found
  <2>5. CASE attempt[a].at = "ran" /\ ~Found(k) /\ table'[k] = [state |-> "fresh", answer |-> a]
    BY <2>2, <2>3, <2>5
  <2> QED BY <2>4, <2>5
<1>5. Kept' \in {Kept, [Kept EXCEPT ![k] = @ \ {a}]}
  <2>1. Kept = [j \in Key |-> Kept[j]]
    BY DEF Kept
  <2>2. [Kept EXCEPT ![k] = Kept[k]] = Kept
    BY <2>1
  <2> QED BY <1>2, <1>4, <2>2
<1>6. Given' = Given \/ (a \in runs[k] /\ Given' = [Given EXCEPT ![a] = a])
  <2>1. CASE at = "answered"
    <3>1. a \in runs[k] /\ attempt'[a].answer = a
      BY <1>1, <2>1 DEF KeysInv, ResultsAreOwn
    <3>2. Given'[a] = a
      BY <1>1, <2>1, <3>1 DEF Given
    <3> QED BY <1>2, <3>1, <3>2
  <2>2. CASE at = "lost"
    <3>1. Given'[a] = NoAnswer /\ Given[a] = NoAnswer
      BY <1>1, <2>2 DEF Given, InFlight
    <3>2. Given = [b \in Attempt |-> Given[b]]
      BY DEF Given
    <3> QED BY <1>2, <3>1, <3>2
  <2> QED BY <2>1, <2>2
<1>7. Once!Leave(k, a)
  BY <1>3, <1>5, <1>6 DEF Once!Leave
<1> QED BY <1>1, <1>7 DEF Once!Next

LEMMA StoreRefines == ASSUME KeysInv, NEW a \in Attempt, Store(a) PROVE Once!Next
<1> DEFINE k == attempt[a].key
<1>1. /\ attempt[a].at = "ran" /\ InFlight(a) /\ k \in Key /\ UNCHANGED <<runs, crowded>>
      /\ attempt' = [attempt EXCEPT ![a].at = "answered"] /\ attempt[a].answer = a
  BY DEF Store, outside, InFlight, KeysInv, KeysTypeOK, AttemptState, ResultsAreOwn
<1>2. /\ \A j \in Key \ {k} : table'[j] = table[j]
      /\ \/ table'[k] = table[k]
         \/ ~Found(k) /\ table'[k] = [state |-> "fresh", answer |-> a]
  BY <1>1 DEF KeysInv, KeysTypeOK, Store, Stored, Found
<1>3. Leaves(a, k, "answered")
  BY <1>1, <1>2 DEF Leaves
<1> QED BY <1>3, LeaveRefines

\* A row expires: its answer is kept no more.
LEMMA ExpireRefines == ASSUME KeysInv, NEW k \in Key, Expire(k) PROVE Once!Next
<1>1. /\ Found(k) /\ table'[k].state = "expired" /\ UNCHANGED <<runs, attempt, crowded>>
      /\ \A j \in Key \ {k} : table'[j] = table[j]
  BY DEF Expire, KeysInv, KeysTypeOK, Found
<1>2. /\ Serving' = Serving /\ Given' = Given /\ \A j \in Key : Of(j)' = Of(j)
  BY <1>1 DEF Serving, Given, InFlight, Of
<1>3. Kept'[k] = Kept[k] \ {table[k].answer} /\ table[k].answer \in Kept[k]
  <2> DEFINE hands == {b \in Of(k) : attempt[b].at = "ran"}
  <2>1. table[k].answer \notin hands
    BY <1>1 DEF KeysInv, StoredIsRun
  <2>2. Kept[k] = hands \cup {table[k].answer} /\ Kept'[k] = hands
    BY <1>1, <1>2 DEF Kept, Found
  <2> QED BY <2>1, <2>2
<1>4. \A j \in Key \ {k} : Kept'[j] = Kept[j]
  BY <1>1, <1>2 DEF Kept
<1>5. Kept' = [Kept EXCEPT ![k] = @ \ {table[k].answer}]
  <2>1. Kept' = [j \in Key |-> Kept'[j]] /\ Kept = [j \in Key |-> Kept[j]]
    BY DEF Kept
  <2> QED BY <1>3, <1>4, <2>1
<1>6. Once!Forget(k)
  BY <1>1, <1>2, <1>3, <1>5 DEF Once!Forget
<1> QED BY <1>6 DEF Once!Next

\* Deleting expired rows shows nowhere.
LEMMA CleanUpRefines == ASSUME KeysInv, CleanUp PROVE UNCHANGED Once!vars
<1>1. /\ UNCHANGED <<runs, attempt, crowded>>
      /\ \A j \in Key : table'[j] = IF table[j].state = "expired" THEN [state |-> "absent", answer |-> NoAnswer] ELSE table[j]
  BY DEF CleanUp, outside
<1>2. Serving' = Serving /\ Given' = Given /\ \A j \in Key : Of(j)' = Of(j)
  BY <1>1 DEF Serving, Given, InFlight, Of
<1>3. \A j \in Key : table'[j] = table[j] \/ (table'[j].state # "fresh" /\ table[j].state # "fresh")
  BY <1>1
<1>4. \A j \in Key : Kept'[j] = Kept[j]
  BY <1>1, <1>2, <1>3 DEF Kept
<1>5. Kept' = Kept
  <2>1. Kept' = [j \in Key |-> Kept'[j]] /\ Kept = [j \in Key |-> Kept[j]]
    BY DEF Kept
  <2> QED BY <1>4, <2>1
<1> QED BY <1>1, <1>2, <1>5 DEF Once!vars

\* The three statements with their failures, any number of attempts at once and the expiry of
\* keys implement the abstract AnswerOnce (withIdempotency).
THEOREM AnswersOnce == KeysSpec => ImplementsAnswerOnce
<1>1. ASSUME KeysInv, [KeysNext]_keyVars PROVE [Once!Next]_Once!vars
  <2>1. ASSUME NEW a \in Attempt, RefuseRun(a) \/ StoreFails(a) \/ Die(a) PROVE Once!Next
    <3>1. Leaves(a, attempt[a].key, "answered") \/ Leaves(a, attempt[a].key, "lost")
      BY <2>1 DEF Leaves, RefuseRun, StoreFails, Die, InFlight, outside
    <3> QED BY <1>1, <3>1, LeaveRefines
  <2>2. CASE UNCHANGED keyVars
    <3>1. UNCHANGED Serving /\ UNCHANGED Kept /\ UNCHANGED Given
      BY <2>2 DEF keyVars, Serving, Kept, Given, InFlight, Of
    <3> QED BY <2>2, <3>1 DEF keyVars, Once!vars
  <2> QED BY <1>1, <2>1, <2>2, LookupRefines, RunRefines, StoreRefines, ExpireRefines, CleanUpRefines DEF KeysNext
<1> QED BY <1>1, InitRefines, KeysInductive, PTL DEF KeysSpec, ImplementsAnswerOnce, Once!Spec

-----------------------------------------------------------------------------
(* Events.                                                                  *)

\* The rows the poll transaction of a process has locked
Rows(p) == locked[p] \cup DOMAIN written[p]

Locks ==
  /\ \A p \in Poller : \A e \in Rows(p) : status[e] = "pending"
  /\ \A p, q \in Poller : p # q => Rows(p) \cap Rows(q) = {}
  /\ \A p \in Poller : locked[p] \cap DOMAIN written[p] = {}

\* A handler looks at one event at a time.
OneHandler ==
  \A p \in Poller : /\ checked[p] \subseteq locked[p]
                    /\ \A e \in checked[p] : IsEarn(e) /\ checked[p] = {e}

\* An event is written once: what writes it changes the sale for good.
WrittenOnce ==
  \A s \in Sale :
    /\ status[<<s, "earn_sold">>] # "none" => sale[s] # "none"
    /\ status[<<s, "earn_collected">>] # "none" => sale[s] \in {"paid", "voided"}
    /\ status[<<s, "voided">>] # "none" => sale[s] = "voided"

\* An event is published, or is about to be.
Done(e) == status[e] = "published" \/ \E p \in Poller : e \in DOMAIN written[p] /\ written[p][e] = "published"

EffectFirst == \A e \in Event : IsEarn(e) /\ Done(e) => accruals[SaleOf(e)] >= 1

\* The processes that found no accrual of the sale and may still add one
CheckedFor(s) == {p \in Poller : \E e \in checked[p] : SaleOf(e) = s}

AccrualsCounted ==
  \A s \in Sale : accruals[s] = 0 \/ accruals[s] + Cardinality(CheckedFor(s)) <= Cardinality(Poller)

\* The notification of a void is sent once for every time its event is handled: the time it
\* counts, and one for every crash.
NoticesCounted ==
  \A s \in Sale : LET e == <<s, "voided">> IN
    /\ status[e] = "none" => notices[s] = 0
    /\ notices[s] <= 1 + crashes
    /\ status[e] = "pending" /\ (\A p \in Poller : e \notin DOMAIN written[p]) => notices[s] <= crashes

IInv ==
  /\ TypeOK
  /\ Locks
  /\ OneHandler
  /\ WrittenOnce
  /\ EffectFirst
  /\ AccrualsCounted
  /\ NoticesCounted

-----------------------------------------------------------------------------
LEMMA Events ==
  /\ \A s \in Sale : /\ <<s, "earn_sold">> \in Event /\ <<s, "earn_collected">> \in Event
                     /\ <<s, "voided">> \in Event
  /\ \A e \in Event : SaleOf(e) \in Sale /\ (IsEarn(e) \/ e = <<SaleOf(e), "voided">>)
  /\ \A s \in Sale : ~IsEarn(<<s, "voided">>)
  BY DEF Event, SaleOf, IsEarn

LEMMA EmptyWriting == <<>> \in Writings /\ DOMAIN <<>> = {}
<1>1. <<>> \in [{} -> {"published", "failed"}]
  OBVIOUS
<1> QED BY <1>1 DEF Writings

LEMMA WritingFacts ==
  /\ \A f \in Writings : DOMAIN f \subseteq Event /\ \A e \in DOMAIN f : f[e] \in {"published", "failed"}
  /\ \A f : DOMAIN f \subseteq Event /\ f = [e \in DOMAIN f |-> f[e]]
           /\ (\A e \in DOMAIN f : f[e] \in {"published", "failed"}) => f \in Writings
  BY DEF Writings

LEMMA InitIInv == Init => IInv
<1> SUFFICES ASSUME Init PROVE IInv
  OBVIOUS
<1> USE DEF Init
<1>1. TypeOK
  BY EmptyWriting, OutboxAssumption DEF TypeOK
<1>2. \A p \in Poller : Rows(p) = {}
  BY EmptyWriting DEF Rows
<1>3. Locks /\ OneHandler /\ WrittenOnce
  BY <1>2, Events DEF Locks, OneHandler, WrittenOnce, Rows
<1>4. EffectFirst
  BY EmptyWriting DEF EffectFirst, Done
<1>5. AccrualsCounted /\ NoticesCounted
  BY OutboxAssumption, Events DEF AccrualsCounted, NoticesCounted
<1> QED BY <1>1, <1>3, <1>4, <1>5 DEF IInv

-----------------------------------------------------------------------------
(* The sale.                                                               *)

\* Steps that leave the polls alone, and write at most one event that was not in the table.
LEMMA SaleStep ==
  ASSUME IInv, UNCHANGED <<pollVars, accruals, notices, crashes, errors>>, TypeOK', WrittenOnce',
         \/ status' = status
         \/ \E e \in Event : status[e] = "none" /\ status' = [status EXCEPT ![e] = "pending"]
  PROVE  IInv'
<1>1. \A f \in Event : status'[f] = status[f] \/ (status[f] = "none" /\ status'[f] = "pending")
  BY DEF IInv, TypeOK
<1>2. \A p \in Poller : Rows(p)' = Rows(p) /\ Rows(p) \subseteq Event
  BY WritingFacts DEF Rows, pollVars, IInv, TypeOK
<1>3. Locks'
  BY <1>1, <1>2 DEF IInv, Locks, pollVars
<1>4. OneHandler'
  BY DEF IInv, OneHandler, pollVars
<1>5. EffectFirst'
  BY <1>1 DEF IInv, EffectFirst, Done, pollVars
<1>6. AccrualsCounted'
  BY DEF IInv, AccrualsCounted, CheckedFor, pollVars
<1>7. NoticesCounted'
  <2> SUFFICES ASSUME NEW s \in Sale
               PROVE  LET v == <<s, "voided">> IN
                        /\ status'[v] = "none" => notices[s] = 0
                        /\ notices[s] <= 1 + crashes
                        /\ status'[v] = "pending" /\ (\A p \in Poller : v \notin DOMAIN written[p])
                             => notices[s] <= crashes
    BY DEF NoticesCounted, pollVars
  <2>1. <<s, "voided">> \in Event
    BY Events
  <2>2. notices[s] \in Nat /\ crashes \in Nat
    BY OutboxAssumption DEF IInv, TypeOK
  <2> QED BY <1>1, <2>1, <2>2 DEF IInv, NoticesCounted
<1> QED BY <1>3, <1>4, <1>5, <1>6, <1>7 DEF IInv

\* An event that was not in the table is inserted.
LEMMA Inserted ==
  ASSUME IInv, NEW e \in Event, InsertOutbox(e)
  PROVE  /\ place' \in [Event -> Nat] /\ status' \in [Event -> {"none", "pending", "published", "failed"}]
         /\ status' = [status EXCEPT ![e] = "pending"]
         /\ \A f \in Event \ {e} : status'[f] = status[f]
<1>1. IsFiniteSet(Event)
  <2>1. IsFiniteSet({"earn_sold", "earn_collected", "voided"})
    <3>1. IsFiniteSet({"earn_sold"} \cup {"earn_collected"})
      BY FS_Singleton, FS_AddElement
    <3>2. IsFiniteSet(({"earn_sold"} \cup {"earn_collected"}) \cup {"voided"})
      BY <3>1, FS_AddElement
    <3>3. {"earn_sold", "earn_collected", "voided"} = ({"earn_sold"} \cup {"earn_collected"}) \cup {"voided"}
      OBVIOUS
    <3> QED BY <3>2, <3>3
  <2> QED BY <2>1, OutboxAssumption, FS_Product DEF Event
<1>2. Cardinality({f \in Event : status[f] # "none"}) \in Nat
  BY <1>1, FS_Subset, FS_CardinalityType
<1> QED BY <1>2 DEF IInv, TypeOK, InsertOutbox

LEMMA SellKeeps ==
  ASSUME IInv, NEW s \in Sale, NEW paid \in {"paid", "partial", "credit"}, Sell(s, paid) PROVE IInv'
<1> DEFINE e == <<s, "earn_sold">>
<1>1. e \in Event /\ status[e] = "none" /\ sale[s] = "none"
  BY Events DEF IInv, TypeOK, WrittenOnce, Sell
<1>2. /\ sale' = [sale EXCEPT ![s] = paid]
      /\ UNCHANGED <<pollVars, accruals, takenBack, balance, notices, crashes, errors>>
  BY DEF Sell
<1>3. UNCHANGED <<place, status>> \/ InsertOutbox(e)
  BY DEF Sell
<1>4. /\ place' \in [Event -> Nat] /\ status' \in [Event -> {"none", "pending", "published", "failed"}]
      /\ status' = status \/ status' = [status EXCEPT ![e] = "pending"]
      /\ \A f \in Event \ {e} : status'[f] = status[f]
  BY <1>1, <1>3, Inserted DEF IInv, TypeOK
<1>5. TypeOK'
  BY <1>2, <1>4 DEF IInv, TypeOK, pollVars
<1>6. WrittenOnce'
  <2>1. \A t \in Sale : sale'[t] = IF t = s THEN paid ELSE sale[t]
    BY <1>2 DEF IInv, TypeOK
  <2>2. \A t \in Sale : /\ status'[<<t, "earn_collected">>] = status[<<t, "earn_collected">>]
                        /\ status'[<<t, "voided">>] = status[<<t, "voided">>]
                        /\ t # s => status'[<<t, "earn_sold">>] = status[<<t, "earn_sold">>]
    BY <1>4, Events
  <2> QED BY <1>1, <2>1, <2>2 DEF IInv, WrittenOnce
<1> HIDE DEF e
<1> QED BY <1>1, <1>2, <1>4, <1>5, <1>6, SaleStep

LEMMA CollectKeeps == ASSUME IInv, NEW s \in Sale, Collect(s) PROVE IInv'
<1> DEFINE e == <<s, "earn_collected">>
<1>1. e \in Event /\ status[e] = "none" /\ status[<<s, "voided">>] = "none"
  BY Events DEF IInv, TypeOK, WrittenOnce, Collect
<1>2. /\ sale' = [sale EXCEPT ![s] = "paid"] /\ InsertOutbox(e)
      /\ UNCHANGED <<pollVars, accruals, takenBack, balance, notices, crashes, errors>>
  BY DEF Collect
<1>3. TypeOK'
  BY <1>1, <1>2, Inserted DEF IInv, TypeOK, pollVars
<1>4. WrittenOnce'
  <2>1. \A t \in Sale : sale'[t] = IF t = s THEN "paid" ELSE sale[t]
    BY <1>2 DEF IInv, TypeOK
  <2>2. \A t \in Sale : /\ status'[<<t, "earn_sold">>] = status[<<t, "earn_sold">>]
                        /\ status'[<<t, "voided">>] = status[<<t, "voided">>]
                        /\ t # s => status'[<<t, "earn_collected">>] = status[<<t, "earn_collected">>]
    BY <1>1, <1>2, Inserted, Events
  <2> QED BY <1>1, <2>1, <2>2 DEF IInv, WrittenOnce
<1>5. status' = [status EXCEPT ![e] = "pending"]
  BY <1>1, <1>2, Inserted
<1> HIDE DEF e
<1> QED BY <1>1, <1>2, <1>3, <1>4, <1>5, SaleStep

\* A void takes back no more points than there are.
LEMMA TakenBack ==
  ASSUME NEW earned \in Nat, NEW available \in Nat
  PROVE  TakeBack(earned, available) \in Nat /\ TakeBack(earned, available) <= available
<1>1. \E x \in {earned, available} : \A y \in {earned, available} : x <= y
  OBVIOUS
<1> QED BY <1>1 DEF TakeBack, Min

LEMMA VoidKeeps == ASSUME IInv, NEW s \in Sale, Void(s) PROVE IInv'
<1> DEFINE e == <<s, "voided">>
           back == TakeBack(accruals[s], balance)
<1>1. e \in Event /\ status[e] = "none" /\ sale[s] # "none"
  BY Events DEF IInv, TypeOK, WrittenOnce, Void
<1>2. /\ sale' = [sale EXCEPT ![s] = "voided"] /\ InsertOutbox(e)
      /\ takenBack' = [takenBack EXCEPT ![s] = back] /\ balance' = balance - back
      /\ UNCHANGED <<pollVars, accruals, notices, crashes, errors>>
  BY DEF Void
<1>3. back \in Nat /\ balance' \in Nat
  <2>1. accruals[s] \in Nat /\ balance \in Nat
    BY DEF IInv, TypeOK
  <2>2. back \in Nat /\ back <= balance
    BY <2>1, TakenBack
  <2> HIDE DEF back
  <2> QED BY <1>2, <2>1, <2>2
<1> HIDE DEF back
<1>4. TypeOK'
  BY <1>1, <1>2, <1>3, Inserted DEF IInv, TypeOK, pollVars
<1>5. WrittenOnce'
  <2>1. \A t \in Sale : sale'[t] = IF t = s THEN "voided" ELSE sale[t]
    BY <1>2 DEF IInv, TypeOK
  <2>2. \A t \in Sale : /\ status'[<<t, "earn_sold">>] = status[<<t, "earn_sold">>]
                        /\ status'[<<t, "earn_collected">>] = status[<<t, "earn_collected">>]
                        /\ t # s => status'[<<t, "voided">>] = status[<<t, "voided">>]
    BY <1>1, <1>2, Inserted, Events
  <2> QED BY <1>1, <2>1, <2>2 DEF IInv, WrittenOnce
<1>6. status' = [status EXCEPT ![e] = "pending"]
  BY <1>1, <1>2, Inserted
<1> HIDE DEF e
<1> QED BY <1>1, <1>2, <1>4, <1>5, <1>6, SaleStep

LEMMA RedeemKeeps == ASSUME IInv, Redeem PROVE IInv'
<1>1. TypeOK' /\ WrittenOnce'
  BY DEF IInv, TypeOK, WrittenOnce, Redeem, pollVars
<1> QED BY <1>1, SaleStep DEF Redeem

-----------------------------------------------------------------------------
(* The poller.                                                             *)

LEMMA HandledFacts ==
  ASSUME TypeOK, NEW p \in Poller, NEW e \in locked[p], NEW result \in {"published", "failed"},
         Handled(p, e, result)
  PROVE  /\ locked' \in [Poller -> SUBSET Event] /\ written' \in [Poller -> Writings]
         /\ locked'[p] = locked[p] \ {e} /\ DOMAIN written'[p] = DOMAIN written[p] \cup {e}
         /\ written'[p][e] = result
         /\ \A x \in DOMAIN written[p] \ {e} : written'[p][x] = written[p][x]
         /\ \A q \in Poller \ {p} : locked'[q] = locked[q] /\ written'[q] = written[q]
<1> DEFINE new == [x \in DOMAIN written[p] \cup {e} |-> IF x = e THEN result ELSE written[p][x]]
<1>1. e \in Event /\ written[p] \in Writings
  BY DEF TypeOK
<1>2. new \in Writings
  BY <1>1, WritingFacts
<1>3. locked' = [locked EXCEPT ![p] = @ \ {e}] /\ written' = [written EXCEPT ![p] = new]
  BY DEF Handled
<1>4. DOMAIN new = DOMAIN written[p] \cup {e} /\ new[e] = result
      /\ \A x \in DOMAIN written[p] \ {e} : new[x] = written[p][x]
  OBVIOUS
<1> HIDE DEF new
<1> QED BY <1>1, <1>2, <1>3, <1>4 DEF TypeOK

\* An event that was handled stays locked until the commit.
LEMMA HandledLocks ==
  ASSUME IInv, NEW p \in Poller, NEW e \in locked[p], NEW result \in {"published", "failed"},
         Handled(p, e, result), status' = status,
         checked' \in [Poller -> SUBSET Event], e \notin checked'[p],
         \A q \in Poller : checked'[q] \subseteq checked[q]
  PROVE  Locks' /\ OneHandler'
<1>1. \A q \in Poller : Rows(q)' = Rows(q)
  <2>1. TypeOK
    BY DEF IInv
  <2> QED BY <2>1, HandledFacts DEF Rows
<1>2. TypeOK
  BY DEF IInv
<1>3. Locks'
  BY <1>1, <1>2, HandledFacts DEF IInv, Locks, Rows
<1>4. \A q \in Poller : checked'[q] \subseteq locked'[q]
  BY <1>2, HandledFacts DEF IInv, OneHandler
<1>5. \A q \in Poller : \A x \in checked'[q] : IsEarn(x) /\ checked'[q] = {x}
  BY DEF IInv, OneHandler
<1> QED BY <1>3, <1>4, <1>5 DEF OneHandler

\* What is done after an event was handled
LEMMA HandledDone ==
  ASSUME IInv, NEW p \in Poller, NEW e \in locked[p], NEW result \in {"published", "failed"},
         Handled(p, e, result), status' = status
  PROVE  \A x \in Event : Done(x)' => Done(x) \/ (x = e /\ result = "published")
<1>1. TypeOK
  BY DEF IInv
<1>2. SUFFICES ASSUME NEW x \in Event, NEW q \in Poller, x \in DOMAIN written'[q], written'[q][x] = "published",
                      ~(x = e /\ result = "published")
               PROVE  x \in DOMAIN written[q] /\ written[q][x] = "published"
  BY DEF Done
<1>3. CASE q = p
  <2>1. x # e
    BY <1>1, <1>2, <1>3, HandledFacts
  <2> QED BY <1>1, <1>2, <1>3, <2>1, HandledFacts
<1>4. CASE q # p
  BY <1>1, <1>2, <1>4, HandledFacts
<1> QED BY <1>3, <1>4

\* The number of processes that may still accrue
LEMMA CheckedForFinite ==
  \A s : CheckedFor(s) \subseteq Poller /\ IsFiniteSet(CheckedFor(s)) /\ Cardinality(CheckedFor(s)) \in Nat
         /\ Cardinality(CheckedFor(s)) <= Cardinality(Poller)
<1> TAKE s
<1>1. CheckedFor(s) \in SUBSET Poller
  BY DEF CheckedFor
<1> QED BY <1>1, OutboxAssumption, FS_Subset, FS_CardinalityType

LEMMA AccrualsStay ==
  ASSUME IInv, accruals' = accruals, \A q \in Poller : checked'[q] \subseteq checked[q]
  PROVE  AccrualsCounted'
<1> SUFFICES ASSUME NEW s \in Sale, accruals[s] # 0
             PROVE  accruals[s] + Cardinality(CheckedFor(s)') <= Cardinality(Poller)
  BY DEF AccrualsCounted
<1>1. CheckedFor(s)' \in SUBSET CheckedFor(s)
  BY DEF CheckedFor
<1>2. Cardinality(CheckedFor(s)') <= Cardinality(CheckedFor(s)) /\ IsFiniteSet(CheckedFor(s)')
  BY <1>1, CheckedForFinite, FS_Subset
<1>3. /\ Cardinality(CheckedFor(s)) \in Nat /\ Cardinality(CheckedFor(s)') \in Nat
      /\ Cardinality(Poller) \in Nat /\ accruals[s] \in Nat
  BY <1>2, CheckedForFinite, OutboxAssumption, FS_CardinalityType DEF IInv, TypeOK
<1>4. accruals[s] + Cardinality(CheckedFor(s)) <= Cardinality(Poller)
  BY DEF IInv, AccrualsCounted
<1> QED BY <1>2, <1>3, <1>4

\* A process accrues a sale: it was one of those that might.
LEMMA AccrualAdded ==
  ASSUME IInv, NEW p \in Poller, NEW e \in checked[p], checked' = [checked EXCEPT ![p] = {}],
         accruals' = [accruals EXCEPT ![SaleOf(e)] = @ + 1]
  PROVE  AccrualsCounted'
<1> DEFINE t == SaleOf(e)
<1>1. t \in Sale /\ e \in Event
  BY Events DEF IInv, TypeOK
<1>2. \A s : CheckedFor(s)' \in SUBSET CheckedFor(s)
  BY DEF IInv, TypeOK, CheckedFor
<1>3. p \in CheckedFor(t) /\ CheckedFor(t)' = CheckedFor(t) \ {p}
  BY DEF IInv, TypeOK, CheckedFor
<1>4. /\ \A s \in Sale : accruals[s] \in Nat /\ accruals'[s] = IF s = t THEN accruals[t] + 1 ELSE accruals[s]
      /\ Cardinality(Poller) \in Nat
  BY OutboxAssumption, FS_CardinalityType DEF IInv, TypeOK
<1>5. accruals'[t] + Cardinality(CheckedFor(t)') <= Cardinality(Poller)
  <2>1. Cardinality(CheckedFor(t)') = Cardinality(CheckedFor(t)) - 1
    BY <1>3, CheckedForFinite, FS_RemoveElement
  <2>2. Cardinality(CheckedFor(t)) \in Nat /\ Cardinality(CheckedFor(t)) <= Cardinality(Poller)
    BY CheckedForFinite
  <2>3. accruals[t] = 0 \/ accruals[t] + Cardinality(CheckedFor(t)) <= Cardinality(Poller)
    BY <1>1 DEF IInv, AccrualsCounted
  <2> QED BY <1>1, <1>4, <2>1, <2>2, <2>3
<1>6. ASSUME NEW s \in Sale, s # t, accruals[s] # 0
      PROVE  accruals[s] + Cardinality(CheckedFor(s)') <= Cardinality(Poller)
  <2>1. Cardinality(CheckedFor(s)') <= Cardinality(CheckedFor(s)) /\ IsFiniteSet(CheckedFor(s)')
    BY <1>2, CheckedForFinite, FS_Subset
  <2>2. Cardinality(CheckedFor(s)) \in Nat /\ Cardinality(CheckedFor(s)') \in Nat
    BY <2>1, CheckedForFinite, FS_CardinalityType
  <2>3. accruals[s] + Cardinality(CheckedFor(s)) <= Cardinality(Poller)
    BY <1>6 DEF IInv, AccrualsCounted
  <2> QED BY <1>4, <2>1, <2>2, <2>3
<1> HIDE DEF t
<1> QED BY <1>4, <1>5, <1>6 DEF AccrualsCounted

\* Notices are counted as before, as long as no written row is given up.
LEMMA NoticesStay ==
  ASSUME IInv, notices' = notices, crashes' = crashes, status' = status,
         \A q \in Poller : DOMAIN written[q] \subseteq DOMAIN written'[q]
  PROVE  NoticesCounted'
  BY DEF IInv, NoticesCounted

LEMMA PollKeeps == ASSUME IInv, NEW p \in Poller, Poll(p) PROVE IInv'
<1> DEFINE due == {e \in Event : status[e] = "pending" /\ ~Locked(e)}
<1>1. /\ Idle(p) /\ locked' = [locked EXCEPT ![p] = Oldest(due)]
      /\ UNCHANGED <<saleVars, status, written, checked, notices, crashes, errors>>
  BY DEF Poll
<1>2. Oldest(due) \subseteq due
  BY DEF Oldest
<1>3. \A e \in due : e \in Event /\ status[e] = "pending" /\ \A q \in Poller : e \notin Rows(q)
  BY DEF Locked, Rows
<1> HIDE DEF due
<1>4. TypeOK'
  BY <1>1, <1>2, <1>3 DEF IInv, TypeOK, saleVars
<1>5. Rows(p) = {} /\ Rows(p)' = Oldest(due) /\ \A q \in Poller \ {p} : Rows(q)' = Rows(q)
  BY <1>1, EmptyWriting DEF IInv, TypeOK, Idle, Rows
<1>6. \A q \in Poller : locked'[q] \cap DOMAIN written'[q] = {}
  BY <1>1, EmptyWriting DEF IInv, TypeOK, Locks, Idle
<1>7. Locks'
  BY <1>1, <1>2, <1>3, <1>5, <1>6 DEF IInv, Locks
<1>8. OneHandler'
  BY <1>1 DEF IInv, TypeOK, OneHandler, Idle
<1>9. WrittenOnce' /\ EffectFirst' /\ AccrualsCounted' /\ NoticesCounted'
  BY <1>1, NoticesStay, AccrualsStay DEF IInv, WrittenOnce, EffectFirst, Done, saleVars
<1> QED BY <1>4, <1>7, <1>8, <1>9 DEF IInv

LEMMA CheckAccrualKeeps ==
  ASSUME IInv, NEW p \in Poller, NEW e \in Event, CheckAccrual(p, e) PROVE IInv'
<1>1. /\ e \in locked[p] /\ IsEarn(e) /\ checked[p] = {}
      /\ UNCHANGED <<saleVars, status, notices, crashes, errors>>
  BY DEF CheckAccrual, Handling
<1>2. SaleOf(e) \in Sale
  BY Events
<1>3. CASE AlreadyAccrued(SaleOf(e))
  <2>1. Handled(p, e, "published") /\ checked' = checked
    BY <1>3 DEF CheckAccrual
  <2>2. TypeOK /\ checked' \in [Poller -> SUBSET Event]
    BY <2>1 DEF IInv, TypeOK
  <2>3. TypeOK'
    BY <1>1, <2>1, <2>2, HandledFacts DEF TypeOK, saleVars
  <2>4. Locks' /\ OneHandler'
    BY <1>1, <2>1, <2>2, HandledLocks
  <2>5. EffectFirst'
    <3>1. accruals' = accruals /\ accruals[SaleOf(e)] >= 1
      BY <1>1, <1>2, <1>3, <2>2 DEF AlreadyAccrued, saleVars, TypeOK
    <3> QED BY <1>1, <2>1, <3>1, HandledDone DEF IInv, EffectFirst
  <2>6. AccrualsCounted' /\ WrittenOnce'
    BY <1>1, <2>1, AccrualsStay DEF saleVars, IInv, WrittenOnce
  <2>7. NoticesCounted'
    <3>1. \A q \in Poller : DOMAIN written[q] \subseteq DOMAIN written'[q]
      BY <1>1, <2>1, <2>2, HandledFacts
    <3> QED BY <1>1, <3>1, NoticesStay
  <2> QED BY <2>3, <2>4, <2>5, <2>6, <2>7 DEF IInv
<1>4. CASE ~AlreadyAccrued(SaleOf(e))
  <2>1. checked' = [checked EXCEPT ![p] = {e}] /\ UNCHANGED <<locked, written>>
    BY <1>4 DEF CheckAccrual
  <2>2. TypeOK' /\ Locks' /\ WrittenOnce' /\ EffectFirst'
    BY <1>1, <2>1 DEF IInv, TypeOK, Locks, Rows, WrittenOnce, EffectFirst, Done, saleVars
  <2>3. OneHandler'
    BY <1>1, <2>1 DEF IInv, TypeOK, OneHandler
  <2>4. NoticesCounted'
    BY <1>1, <2>1, NoticesStay
  <2>5. AccrualsCounted'
    <3>1. accruals' = accruals /\ accruals[SaleOf(e)] = 0
      BY <1>1, <1>2, <1>4 DEF AlreadyAccrued, saleVars, IInv, TypeOK
    <3>2. \A s : s # SaleOf(e) => CheckedFor(s)' = CheckedFor(s)
      BY <1>1, <2>1 DEF IInv, TypeOK, CheckedFor
    <3> QED BY <3>1, <3>2 DEF IInv, AccrualsCounted
  <2> QED BY <2>2, <2>3, <2>4, <2>5 DEF IInv
<1> QED BY <1>3, <1>4

\* The points of a sale are added.
LEMMA PointsAdded ==
  ASSUME TypeOK, NEW s \in Sale, AddPoints(s)
  PROVE  /\ accruals' \in [Sale -> Nat] /\ balance' \in Nat
         /\ accruals'[s] >= 1 /\ \A t \in Sale : accruals'[t] >= accruals[t]
  BY DEF TypeOK, AddPoints

LEMMA AccrueKeeps ==
  ASSUME IInv, NEW p \in Poller, NEW e \in Event, Accrue(p, e) PROVE IInv'
<1>1. /\ e \in checked[p] /\ AddPoints(SaleOf(e)) /\ Handled(p, e, "published")
      /\ checked' = [checked EXCEPT ![p] = {}]
      /\ UNCHANGED <<sale, place, status, takenBack, notices, crashes, errors>>
  BY DEF Accrue
<1>2. e \in locked[p] /\ IsEarn(e) /\ SaleOf(e) \in Sale /\ TypeOK
  BY <1>1, Events DEF IInv, OneHandler
<1>3. checked' \in [Poller -> SUBSET Event] /\ e \notin checked'[p] /\ \A q \in Poller : checked'[q] \subseteq checked[q]
  BY <1>1, <1>2 DEF TypeOK
<1>4. TypeOK'
  BY <1>1, <1>2, <1>3, PointsAdded, HandledFacts DEF TypeOK
<1>5. Locks' /\ OneHandler'
  BY <1>1, <1>2, <1>3, HandledLocks
<1>6. EffectFirst'
  <2>1. \A x \in Event : SaleOf(x) \in Sale /\ accruals[SaleOf(x)] \in Nat /\ accruals'[SaleOf(x)] \in Nat
    BY <1>2, <1>4, Events DEF TypeOK
  <2>2. accruals'[SaleOf(e)] >= 1 /\ \A t \in Sale : accruals'[t] >= accruals[t]
    BY <1>1, <1>2, PointsAdded
  <2>3. \A x \in Event : Done(x)' => Done(x) \/ x = e
    BY <1>1, <1>2, HandledDone
  <2> QED BY <2>1, <2>2, <2>3 DEF IInv, EffectFirst
<1>7. AccrualsCounted'
  BY <1>1, AccrualAdded DEF AddPoints
<1>8. WrittenOnce'
  BY <1>1 DEF IInv, WrittenOnce
<1>9. NoticesCounted'
  <2>1. \A q \in Poller : DOMAIN written[q] \subseteq DOMAIN written'[q]
    BY <1>1, <1>2, HandledFacts
  <2> QED BY <1>1, <2>1, NoticesStay
<1> QED BY <1>4, <1>5, <1>6, <1>7, <1>8, <1>9 DEF IInv

LEMMA AccrualFailsKeeps ==
  ASSUME IInv, NEW p \in Poller, NEW e \in Event, AccrualFails(p, e) PROVE IInv'
<1>1. /\ e \in locked[p] /\ IsEarn(e) /\ Handled(p, e, "failed")
      /\ errors < MaxErrors /\ errors' = errors + 1
      /\ checked' = [checked EXCEPT ![p] = {}]
      /\ UNCHANGED <<sale, place, status, takenBack, notices, crashes>>
  BY DEF AccrualFails, Handling
<1>2. UNCHANGED <<accruals, balance>> \/ (e \in checked[p] /\ AddPoints(SaleOf(e)))
  BY DEF AccrualFails
<1>3. SaleOf(e) \in Sale /\ TypeOK
  BY Events DEF IInv
<1>4. checked' \in [Poller -> SUBSET Event] /\ e \notin checked'[p] /\ \A q \in Poller : checked'[q] \subseteq checked[q]
  BY <1>1, <1>3 DEF TypeOK
<1>5. accruals' \in [Sale -> Nat] /\ balance' \in Nat /\ \A t \in Sale : accruals'[t] >= accruals[t]
  BY <1>2, <1>3, PointsAdded DEF TypeOK
<1>6. TypeOK'
  <2>1. errors' \in 0..MaxErrors
    BY <1>1, <1>3, OutboxAssumption DEF TypeOK
  <2> QED BY <1>1, <1>3, <1>4, <1>5, <2>1, HandledFacts DEF TypeOK
<1>7. Locks' /\ OneHandler'
  BY <1>1, <1>4, HandledLocks
<1>8. EffectFirst'
  <2>1. \A x \in Event : SaleOf(x) \in Sale /\ accruals[SaleOf(x)] \in Nat /\ accruals'[SaleOf(x)] \in Nat
    BY <1>3, <1>5, Events DEF TypeOK
  <2>2. \A x \in Event : Done(x)' => Done(x)
    BY <1>1, HandledDone
  <2> QED BY <1>5, <2>1, <2>2 DEF IInv, EffectFirst
<1>9. AccrualsCounted'
  BY <1>1, <1>2, <1>4, AccrualsStay, AccrualAdded DEF AddPoints
<1>10. WrittenOnce'
  BY <1>1 DEF IInv, WrittenOnce
<1>11. NoticesCounted'
  <2>1. \A q \in Poller : DOMAIN written[q] \subseteq DOMAIN written'[q]
    BY <1>1, <1>3, HandledFacts
  <2> QED BY <1>1, <2>1, NoticesStay
<1> QED BY <1>6, <1>7, <1>8, <1>9, <1>10, <1>11 DEF IInv

LEMMA NotifyKeeps ==
  ASSUME IInv, NEW p \in Poller, NEW e \in Event, Notify(p, e) PROVE IInv'
<1> DEFINE s == SaleOf(e)
<1>1. /\ e \in locked[p] /\ ~IsEarn(e) /\ Handled(p, e, "published")
      /\ UNCHANGED <<saleVars, status, checked, crashes>>
  BY DEF Notify, Handling
<1>2. \/ notices' = [notices EXCEPT ![s] = @ + 1] /\ errors' = errors
      \/ errors < MaxErrors /\ errors' = errors + 1 /\ notices' = notices
  BY DEF Notify
<1>3. s \in Sale /\ TypeOK /\ e = <<s, "voided">>
  BY <1>1, Events DEF IInv
<1>4. checked' \in [Poller -> SUBSET Event] /\ e \notin checked'[p] /\ \A q \in Poller : checked'[q] \subseteq checked[q]
  BY <1>1, <1>3 DEF TypeOK, IInv, OneHandler
<1>5. /\ notices' \in [Sale -> Nat] /\ errors' \in 0..MaxErrors
      /\ \A t \in Sale \ {s} : notices'[t] = notices[t]
      /\ (notices'[s] = notices[s] \/ notices'[s] = notices[s] + 1)
  BY <1>2, <1>3, OutboxAssumption DEF TypeOK
<1>6. TypeOK'
  BY <1>1, <1>3, <1>5, HandledFacts DEF TypeOK, saleVars
<1>7. Locks' /\ OneHandler'
  BY <1>1, <1>4, HandledLocks
<1>8. EffectFirst' /\ AccrualsCounted' /\ WrittenOnce'
  <2>1. \A x \in Event : Done(x)' => Done(x) \/ x = e
    BY <1>1, HandledDone
  <2> QED BY <1>1, <2>1, AccrualsStay DEF IInv, EffectFirst, WrittenOnce, saleVars
<1>9. NoticesCounted'
  <2>1. /\ status[e] = "pending" /\ \A q \in Poller : e \notin DOMAIN written[q]
        /\ e \in DOMAIN written'[p] /\ \A q \in Poller : DOMAIN written[q] \subseteq DOMAIN written'[q]
    BY <1>1, <1>3, HandledFacts DEF IInv, Locks, Rows
  <2>2. notices[s] <= crashes /\ notices[s] \in Nat /\ crashes \in Nat
    BY <1>3, <2>1, OutboxAssumption DEF IInv, NoticesCounted, TypeOK
  <2>3. ASSUME NEW t \in Sale
        PROVE  LET v == <<t, "voided">> IN
                 /\ status[v] = "none" => notices'[t] = 0
                 /\ notices'[t] <= 1 + crashes
                 /\ status[v] = "pending" /\ (\A q \in Poller : v \notin DOMAIN written'[q])
                      => notices'[t] <= crashes
    <3>1. CASE t = s
      BY <1>3, <1>5, <2>1, <2>2, <3>1
    <3>2. CASE t # s
      BY <1>5, <2>1, <3>2 DEF IInv, NoticesCounted
    <3> QED BY <3>1, <3>2
  <2> QED BY <1>1, <2>3 DEF NoticesCounted
<1> QED BY <1>6, <1>7, <1>8, <1>9 DEF IInv

LEMMA CommitKeeps == ASSUME IInv, NEW p \in Poller, Commit(p) PROVE IInv'
<1>1. /\ locked[p] = {} /\ status' = [e \in Event |-> Committed(p, e)]
      /\ written' = [written EXCEPT ![p] = <<>>]
      /\ UNCHANGED <<saleVars, locked, checked, notices, crashes, errors>>
  BY DEF Commit
<1>2. TypeOK
  BY DEF IInv
<1>3. /\ \A e \in DOMAIN written[p] : e \in Event /\ written[p][e] \in {"published", "failed"} /\ status[e] = "pending"
      /\ \A e \in Event : status'[e] = IF e \in DOMAIN written[p] THEN written[p][e] ELSE status[e]
      /\ written'[p] = <<>> /\ DOMAIN written'[p] = {} /\ \A q \in Poller \ {p} : written'[q] = written[q]
  BY <1>1, <1>2, WritingFacts, EmptyWriting DEF IInv, Locks, Rows, TypeOK, Committed
<1>4. TypeOK'
  <2>1. status' \in [Event -> {"none", "pending", "published", "failed"}]
    BY <1>1, <1>2, <1>3 DEF TypeOK
  <2>2. written' \in [Poller -> Writings]
    BY <1>1, <1>2, EmptyWriting DEF TypeOK
  <2> QED BY <1>1, <1>2, <2>1, <2>2 DEF TypeOK, saleVars
<1>5. Rows(p)' = {} /\ \A q \in Poller \ {p} : Rows(q)' = Rows(q) /\ Rows(q) \cap DOMAIN written[p] = {} /\ Rows(q) \subseteq Event
  BY <1>1, <1>2, <1>3, WritingFacts DEF IInv, Locks, Rows, TypeOK
<1>6. Locks'
  <2>1. \A q \in Poller : \A e \in Rows(q)' : status'[e] = "pending"
    BY <1>3, <1>5 DEF IInv, Locks
  <2>2. \A q, r \in Poller : q # r => Rows(q)' \cap Rows(r)' = {}
    BY <1>5 DEF IInv, Locks
  <2>3. \A q \in Poller : locked'[q] \cap DOMAIN written'[q] = {}
    BY <1>1, <1>3 DEF IInv, Locks
  <2> QED BY <2>1, <2>2, <2>3 DEF Locks
<1>7. OneHandler'
  BY <1>1 DEF IInv, OneHandler
<1>8. WrittenOnce'
  BY <1>1, <1>3, Events DEF IInv, WrittenOnce, saleVars
<1>9. EffectFirst'
  <2>1. \A x \in Event : Done(x)' => Done(x)
    BY <1>3 DEF Done
  <2> QED BY <1>1, <2>1 DEF IInv, EffectFirst, saleVars
<1>10. AccrualsCounted'
  BY <1>1, AccrualsStay DEF saleVars
<1>11. NoticesCounted'
  <2> SUFFICES ASSUME NEW s \in Sale
               PROVE  LET v == <<s, "voided">> IN
                        /\ status'[v] = "none" => notices[s] = 0
                        /\ notices[s] <= 1 + crashes
                        /\ status'[v] = "pending" /\ (\A q \in Poller : v \notin DOMAIN written'[q])
                             => notices[s] <= crashes
    BY <1>1 DEF NoticesCounted
  <2>1. <<s, "voided">> \in Event
    BY Events
  <2>2. \A e \in Event : status'[e] \in {"none", "pending"} => e \notin DOMAIN written[p] /\ status'[e] = status[e]
    BY <1>3
  <2> QED BY <1>3, <2>1, <2>2 DEF IInv, NoticesCounted
<1> QED BY <1>4, <1>6, <1>7, <1>8, <1>9, <1>10, <1>11 DEF IInv

LEMMA CrashKeeps == ASSUME IInv, NEW p \in Poller, Crash(p) PROVE IInv'
<1>1. /\ crashes < MaxCrashes /\ crashes' = crashes + 1
      /\ locked' = [locked EXCEPT ![p] = {}] /\ written' = [written EXCEPT ![p] = <<>>]
      /\ checked' = [checked EXCEPT ![p] = {}]
      /\ UNCHANGED <<saleVars, status, notices, errors>>
  BY DEF Crash
<1>2. TypeOK
  BY DEF IInv
<1>3. /\ locked'[p] = {} /\ DOMAIN written'[p] = {} /\ checked'[p] = {}
      /\ \A q \in Poller \ {p} : locked'[q] = locked[q] /\ written'[q] = written[q] /\ checked'[q] = checked[q]
  BY <1>1, <1>2, EmptyWriting DEF TypeOK
<1>4. TypeOK'
  <2>1. crashes' \in 0..MaxCrashes
    BY <1>1, <1>2, OutboxAssumption DEF TypeOK
  <2>2. written' \in [Poller -> Writings] /\ locked' \in [Poller -> SUBSET Event] /\ checked' \in [Poller -> SUBSET Event]
    BY <1>1, <1>2, EmptyWriting DEF TypeOK
  <2> QED BY <1>1, <1>2, <2>1, <2>2 DEF TypeOK, saleVars
<1>5. Rows(p)' = {} /\ \A q \in Poller \ {p} : Rows(q)' = Rows(q)
  BY <1>3 DEF Rows
<1>6. Locks'
  BY <1>1, <1>3, <1>5 DEF IInv, Locks
<1>7. OneHandler'
  BY <1>3 DEF IInv, OneHandler
<1>8. WrittenOnce'
  BY <1>1 DEF IInv, WrittenOnce, saleVars
<1>9. EffectFirst'
  <2>1. \A x \in Event : Done(x)' => Done(x)
    BY <1>1, <1>3 DEF Done
  <2> QED BY <1>1, <2>1 DEF IInv, EffectFirst, saleVars
<1>10. AccrualsCounted'
  BY <1>1, <1>3, AccrualsStay DEF saleVars
<1>11. NoticesCounted'
  <2>1. \A s \in Sale : notices[s] \in Nat /\ crashes \in Nat
    BY <1>2, OutboxAssumption DEF TypeOK
  <2>2. \A s \in Sale : (status[<<s, "voided">>] = "none" => notices[s] = 0) /\ notices[s] <= 1 + crashes
    BY DEF IInv, NoticesCounted
  <2>3. notices' = notices /\ status' = status /\ crashes' = crashes + 1
    BY <1>1
  <2>4. ASSUME NEW s \in Sale PROVE notices[s] <= crashes' /\ notices[s] <= 1 + crashes'
    <3>1. notices[s] \in Nat /\ crashes \in Nat /\ notices[s] <= 1 + crashes
      BY <2>1, <2>2
    <3>2. crashes' = crashes + 1
      BY <2>3
    <3> QED BY <3>1, <3>2
  <2> QED BY <2>2, <2>3, <2>4 DEF NoticesCounted
<1> QED BY <1>4, <1>6, <1>7, <1>8, <1>9, <1>10, <1>11 DEF IInv

-----------------------------------------------------------------------------
LEMMA NextKeeps == ASSUME IInv, Next PROVE IInv'
<1>1. ASSUME NEW s \in Sale, NEW paid \in {"paid", "partial", "credit"}, Sell(s, paid) PROVE IInv'
  BY <1>1, SellKeeps
<1>2. ASSUME NEW s \in Sale, Collect(s) \/ Void(s) PROVE IInv'
  BY <1>2, CollectKeeps, VoidKeeps
<1>3. CASE Redeem
  BY <1>3, RedeemKeeps
<1>4. ASSUME NEW p \in Poller, PollerStep(p) PROVE IInv'
  <2>1. ASSUME NEW e \in Event, CheckAccrual(p, e) \/ Accrue(p, e) \/ Notify(p, e) PROVE IInv'
    BY <2>1, CheckAccrualKeeps, AccrueKeeps, NotifyKeeps
  <2> QED BY <1>4, <2>1, PollKeeps, CommitKeeps DEF PollerStep
<1>5. ASSUME NEW p \in Poller, NEW e \in Event, AccrualFails(p, e) PROVE IInv'
  BY <1>5, AccrualFailsKeeps
<1>6. ASSUME NEW p \in Poller, Crash(p) PROVE IInv'
  BY <1>6, CrashKeeps
<1> QED BY <1>1, <1>2, <1>3, <1>4, <1>5, <1>6 DEF Next

LEMMA StutterKeeps == ASSUME IInv, UNCHANGED vars PROVE IInv'
<1>1. TypeOK' /\ WrittenOnce'
  BY DEF vars, IInv, TypeOK, WrittenOnce
<1> QED BY <1>1, SaleStep DEF vars, pollVars

LEMMA Inductive == Spec => []IInv
<1>1. IInv /\ [Next]_vars => IInv'
  BY NextKeeps, StutterKeeps
<1> QED BY <1>1, InitIInv, PTL DEF Spec

\* A sale's two requests for points are accrued at most once for every process that polls, a
\* notification is repeated only after a crash, and the balance stays above zero (the checks of
\* handleLoyaltyAccrual, and the row locks and the commit of pollOnce).
THEOREM OutboxRepeatsWithinBounds == Spec => []RepeatedWithinBounds
<1>1. IInv => RepeatedWithinBounds
  <2> SUFFICES ASSUME IInv PROVE RepeatedWithinBounds
    OBVIOUS
  <2>1. ASSUME NEW s \in Sale PROVE accruals[s] <= Cardinality(Poller)
    <3>1. accruals[s] \in Nat /\ Cardinality(Poller) \in Nat
      BY OutboxAssumption, FS_CardinalityType DEF IInv, TypeOK
    <3>2. Cardinality(CheckedFor(s)) \in Nat
      BY CheckedForFinite
    <3>3. accruals[s] = 0 \/ accruals[s] + Cardinality(CheckedFor(s)) <= Cardinality(Poller)
      BY DEF IInv, AccrualsCounted
    <3> QED BY <3>1, <3>2, <3>3
  <2>2. RepeatedOnlyByCrash
    BY DEF IInv, NoticesCounted, RepeatedOnlyByCrash
  <2> QED BY <2>1, <2>2 DEF IInv, RepeatedWithinBounds, AccruedOncePerProcess
<1> QED BY <1>1, Inductive, PTL

\* An event whose row says published has its points on record: the handler's transaction commits
\* before the poll's does (handleLoyaltyAccrual and pollOnce).
THEOREM PublishedHasBeenAccrued == Spec => []PublishedMeansAccrued
<1>1. IInv => PublishedMeansAccrued
  BY DEF IInv, EffectFirst, Done, PublishedMeansAccrued
<1> QED BY <1>1, Inductive, PTL

\* The status a poll has committed is never written again: not by another poll, and not by the
\* sale, which inserts every event once (pollOnce, insertOutbox).
THEOREM StatusesAreFinal == Spec => HandledForGood
<1> DEFINE Final == \A e \in Event : status[e] \in {"published", "failed"} => status'[e] = status[e]
<1>1. IInv /\ [Next]_vars => [Final]_vars
  <2> SUFFICES ASSUME IInv, Next PROVE Final
    BY DEF vars
  <2>1. ASSUME NEW e \in Event, status[e] = "none", InsertOutbox(e) PROVE Final
    BY <2>1, Inserted
  <2>2. ASSUME NEW s \in Sale, NEW paid \in {"paid", "partial", "credit"}, Sell(s, paid) PROVE Final
    <3>1. <<s, "earn_sold">> \in Event /\ status[<<s, "earn_sold">>] = "none"
      BY <2>2, Events DEF IInv, TypeOK, WrittenOnce, Sell
    <3>2. status' = status \/ InsertOutbox(<<s, "earn_sold">>)
      BY <2>2 DEF Sell
    <3> QED BY <2>1, <3>1, <3>2
  <2>3. ASSUME NEW s \in Sale, Collect(s) PROVE Final
    <3>1. <<s, "earn_collected">> \in Event /\ status[<<s, "earn_collected">>] = "none"
      BY <2>3, Events DEF IInv, TypeOK, WrittenOnce, Collect
    <3>2. InsertOutbox(<<s, "earn_collected">>)
      BY <2>3 DEF Collect
    <3> QED BY <2>1, <3>1, <3>2
  <2>4. ASSUME NEW s \in Sale, Void(s) PROVE Final
    <3>1. <<s, "voided">> \in Event /\ status[<<s, "voided">>] = "none"
      BY <2>4, Events DEF IInv, TypeOK, WrittenOnce, Void
    <3>2. InsertOutbox(<<s, "voided">>)
      BY <2>4 DEF Void
    <3> QED BY <2>1, <3>1, <3>2
  <2>5. ASSUME NEW p \in Poller, Commit(p) PROVE Final
    BY <2>5 DEF IInv, Locks, Rows, Commit, Committed
  <2>6. ASSUME NEW p \in Poller, NEW e \in Event, CheckAccrual(p, e) \/ Accrue(p, e) \/ Notify(p, e) \/ AccrualFails(p, e)
        PROVE  Final
    BY <2>6 DEF CheckAccrual, Accrue, Notify, AccrualFails
  <2>7. ASSUME NEW p \in Poller, Poll(p) \/ Crash(p) PROVE Final
    BY <2>7 DEF Poll, Crash
  <2>8. CASE Redeem
    BY <2>8 DEF Redeem
  <2> HIDE DEF Final
  <2> QED BY <2>2, <2>3, <2>4, <2>5, <2>6, <2>7, <2>8 DEF Next, PollerStep
<1> QED BY <1>1, Inductive, PTL DEF Spec, HandledForGood

===============================================================================
