-------------------------------- MODULE Sessions --------------------------------
(***************************************************************************)
(* Sessions of one account and the browser that works in them: refresh     *)
(* tokens replaced at every refresh, two tabs that share one cookie,       *)
(* answers that are late or lost, and sessions that end on the server      *)
(* (modules/auth, middleware/auth.ts; of the web application lib/auth.ts,  *)
(* lib/api.ts, lib/session.ts and app/useSession.ts).                      *)
(*                                                                         *)
(* A refresh is sent with the cookie of that moment, is served in one      *)
(* transaction, and its answer is applied to the tab and the cookie: three *)
(* steps, with anything in between, in each tab.  Other requests do not    *)
(* carry the cookie's token, and are one step each.                        *)
(*                                                                         *)
(* A session's refresh tokens are numbered; the last is the unused one.    *)
(* Time is only the grace period: a replaced token is in `grace` until it  *)
(* ends, and the last token of a session is rotated no more because its    *)
(* eight hours are over.  Of a session that has ended no token matters any *)
(* more, and none is kept.  Access tokens do not expire here: the timer    *)
(* replaces them before.  Of roles and branches there is only that a       *)
(* refresh may be refused for them, or for their query failing, after its  *)
(* rotation committed.  The lockout is left out.                           *)
(***************************************************************************)
EXTENDS Integers

CONSTANTS
  Tab,         \* tabs of the browser
  MaxSessions, \* bound: sessions opened, numbered in that order
  MaxTokens,   \* refresh tokens a session has before it expires
  MaxLost      \* bound: requests and answers lost, and rotated tokens that no answer brings

ASSUME SessionsAssumption ==
  MaxSessions \in Nat /\ MaxTokens \in Nat \ {0} /\ MaxLost \in Nat

VARIABLES
  session, \* [Session -> its status, its last refresh token, and whether a token of it
           \*   outlived its grace period in the cookie or under way]
  grace,   \* tokens replaced within REUSE_GRACE_SECONDS
  cookie,  \* the browser's refresh cookie: a token, or that of no session
  tab,     \* [Tab -> session of its access token, whether it shows a signed-in page, its timer]
  req,     \* [Tab -> the refresh under way, with its answer once it was served]
  lost,    \* requests and answers lost
  unsent   \* refreshes refused after their rotation committed

sessionVars == <<session, grace, cookie, tab, req, lost, unsent>>

Session == 1..MaxSessions
NoSession == 0
Token == [s : Session \cup {NoSession}, n : 0..MaxTokens]
NoToken == [s |-> NoSession, n |-> 0]
Kind == {"none", "restore", "refresh"}
Code == {"none", "ok", "TOKEN_REVOKED", "MISSING", "DENIED"}
Quiet == [kind |-> "none", with |-> NoToken, code |-> "none", token |-> NoToken, s |-> NoSession]

SessionState == [status : {"none", "live", "ended", "token_reuse"}, last : 0..MaxTokens, late : BOOLEAN]
TabState == [access : Session \cup {NoSession}, in : BOOLEAN, timer : BOOLEAN]
Refresh == [kind : Kind, with : Token, code : Code, token : Token, s : Session \cup {NoSession}]

SessionsTypeOK ==
  /\ session \in [Session -> SessionState]
  /\ grace \subseteq Token /\ cookie \in Token
  /\ tab \in [Tab -> TabState]
  /\ req \in [Tab -> Refresh]
  /\ lost \in 0..MaxLost /\ unsent \in 0..MaxLost

Unopened == [status |-> "none", last |-> 0, late |-> FALSE]
Over == [status |-> "ended", last |-> 0, late |-> FALSE]
SignedOut == [access |-> NoSession, in |-> FALSE, timer |-> FALSE]

SessionsInit ==
  /\ session = [s \in Session |-> Unopened]
  /\ grace = {} /\ cookie = NoToken
  /\ tab = [t \in Tab |-> SignedOut]
  /\ req = [t \in Tab |-> Quiet]
  /\ lost = 0 /\ unsent = 0

-----------------------------------------------------------------------------
(* The browser sends.                                                      *)

Free(t) == req[t] = Quiet
Send(t, kind) == req' = [req EXCEPT ![t] = [Quiet EXCEPT !.kind = kind, !.with = cookie]]

\* The page is loaded again: restoreSession.
Reload(t) ==
  /\ Free(t)
  /\ tab' = [tab EXCEPT ![t] = SignedOut]
  /\ Send(t, "restore")
  /\ UNCHANGED <<session, grace, cookie, lost, unsent>>

\* scheduleRefresh's timer fires.
RefreshDue(t) ==
  /\ tab[t].timer /\ Free(t)
  /\ tab' = [tab EXCEPT ![t].timer = FALSE]
  /\ Send(t, "refresh")
  /\ UNCHANGED <<session, grace, cookie, lost, unsent>>

-----------------------------------------------------------------------------
(* The server answers.                                                     *)

Live(s) == s # NoSession /\ session[s].status = "live"

\* revokeSession
Ended(s) == [session EXCEPT ![s] = Over]

\* The grace periods of the sessions still open
Forget(s) == grace' = {token \in grace : token.s # s}

Unserved(t) == req[t].kind # "none" /\ req[t].code = "none"
Answer(t, code, token, s) ==
  req' = [req EXCEPT ![t] = [@ EXCEPT !.code = code, !.token = token, !.s = s]]
Refuse(t, code) == Answer(t, code, NoToken, NoSession)

\* Mutant: there is no grace period.
MutantNoGrace(token) == IF token.n = session[token.s].last THEN "rotate" ELSE "reuse"

\* refreshOutcome
RefreshOutcome(token) ==
  IF token.n = session[token.s].last THEN "rotate" ELSE IF token \in grace THEN "grace" ELSE "reuse"

\* sessionExpiry, checked by rotate
IsOver(s) == session[s].last = MaxTokens

Rotate(token) ==
  /\ session' = [session EXCEPT ![token.s].last = @ + 1]
  /\ grace' = grace \cup {token}

\* branchRoles refuses, or fails, once the transaction is over: its rotation stays, and no
\* answer carries the new token.
Deny(t, token, outcome) ==
  /\ Refuse(t, "DENIED")
  /\ \/ /\ outcome = "rotate" /\ ~IsOver(token.s) /\ lost + unsent < MaxLost
        /\ Rotate(token)
        /\ unsent' = unsent + 1
     \/ outcome = "grace" /\ UNCHANGED <<session, grace, unsent>>

\* refresh and rotate, with the token's row locked
ServeRefresh(t) ==
  LET token == req[t].with
      outcome == RefreshOutcome(token)
  IN /\ Unserved(t)
     /\ \/ /\ token = NoToken
           /\ Refuse(t, "MISSING")
           /\ UNCHANGED <<session, grace, unsent>>
        \/ /\ token # NoToken /\ ~Live(token.s)
           /\ Refuse(t, "TOKEN_REVOKED")
           /\ UNCHANGED <<session, grace, unsent>>
        \/ /\ Live(token.s) /\ outcome = "reuse"
           /\ session' = [session EXCEPT ![token.s].status = "token_reuse"]
           /\ Refuse(t, "TOKEN_REVOKED")
           /\ Forget(token.s) /\ UNCHANGED unsent
        \/ /\ Live(token.s) /\ outcome = "rotate" /\ ~IsOver(token.s)
           /\ Rotate(token)
           /\ Answer(t, "ok", [token EXCEPT !.n = session[token.s].last + 1], token.s)
           /\ UNCHANGED unsent
        \/ /\ Live(token.s) /\ outcome = "rotate" /\ IsOver(token.s)
           /\ session' = Ended(token.s)
           /\ Refuse(t, "TOKEN_REVOKED")
           /\ Forget(token.s) /\ UNCHANGED unsent
        \/ /\ Live(token.s) /\ outcome = "grace"
           /\ Answer(t, "ok", NoToken, token.s)
           /\ UNCHANGED <<session, grace, unsent>>
        \/ Live(token.s) /\ Deny(t, token, outcome)
     /\ UNCHANGED <<cookie, tab, lost>>

\* request: SESSION_ENDED drops the token and signs out.
OnSessionEnded(t) == [tab EXCEPT ![t] = SignedOut]

\* openSession
Login(t) ==
  /\ ~tab[t].in
  /\ \E s \in Session :
       /\ session[s].status = "none" /\ \A o \in 1..(s - 1) : session[o].status # "none"
       /\ session' = [session EXCEPT ![s].status = "live", ![s].last = 1]
       /\ cookie' = [s |-> s, n |-> 1]
       /\ tab' = [tab EXCEPT ![t] = [access |-> s, in |-> TRUE, timer |-> TRUE]]
  /\ UNCHANGED <<grace, req, lost, unsent>>

\* logout, by signOut or handleInactivityLogout: the tab is signed out whatever comes of
\* it.  Without an access token nothing is sent.
SignOut(t) ==
  LET own == tab[t].access
  IN /\ tab[t].in
     /\ tab' = [tab EXCEPT ![t] = SignedOut]
     /\ \/ /\ ~Live(own)
           /\ UNCHANGED <<session, grace, cookie, lost>>
        \/ /\ Live(own)
           /\ session' = Ended(own) /\ Forget(own)
           /\ cookie' = NoToken
           /\ UNCHANGED lost
        \/ /\ Live(own) /\ lost + unsent < MaxLost \* the answer is lost
           /\ session' = Ended(own) /\ Forget(own)
           /\ lost' = lost + 1
           /\ UNCHANGED cookie
        \/ /\ Live(own) /\ lost + unsent < MaxLost \* the request is lost
           /\ lost' = lost + 1
           /\ UNCHANGED <<session, grace, cookie>>
     /\ UNCHANGED <<req, unsent>>

\* revokeSessionsOf, but for the session that asks
OthersEnded(own) ==
  [s \in Session |-> IF s # own /\ Live(s) THEN Over ELSE session[s]]

\* Any other request: authenticate looks the session up.  Of those it accepts, only
\* changePassword does something here.
Call(t) ==
  LET own == tab[t].access
  IN /\ tab[t].in
     /\ \/ /\ Live(own) /\ session' = OthersEnded(own)
           /\ grace' = {token \in grace : token.s = own}
           /\ UNCHANGED tab
        \/ /\ own # NoSession /\ ~Live(own)
           /\ tab' = OnSessionEnded(t)
           /\ UNCHANGED <<session, grace>>
     /\ UNCHANGED <<cookie, req, lost, unsent>>

\* Its hours are over, or an administrator reset or deactivated the account.
EndElsewhere(s) ==
  /\ Live(s)
  /\ session' = Ended(s) /\ Forget(s)
  /\ UNCHANGED <<cookie, tab, req, lost, unsent>>

\* A token under way, or in the cookie
Carried(token) ==
  cookie = token \/ \E t \in Tab : Unserved(t) /\ req[t].with = token

\* REUSE_GRACE_SECONDS after a token was replaced
GraceEnds(token) ==
  /\ token \in grace
  /\ grace' = grace \ {token}
  /\ session' = [session EXCEPT ![token.s].late = @ \/ Carried(token)]
  /\ UNCHANGED <<cookie, tab, req, lost, unsent>>

-----------------------------------------------------------------------------
(* The answer arrives, or does not.                                        *)

\* A refresh that failed other than by the session's end clears the tokens and no more.
WithoutToken(t) == [tab EXCEPT ![t].access = NoSession]

\* Mutant: the next refresh is not scheduled.
MutantNotScheduled(t, s) == [tab EXCEPT ![t].access = s]

\* setAccessToken and scheduleRefresh
WithAccess(t, s) == [tab EXCEPT ![t].access = s, ![t].timer = TRUE]

Ends(t) == req' = [req EXCEPT ![t] = Quiet]

\* Mutant: the cookie is set from every answer.
MutantCookieFromAnswer(r) == r.token

\* setRefreshCookie, only with a new token
CookieAfter(r) == IF r.token = NoToken THEN cookie ELSE r.token

ApplyRefresh(t) ==
  LET r == req[t]
  IN /\ r.code # "none"
     /\ \/ /\ r.code = "ok"
           /\ cookie' = CookieAfter(r)
           /\ tab' = [WithAccess(t, r.s) EXCEPT ![t].in = @ \/ r.kind = "restore"]
        \/ r.code = "TOKEN_REVOKED" /\ cookie' = NoToken /\ tab' = OnSessionEnded(t)
        \/ r.code \in {"MISSING", "DENIED"} /\ tab' = WithoutToken(t) /\ UNCHANGED cookie
     /\ Ends(t)
     /\ UNCHANGED <<session, grace, lost, unsent>>

\* The connection breaks before a refresh is served, or before its answer arrives.
Lose(t) ==
  /\ ~Free(t) /\ lost + unsent < MaxLost
  /\ lost' = lost + 1
  /\ tab' = WithoutToken(t)
  /\ Ends(t)
  /\ UNCHANGED <<session, grace, cookie, unsent>>

-----------------------------------------------------------------------------

SessionsNext ==
  \/ \E t \in Tab :
       \/ Login(t) \/ Reload(t) \/ RefreshDue(t) \/ Call(t)
       \/ SignOut(t) \/ ServeRefresh(t) \/ ApplyRefresh(t) \/ Lose(t)
  \/ \E s \in Session : EndElsewhere(s)
  \/ \E token \in Token : GraceEnds(token)

\* Timers fire, requests are served, and answers are applied unless they are lost.
Fairness ==
  \A t \in Tab :
    /\ WF_sessionVars(RefreshDue(t))
    /\ WF_sessionVars(ServeRefresh(t))
    /\ WF_sessionVars(ApplyRefresh(t))

SessionsSpec == SessionsInit /\ [][SessionsNext]_sessionVars /\ Fairness

-----------------------------------------------------------------------------
(* Properties.                                                             *)

\* A session is not ended for a token used twice as long as answers arrive within the grace
\* period: "Two tabs can refresh at the same moment with the same cookie" (auth.policy.ts:10).
ReuseOnlyIfLate == \A s \in Session : session[s].status = "token_reuse" => session[s].late

\* The unused token of a session is in the cookie, or on its way there.
CanGoOn(s) ==
  LET unused == [s |-> s, n |-> session[s].last]
  IN cookie = unused \/ \E t \in Tab : req[t].token = unused

Alone(s) == \A o \in Session \ {s} : session[o].status = "none"

\* "The refresh token is replaced" (auth.service.ts, refresh): as long as nothing is lost, by
\* one the browser has.
LiveSessionsGoOn == \A s \in Session : Live(s) /\ Alone(s) /\ lost = 0 => CanGoOn(s)

\* While one session is open, nothing was lost and no refresh was refused after its rotation,
\* its unused token is in the cookie or on its way there, however the refreshes of the tabs,
\* their reloads, the answers and the other refusals fall: the session can go on.
SessionCanGoOn ==
  \A s \in Session : Live(s) /\ Alone(s) /\ lost = 0 /\ unsent = 0 => CanGoOn(s)

\* A tab does not keep the access token of a session that has ended: its timer or its next
\* request finds out (authenticate, rotate, request).
EndedSessionsAreDropped ==
  \A t \in Tab, s \in Session :
    (tab[t].access = s /\ ~Live(s)) ~> (tab[t].access # s)

===============================================================================
