-------------------------------- MODULE SignIn --------------------------------
(***************************************************************************)
(* How a browser is signed in: the sessions the control plane keeps in     *)
(* memory and the access tokens it refreshes (src/oidc.ts and the handlers *)
(* of /auth and /api/v1/auth), and the page that sends its requests with   *)
(* them and lets the user sign in again in a window of its own             *)
(* (ui/api-client.mjs).                                                    *)
(*                                                                         *)
(* The identity provider is external.  It replaces a session's tokens at   *)
(* every refresh and honours the last refresh token only; the generations  *)
(* 1, 2, ... of a session's tokens stand for them.  A token is aged within *)
(* 30 seconds of its end: then no code uses it without asking for another, *)
(* and the provider may or may not honour it still.                        *)
(***************************************************************************)
EXTENDS Naturals, FiniteSets

CONSTANTS
  Calls,           \* the requests of the page (apiFetch)
  Sessions, UserOf,
  Absent,
  MaxTokens,       \* bound: generations of a session's tokens
  MaxRestarts      \* bound: restarts of the control plane

ASSUME SignInConstants ==
  /\ Absent \notin Sessions \union Calls
  /\ MaxTokens \in Nat \ {0} /\ MaxRestarts \in Nat

Windows == {"popup", "tab"}
Nonces  == 1..2    \* enough for one that is pending and one in an old window
NoToken == [session |-> Absent, generation |-> 0]

VARIABLES
  \* the control plane
  discovered,  \* configPromise: "no", "yes", or "failed", which it then stays
  known,       \* the sessions of the map that have not expired
  tokens,      \* the generation a session holds
  refreshPromise,  \* of a session: the call that began the refresh, or Absent
  restarts,
  \* the provider
  honoured,    \* the generation whose refresh token it honours, 0 if none
  aged,        \* generations up to this one are aged
  \* the browser
  cookie,
  cached,      \* the token and expiresAt of the page
  call,        \* what became of each request
  nonce,       \* activeNonce, or 0
  flag,        \* recoveryFlag in localStorage
  waiters,     \* the chain of resolveRecovery
  checking,    \* checkingSession: "no", "asked", "yes", or "denied"
  window,      \* where each window is in a sign-in, and the nonce of its URL
  \* for the properties
  ended,       \* why a session is over
  lost         \* sessions a refresh of which was granted, and not answered

serverVars  == <<discovered, known, tokens, refreshPromise, restarts>>
providerVars == <<honoured, aged>>
dialogVars  == <<nonce, flag, waiters, checking>>
signInVars  == <<serverVars, providerVars, cookie, cached, call, dialogVars, window, ended, lost>>

NewCall ==
  [phase |-> "idle", stage |-> "first", cookie |-> Absent, token |-> NoToken,
   reply |-> "none", leader |-> Absent, flight |-> "none"]
Closed == [at |-> "closed", nonce |-> 0, session |-> Absent]

SignInInit ==
  /\ discovered = "no" /\ known = {} /\ restarts = 0
  /\ tokens = [s \in Sessions |-> 0] /\ refreshPromise = [s \in Sessions |-> Absent]
  /\ honoured = [s \in Sessions |-> 0] /\ aged = [s \in Sessions |-> 0]
  /\ cookie = Absent /\ cached = NoToken
  /\ call = [c \in Calls |-> NewCall]
  /\ nonce = 0 /\ flag = [n \in Nonces |-> "none"]
  /\ waiters = {} /\ checking = "no"
  /\ window = [w \in Windows |-> Closed]
  /\ ended = [s \in Sessions |-> "no"] /\ lost = {}

Fresh(t) == t # NoToken /\ t.generation > aged[t.session]
SignedIn(k) == k \in known          \* sessionFromCookie

-------------------------------------------------------------------------------
(* Signing in, in the popup of a page or in another tab.                    *)

Move(w, at) == window' = [window EXCEPT ![w].at = at]

\* The dialog's button; the window has a name, so an open popup is used again.
StartLogin ==
  /\ nonce # 0
  /\ window' = [window EXCEPT !["popup"] = [at |-> "login", nonce |-> nonce, session |-> Absent]]
  /\ UNCHANGED <<serverVars, providerVars, cookie, cached, call, dialogVars, ended, lost>>

OpenTab ==
  /\ window["tab"].at = "closed"
  /\ window' = [window EXCEPT !["tab"].at = "login"]
  /\ UNCHANGED <<serverVars, providerVars, cookie, cached, call, dialogVars, ended, lost>>

\* The promise of the discovery is kept, also when it is rejected.
Discover(found) ==
  /\ discovered # "no" => (found <=> discovered = "yes")
  /\ discovered' = IF found THEN "yes" ELSE "failed"

AskToSignIn(w) ==
  /\ window[w].at = "login"
  /\ \E found \in BOOLEAN : Discover(found) /\ Move(w, IF found THEN "provider" ELSE "unavailable")
  /\ UNCHANGED <<known, tokens, refreshPromise, restarts, providerVars, cookie, cached, call,
                 dialogVars, ended, lost>>

\* The links of the error pages: only the first returns to where it came from.
TryAgain(w) ==
  /\ window[w].at \in {"unavailable", "rejected"}
  /\ window' = [window EXCEPT ![w].at = "login",
                              ![w].nonce = IF window[w].at = "rejected" THEN 0 ELSE @]
  /\ UNCHANGED <<serverVars, providerVars, cookie, cached, call, dialogVars, ended, lost>>

\* The user signs in with the provider, which opens a grant, or does not.
Consent(w) ==
  /\ window[w].at = "provider"
  /\ \/ Move(w, "rejected")
     \/ \E s \in Sessions :
          /\ ended[s] = "no" /\ s \notin known /\ \A v \in Windows : window[v].session # s
          /\ window' = [window EXCEPT ![w].at = "callback", ![w].session = s]
  /\ UNCHANGED <<serverVars, providerVars, cookie, cached, call, dialogVars, ended, lost>>

\* The code is exchanged and the session stored before the user and the
\* invitations are written; if those writes fail the session is in the map
\* and no cookie names it.  A state that expired is refused like a lost code.
Callback(w) ==
  LET s == window[w].session IN
  /\ window[w].at = "callback"
  /\ \E found \in BOOLEAN, exchanged \in BOOLEAN, stored \in BOOLEAN :
       /\ Discover(found) /\ (stored => exchanged) /\ (exchanged => found)
       /\ known' = IF exchanged THEN known \union {s} ELSE known
       /\ tokens' = [tokens EXCEPT ![s] = IF exchanged THEN 1 ELSE 0]
       /\ honoured' = [honoured EXCEPT ![s] = IF exchanged THEN 1 ELSE 0]
       /\ ended' = [ended EXCEPT ![s] = IF exchanged THEN "no" ELSE "never begun"]
       /\ cookie' = IF stored THEN s ELSE cookie
       /\ window' = [window EXCEPT ![w].at = IF stored THEN "landed" ELSE "rejected",
                                   ![w].session = Absent]
  /\ UNCHANGED <<refreshPromise, restarts, aged, cached, call, dialogVars, lost>>

\* The page the popup lands on asks for the session if its nonce is pending.
Land(w) ==
  /\ window[w].at = "landed"
  /\ IF window[w].nonce \in {n \in Nonces : flag[n] = "pending"}
     THEN Move(w, IF SignedIn(cookie) THEN "confirmed" ELSE "stays")
     ELSE window' = [window EXCEPT ![w] = Closed]
  /\ UNCHANGED <<serverVars, providerVars, cookie, cached, call, dialogVars, ended, lost>>

Confirm ==
  LET n == window["popup"].nonce IN
  /\ window["popup"].at = "confirmed"
  /\ flag' = IF flag[n] = "pending" THEN [flag EXCEPT ![n] = "complete"] ELSE flag
  /\ window' = [window EXCEPT !["popup"] = Closed]
  /\ UNCHANGED <<serverVars, providerVars, cookie, cached, call, nonce, waiters, checking,
                 ended, lost>>

CloseWindow(w) ==
  /\ window[w].at \in {"provider", "unavailable", "rejected", "confirmed", "stays"}
  /\ window' = [window EXCEPT ![w] = Closed]
  /\ UNCHANGED <<serverVars, providerVars, cookie, cached, call, dialogVars, ended, lost>>

-------------------------------------------------------------------------------
(* The end of sessions and tokens.                                          *)

End(S, why) ==
  /\ known' = known \ S
  /\ ended' = [s \in Sessions |-> IF s \in S \intersect known THEN why ELSE ended[s]]

SignOut ==
  /\ cookie # Absent
  /\ End({cookie}, "signed out") /\ cookie' = Absent
  /\ UNCHANGED <<discovered, tokens, refreshPromise, restarts, providerVars, cached, call, dialogVars,
                 window, lost>>

\* After eight hours the map's entry counts for nothing, and the cookie goes.
SessionExpires(s) ==
  /\ s \in known
  /\ End({s}, "expired") /\ cookie' = IF cookie = s THEN Absent ELSE cookie
  /\ UNCHANGED <<discovered, tokens, refreshPromise, restarts, providerVars, cached, call, dialogVars,
                 window, lost>>

\* Whoever waits for the process is answered with an error of the network.
Restart ==
  /\ restarts < MaxRestarts
  /\ restarts' = restarts + 1 /\ discovered' = "no"
  /\ End(known, "restarted")
  /\ tokens' = [s \in Sessions |-> 0] /\ refreshPromise' = [s \in Sessions |-> Absent]
  /\ call' = [c \in Calls |->
       IF call[c].phase \in {"token sent", "token awaited", "sent"}
       THEN NewCall
       ELSE call[c]]
  /\ UNCHANGED <<providerVars, cookie, cached, dialogVars, window, lost>>

Age(s) ==
  /\ aged[s] < honoured[s] /\ honoured[s] < MaxTokens
  /\ aged' = [aged EXCEPT ![s] = honoured[s]]
  /\ UNCHANGED <<serverVars, honoured, cookie, cached, call, dialogVars, window, ended, lost>>

Withdraw(s) ==
  /\ honoured[s] # 0
  /\ honoured' = [honoured EXCEPT ![s] = 0]
  /\ UNCHANGED <<serverVars, aged, cookie, cached, call, dialogVars, window, ended, lost>>

\* A call that has returned, with whatever answer, is a NewCall.
Send(c, token) ==
  [NewCall EXCEPT !.phase = "sent", !.stage = call[c].stage, !.cookie = cookie, !.token = token]

AskForToken(c) ==
  [NewCall EXCEPT !.phase = "token sent", !.stage = call[c].stage, !.cookie = cookie]

-------------------------------------------------------------------------------
(* The dialog that asks the page's user to sign in.                         *)

\* The first call that needs a user opens the dialog, the others join it.
\* Mutant: the last call takes the place of those before it.
RecoverAlone(c, stage) ==
  /\ call' = [call EXCEPT ![c] = [NewCall EXCEPT !.phase = "waiting", !.stage = stage]]
  /\ waiters' = {c}
  /\ IF nonce # 0
     THEN UNCHANGED <<nonce, flag>>
     ELSE /\ nonce' = CHOOSE n \in Nonces : \A w \in Windows : window[w].nonce # n
          /\ flag' = [flag EXCEPT ![nonce'] = "pending"]

Recover(c, stage) ==
  /\ call' = [call EXCEPT ![c] = [NewCall EXCEPT !.phase = "waiting", !.stage = stage]]
  /\ waiters' = waiters \union {c}
  /\ IF nonce # 0
     THEN UNCHANGED <<nonce, flag>>
     ELSE /\ nonce' = CHOOSE n \in Nonces : \A w \in Windows : window[w].nonce # n
          /\ flag' = [flag EXCEPT ![nonce'] = "pending"]

AskSession ==
  /\ nonce # 0 /\ checking = "no" /\ flag[nonce] = "complete"
  /\ checking' = IF SignedIn(cookie) THEN "yes" ELSE "denied"
  /\ UNCHANGED <<serverVars, providerVars, cookie, cached, call, nonce, flag, waiters,
                 window, ended, lost>>

\* A call that was signed in asks for a token, whatever the page holds.
FinishPending(success) ==
  /\ flag' = IF nonce = 0 THEN flag ELSE [flag EXCEPT ![nonce] = "none"]
  /\ nonce' = 0 /\ waiters' = {}
  /\ call' = [c \in Calls |->
       IF c \notin waiters THEN call[c]
       ELSE IF success
       THEN AskForToken(c)
       ELSE NewCall]
  /\ cached' = IF success /\ waiters # {} THEN NoToken ELSE cached

SessionAnswered ==
  /\ checking \in {"yes", "denied"}
  /\ checking' = "no"
  /\ IF checking = "yes" /\ nonce # 0
     THEN FinishPending(TRUE)
     ELSE UNCHANGED <<nonce, flag, waiters, call, cached>>
  /\ UNCHANGED <<serverVars, providerVars, cookie, window, ended, lost>>

\* The popup is closed, if this dialog opened it; a callback that is under way
\* may be served all the same.
CancelSignIn ==
  /\ nonce # 0
  /\ FinishPending(FALSE)
  /\ \/ window' = [window EXCEPT !["popup"] = Closed]
     \/ /\ window["popup"].at = "callback" \/ window["popup"].nonce # nonce
        /\ window' = window
  /\ UNCHANGED <<serverVars, providerVars, cookie, checking, ended, lost>>

-------------------------------------------------------------------------------
(* A request of the page: a token is acquired, and the request sent.        *)

ApiFetch(c) ==
  /\ call[c].phase = "idle"
  /\ call' = [call EXCEPT ![c] = IF Fresh(cached) THEN Send(c, cached) ELSE AskForToken(c)]
  /\ UNCHANGED <<serverVars, providerVars, cookie, cached, dialogVars, window, ended, lost>>

Tell(c, reply, token) ==
  [NewCall EXCEPT !.phase = "token told", !.stage = call[c].stage, !.reply = reply, !.token = token]

\* GET /api/v1/auth/token: without a session, and with a token that lasts.
TokenAtHand(c) ==
  LET s == call[c].cookie
      t == [session |-> s, generation |-> tokens[s]] IN
  /\ call[c].phase = "token sent"
  /\ \/ /\ ~SignedIn(s)
        /\ call' = [call EXCEPT ![c] = Tell(c, "auth", NoToken)]
     \/ /\ SignedIn(s) /\ Fresh(t)
        /\ call' = [call EXCEPT ![c] = Tell(c, "ok", t)]
  /\ UNCHANGED <<serverVars, providerVars, cookie, cached, dialogVars, window, ended, lost>>

\* With a token that has aged: one refresh of the session, that all await.
\* Mutant: every request begins a refresh of its own.
RefreshesItself(c) ==
  LET s == call[c].cookie IN
  /\ refreshPromise' = [refreshPromise EXCEPT ![s] = c]
  /\ call' = [call EXCEPT ![c].phase = "token awaited", ![c].leader = c, ![c].flight = "asked",
                          ![c].token = [session |-> s, generation |-> tokens[s]]]

RefreshSessionToken(c) ==
  LET s == call[c].cookie IN
  IF refreshPromise[s] = Absent
  THEN /\ refreshPromise' = [refreshPromise EXCEPT ![s] = c]
       /\ call' = [call EXCEPT ![c].phase = "token awaited", ![c].leader = c, ![c].flight = "asked",
                               ![c].token = [session |-> s, generation |-> tokens[s]]]
  ELSE /\ call' = [call EXCEPT ![c].phase = "token awaited", ![c].leader = refreshPromise[s]]
       /\ UNCHANGED refreshPromise

AccessTokenFromCookie(c) ==
  LET s == call[c].cookie IN
  /\ call[c].phase = "token sent" /\ SignedIn(s)
  /\ ~Fresh([session |-> s, generation |-> tokens[s]])
  /\ RefreshSessionToken(c)
  /\ UNCHANGED <<discovered, known, tokens, restarts, providerVars, cookie, cached, dialogVars,
                 window, ended, lost>>

\* The provider replaces the tokens of the last refresh token, and no other.
ProviderRefreshes(c) ==
  LET t == call[c].token IN
  /\ call[c].flight = "asked"
  /\ IF honoured[t.session] = t.generation
     THEN /\ honoured' = [honoured EXCEPT ![t.session] = t.generation + 1]
          /\ call' = [call EXCEPT ![c].flight = "granted"]
     ELSE /\ call' = [call EXCEPT ![c].flight = "refused"]
          /\ UNCHANGED honoured
  /\ UNCHANGED <<serverVars, aged, cookie, cached, dialogVars, window, ended, lost>>

\* The refresh is over for all that await it.
Settle(c, reply, token) ==
  LET s == call[c].token.session IN
  /\ call' = [d \in Calls |->
       IF call[d].phase # "token awaited" \/ call[d].leader # c THEN call[d]
       ELSE Tell(d, reply, token)]
  /\ refreshPromise' = [refreshPromise EXCEPT ![s] = Absent]

Refreshed(c) ==
  LET s == call[c].token.session
      t == [session |-> s, generation |-> call[c].token.generation + 1] IN
  /\ call[c].flight = "granted"
  /\ Settle(c, "ok", t)
  /\ tokens' = [tokens EXCEPT ![s] = t.generation]
  /\ UNCHANGED <<discovered, known, restarts, providerVars, cookie, cached, dialogVars, window,
                 ended, lost>>

\* Those that awaited it delete the session their cookie names.
RefreshRefused(c) ==
  /\ call[c].flight = "refused"
  /\ Settle(c, "auth", NoToken)
  /\ End({call[c].token.session}, "refused")
  /\ UNCHANGED <<discovered, tokens, restarts, providerVars, cookie, cached, dialogVars, window, lost>>

\* The provider is out of reach, or its answer is lost or incomplete: 503.
RefreshUnavailable(c) ==
  /\ call[c].flight \in {"asked", "granted"}
  /\ Settle(c, "unavailable", NoToken)
  /\ lost' = IF call[c].flight = "granted" THEN lost \union {call[c].token.session} ELSE lost
  /\ UNCHANGED <<discovered, known, tokens, restarts, providerVars, cookie, cached, dialogVars,
                 window, ended>>

\* The page has an answer about its token.
TokenTold(c) ==
  LET told == call[c].reply IN
  /\ call[c].phase = "token told"
  /\ cached' = CASE told = "ok"   -> call[c].token
                 [] told = "auth" -> NoToken
                 [] OTHER         -> cached
  /\ \/ /\ told = "ok"
        /\ call' = [call EXCEPT ![c] = Send(c, call[c].token)]
        /\ UNCHANGED <<nonce, flag, waiters>>
     \/ /\ told = "auth" /\ call[c].stage = "first"
        /\ Recover(c, "again")
     \/ \* after a sign-in the request goes out, if need be without a token
        /\ told = "unavailable" /\ call[c].stage = "again"
        /\ call' = [call EXCEPT ![c] = Send(c, NoToken)]
        /\ UNCHANGED <<nonce, flag, waiters>>
     \/ /\ \/ told = "unavailable" /\ call[c].stage # "again"
           \/ told = "auth" /\ call[c].stage # "first"
        /\ call' = [call EXCEPT ![c] = NewCall]
        /\ UNCHANGED <<nonce, flag, waiters>>
  /\ UNCHANGED <<serverVars, providerVars, cookie, checking, window, ended, lost>>

\* RequestAuthorizer.resolve: a session and a token must name one user; a
\* token the provider does not answer for is refused, session or not.
Verdicts(c) ==
  LET s == call[c].cookie
      t == call[c].token IN
  IF t = NoToken
  THEN {IF SignedIn(s) THEN "ok" ELSE "auth"}
  ELSE (IF honoured[t.session] # 0 /\ discovered # "failed"
        THEN {IF SignedIn(s) /\ UserOf[s] # UserOf[t.session] THEN "mismatch" ELSE "ok"}
        ELSE {})
       \union {"invalid"}

\* Checking a token needs the provider's configuration too.
Resolve(c) ==
  /\ call[c].phase = "sent"
  /\ \E verdict \in Verdicts(c) :
       /\ call' = [call EXCEPT ![c] =
            [NewCall EXCEPT !.phase = "answered", !.stage = call[c].stage, !.reply = verdict]]
       /\ IF call[c].token # NoToken /\ discovered = "no"
          THEN \/ discovered' = "yes"
               \/ verdict = "invalid" /\ discovered' = "failed"
          ELSE UNCHANGED discovered
  /\ UNCHANGED <<known, tokens, refreshPromise, restarts, providerVars, cookie, cached, dialogVars,
                 window, ended, lost>>

Answered(c) ==
  /\ call[c].phase = "answered"
  /\ IF call[c].reply = "auth" /\ call[c].stage # "retry"
     THEN Recover(c, "retry")
     ELSE /\ call' = [call EXCEPT ![c] = NewCall]
          /\ UNCHANGED <<nonce, flag, waiters>>
  /\ UNCHANGED <<serverVars, providerVars, cookie, cached, checking, window, ended, lost>>

SignInNext ==
  \/ StartLogin \/ OpenTab \/ Confirm
  \/ \E w \in Windows :
       AskToSignIn(w) \/ TryAgain(w) \/ Consent(w) \/ Callback(w) \/ Land(w) \/ CloseWindow(w)
  \/ SignOut \/ Restart \/ AskSession \/ SessionAnswered \/ CancelSignIn
  \/ \E s \in Sessions : SessionExpires(s) \/ Age(s) \/ Withdraw(s)
  \/ \E c \in Calls :
       \/ ApiFetch(c) \/ TokenAtHand(c) \/ AccessTokenFromCookie(c) \/ ProviderRefreshes(c)
       \/ Refreshed(c) \/ RefreshRefused(c) \/ RefreshUnavailable(c) \/ TokenTold(c)
       \/ Resolve(c) \/ Answered(c)

SignInSpec == SignInInit /\ [][SignInNext]_signInVars

-------------------------------------------------------------------------------
(* Properties.                                                              *)

\* Sessions, tokens and the dialog have the shape the code gives them.
SignInTypeOK ==
  /\ discovered \in {"no", "yes", "failed"} /\ known \subseteq Sessions
  /\ cookie \in Sessions \union {Absent} /\ waiters \subseteq Calls
  /\ nonce \in Nonces \union {0}
  /\ \A s \in Sessions :
       /\ tokens[s] \in 0..MaxTokens /\ honoured[s] \in 0..MaxTokens /\ aged[s] \in 0..MaxTokens
       /\ refreshPromise[s] \in Calls \union {Absent}

\* A session ends when its user signs out, after eight hours, with the process,
\* or because the provider refused to refresh it, and then the provider had
\* withdrawn it, or an answer that carried its tokens was lost: never because
\* two requests of a page asked for its token at once.  No refresh that was
\* under way when it ended brings it back.
EndsForCause(s) ==
  /\ ended[s] = "refused" => honoured[s] = 0 \/ s \in lost
  /\ ended[s] # "no" => s \notin known

SessionsEndForAReason == \A s \in Sessions : EndsForCause(s)

\* Every request that needs a user is answered when the dialog is: the
\* requests that wait are those the open dialog will resume, and none waits
\* behind a dialog that is closed.
NobodyLeftWaiting ==
  /\ waiters = {c \in Calls : call[c].phase = "waiting"}
  /\ nonce = 0 => waiters = {}
===============================================================================
