----------------------------- MODULE LiveProofs -----------------------------
(***************************************************************************)
(* Theorems of SignIn, of LiveUpdates and of RunPages, which share no      *)
(* state.                                                                  *)
(*                                                                         *)
(* SignIn, for any number of requests, sessions, refreshes and restarts:   *)
(* its type invariant, that sessions end for a reason, and that no request *)
(* waits behind a closed dialog.                                           *)
(*                                                                         *)
(* LiveUpdates, for any number of jobs, claims, workspaces, devices and    *)
(* streams: that a device is told once of a job, and of an outcome which   *)
(* stands unless it was written over, that a runner's stream carries its   *)
(* workspaces, and that whoever runs jobs hears of those it may run.       *)
(*                                                                         *)
(* RunPages, for any number of runs, requests and changes: that a page     *)
(* shows no answer that was overtaken, and that no event is lost to a      *)
(* request that was open when it came.                                     *)
(***************************************************************************)
EXTENDS LiveUpdates, RunPages, SignIn, FiniteSetTheorems, TLAPS

-----------------------------------------------------------------------------
(* SignIn: the invariant.                                                  *)

\* What a page, a window and a request hold.
Kept == [session : Sessions \union {Absent}, generation : 0..MaxTokens]
CallStates ==
  [phase : {"idle", "token sent", "token awaited", "token told", "waiting", "sent", "answered"},
   stage : {"first", "again", "retry"}, cookie : Sessions \union {Absent}, token : Kept,
   reply : {"none", "ok", "auth", "unavailable", "mismatch", "invalid"},
   leader : Calls \union {Absent}, flight : {"none", "asked", "granted", "refused"}]
WindowStates ==
  [at : {"closed", "login", "provider", "unavailable", "rejected", "callback", "landed", "confirmed", "stays"},
   nonce : Nonces \union {0}, session : Sessions \union {Absent}]
Causes == {"no", "never begun", "signed out", "expired", "restarted", "refused"}

\* The control plane and the provider; the last token that the model allows
\* does not age.
ServerTypes ==
  /\ discovered \in {"no", "yes", "failed"} /\ known \subseteq Sessions
  /\ tokens \in [Sessions -> 0..MaxTokens] /\ honoured \in [Sessions -> 0..MaxTokens]
  /\ aged \in [Sessions -> 0..(MaxTokens - 1)]
  /\ refreshPromise \in [Sessions -> Calls \union {Absent}]
  /\ ended \in [Sessions -> Causes] /\ lost \subseteq Sessions
\* The page and its dialog; only the dialog's window has a nonce.
BrowserTypes ==
  /\ cookie \in Sessions \union {Absent} /\ cached \in Kept
  /\ nonce \in Nonces \union {0} /\ flag \in [Nonces -> {"none", "pending", "complete"}]
  /\ waiters \subseteq Calls /\ checking \in {"no", "asked", "yes", "denied"}
WindowTypes == window \in [Windows -> WindowStates] /\ window["tab"].nonce = 0
CallTypes == call \in [Calls -> CallStates]
SignInTypes == ServerTypes /\ BrowserTypes /\ WindowTypes /\ CallTypes

\* A session is begun by the callback that stores it, and never again.
Begun(s) == s \in known \/ ended[s] # "no"
\* The provider honours no token of it, or an answer with its tokens was lost.
Excused(s) == honoured[s] = 0 \/ s \in lost

\* A session holds the tokens the provider honours, unless a refresh is under
\* way or it is excused; one that is not begun holds none.
SessionOK(s) ==
  /\ s \in known => tokens[s] # 0
  /\ s \in known /\ refreshPromise[s] = Absent => honoured[s] = tokens[s] \/ Excused(s)
  /\ ~Begun(s) => honoured[s] = 0 /\ tokens[s] = 0 /\ refreshPromise[s] = Absent

\* A refresh is the one its session has, for the token the session holds, and is
\* refused only when the session is excused.
InFlight(c) == call[c].flight # "none"
Flight(c) ==
  LET s == call[c].token.session
      g == call[c].token.generation
  IN  /\ call[c].phase = "token awaited" /\ call[c].leader = c
      /\ s \in Sessions /\ refreshPromise[s] = c /\ Begun(s)
      /\ g # 0 /\ g <= aged[s] /\ tokens[s] = g
      /\ call[c].flight = "asked" => honoured[s] = g \/ Excused(s)
      /\ call[c].flight = "granted" => honoured[s] = g + 1 \/ Excused(s)
      /\ call[c].flight = "refused" => Excused(s)
FlightOK(c) == InFlight(c) => Flight(c)
\* A promise is that of the refresh its session has.
PromiseOK(s) ==
  LET c == refreshPromise[s] IN c # Absent => InFlight(c) /\ call[c].token.session = s

\* A callback brings a session that is not begun and that no other window has.
CallbackOK(v) ==
  LET s == window[v].session
  IN  window[v].at = "callback" =>
        /\ s \in Sessions /\ ~Begun(s)
        /\ \A u \in Windows : window[u].session = s => u = v

SessionsOK ==
  /\ \A s \in Sessions : SessionOK(s) /\ PromiseOK(s) /\ EndsForCause(s)
  /\ \A c \in Calls : FlightOK(c)
SignInInv == SignInTypes /\ SessionsOK /\ (\A v \in Windows : CallbackOK(v)) /\ NobodyLeftWaiting

-----------------------------------------------------------------------------
(* SignIn: types.                                                          *)

\* A request that is in some phase and has no refresh.
Resting(p) == {r \in CallStates : r.phase = p /\ r.flight = "none"}

\* What requests become is well typed, and but for those that begin a refresh or
\* join one, they rest.
LEMMA CallFacts ==
  ASSUME SignInTypes, NEW c \in Calls, NEW t \in Kept
  PROVE  /\ NoToken \in Kept
         /\ NewCall \in Resting("idle")
         /\ Send(c, t) \in Resting("sent")
         /\ AskForToken(c) \in Resting("token sent")
         /\ \A reply \in {"ok", "auth", "unavailable"} : Tell(c, reply, t) \in Resting("token told")
         /\ \A stage \in {"again", "retry"} :
              [NewCall EXCEPT !.phase = "waiting", !.stage = stage] \in Resting("waiting")
         /\ \A reply \in {"ok", "auth", "mismatch", "invalid"} :
              [NewCall EXCEPT !.phase = "answered", !.stage = call[c].stage, !.reply = reply]
                \in Resting("answered")
<1> USE SignInConstants DEF CallStates, Resting
<1>1. NoToken \in Kept
  BY DEF NoToken, Kept
<1>2. call[c].stage \in {"first", "again", "retry"} /\ cookie \in Sessions \union {Absent}
  BY DEF SignInTypes, BrowserTypes, CallTypes
<1>3. NewCall \in Resting("idle")
  BY <1>1 DEF NewCall
<1>4. Send(c, t) \in Resting("sent")
  BY <1>1, <1>2 DEF Send, NewCall
<1>5. AskForToken(c) \in Resting("token sent")
  BY <1>1, <1>2 DEF AskForToken, NewCall
<1>6. ASSUME NEW reply \in {"ok", "auth", "unavailable"} PROVE Tell(c, reply, t) \in Resting("token told")
  BY <1>1, <1>2 DEF Tell, NewCall
<1>7. ASSUME NEW stage \in {"again", "retry"}
      PROVE  [NewCall EXCEPT !.phase = "waiting", !.stage = stage] \in Resting("waiting")
  BY <1>1 DEF NewCall
<1>8. ASSUME NEW reply \in {"ok", "auth", "mismatch", "invalid"}
      PROVE  [NewCall EXCEPT !.phase = "answered", !.stage = call[c].stage, !.reply = reply] \in Resting("answered")
  BY <1>1, <1>2 DEF NewCall
<1>9. QED
  BY <1>1, <1>3, <1>4, <1>5, <1>6, <1>7, <1>8

\* What a request that refreshes becomes.
LEMMA RefreshFacts ==
  ASSUME SignInTypes, NEW c \in Calls, NEW l \in Calls, NEW t \in Kept
  PROVE  /\ \A f \in {"granted", "refused"} :
              LET r == [call[c] EXCEPT !.flight = f]
              IN  /\ r \in CallStates /\ r.flight = f /\ r.phase = call[c].phase
                  /\ r.leader = call[c].leader /\ r.token = call[c].token
         /\ LET r == [call[c] EXCEPT !.phase = "token awaited", !.leader = l, !.flight = "asked", !.token = t]
            IN  /\ r \in CallStates /\ r.flight = "asked" /\ r.phase = "token awaited"
                /\ r.leader = l /\ r.token = t
         /\ LET r == [call[c] EXCEPT !.phase = "token awaited", !.leader = l]
            IN  r \in CallStates /\ r.flight = call[c].flight /\ r.phase = "token awaited"
<1>1. call[c] \in CallStates
  BY DEF SignInTypes, CallTypes
<1>2. QED
  BY <1>1 DEF CallStates

\* Fields of the states.
LEMMA FieldFacts ==
  ASSUME SignInTypes, NEW c \in Calls
  PROVE  /\ call[c].cookie \in Sessions \union {Absent} /\ call[c].leader \in Calls \union {Absent}
         /\ call[c].token \in Kept /\ call[c].token.session \in Sessions \union {Absent}
         /\ call[c].token.generation \in 0..MaxTokens
         /\ call[c].stage \in {"first", "again", "retry"}
BY DEF SignInTypes, CallTypes, CallStates, Kept

\* The control plane and the provider keep their types: a refresh that was granted was
\* for a token that had aged, and so not the last.
LEMMA ServerTyped == SignInInv /\ SignInNext => ServerTypes'
<1> SUFFICES ASSUME SignInInv, SignInNext PROVE ServerTypes'
  OBVIOUS
<1> USE SignInConstants DEF SignInTypes, ServerTypes
<1>know. SignInTypes /\ \A c \in Calls : FlightOK(c)
  BY DEF SignInInv, SessionsOK
<1>ends. ASSUME NEW S, NEW why \in Causes, End(S, why)
         PROVE  known' \subseteq Sessions /\ ended' \in [Sessions -> Causes]
  BY <1>ends, <1>know DEF End
<1>1. ASSUME NEW w \in Windows, AskToSignIn(w) PROVE ServerTypes'
  <2>1. discovered' \in {"no", "yes", "failed"}
    BY <1>1 DEF AskToSignIn, Discover
  <2>2. QED
    BY <1>1, <1>know, <2>1 DEF AskToSignIn, providerVars
<1>2. ASSUME NEW w \in Windows, Callback(w) PROVE ServerTypes'
  <2> DEFINE s == window[w].session
  <2>1. PICK found \in BOOLEAN, exchanged \in BOOLEAN, stored \in BOOLEAN :
           /\ Discover(found) /\ (stored => exchanged) /\ (exchanged => found)
           /\ known' = IF exchanged THEN known \union {s} ELSE known
           /\ tokens' = [tokens EXCEPT ![s] = IF exchanged THEN 1 ELSE 0]
           /\ honoured' = [honoured EXCEPT ![s] = IF exchanged THEN 1 ELSE 0]
           /\ ended' = [ended EXCEPT ![s] = IF exchanged THEN "no" ELSE "never begun"]
    BY <1>2 DEF Callback
  <2>2. s \in Sessions
    BY <1>2, <1>know DEF Callback, SignInInv, CallbackOK
  <2> HIDE DEF s
  <2>3. discovered' \in {"no", "yes", "failed"} /\ known' \subseteq Sessions
    BY <1>know, <2>1, <2>2 DEF Discover
  <2>4. tokens' \in [Sessions -> 0..MaxTokens] /\ honoured' \in [Sessions -> 0..MaxTokens]
    <3>1. 0 \in 0..MaxTokens /\ 1 \in 0..MaxTokens
      OBVIOUS
    <3>2. QED
      BY <1>know, <2>1, <2>2, <3>1
  <2>5. ended' \in [Sessions -> Causes]
    BY <1>know, <2>1, <2>2 DEF Causes
  <2>6. QED
    BY <1>2, <1>know, <2>3, <2>4, <2>5 DEF Callback
<1>3. ASSUME SignOut PROVE ServerTypes'
  <2>1. known' \subseteq Sessions /\ ended' \in [Sessions -> Causes]
    BY <1>3, <1>know, <1>ends DEF SignOut, Causes
  <2>2. QED
    BY <1>3, <1>know, <2>1 DEF SignOut, providerVars
<1>4. ASSUME Restart PROVE ServerTypes'
  <2>1. known' \subseteq Sessions /\ ended' \in [Sessions -> Causes]
    BY <1>4, <1>know, <1>ends DEF Restart, Causes
  <2>2. tokens' \in [Sessions -> 0..MaxTokens] /\ refreshPromise' \in [Sessions -> Calls \union {Absent}]
    <3>1. 0 \in 0..MaxTokens
      OBVIOUS
    <3>2. QED
      BY <1>4, <3>1 DEF Restart
  <2>3. QED
    BY <1>4, <1>know, <2>1, <2>2 DEF Restart, providerVars
<1>5. ASSUME NEW s \in Sessions, SessionExpires(s) PROVE ServerTypes'
  <2>1. known' \subseteq Sessions /\ ended' \in [Sessions -> Causes]
    BY <1>5, <1>know, <1>ends DEF SessionExpires, Causes
  <2>2. QED
    BY <1>5, <1>know, <2>1 DEF SessionExpires, providerVars
<1>6. ASSUME NEW s \in Sessions, Age(s) PROVE ServerTypes'
  <2>1. honoured[s] \in 0..(MaxTokens - 1)
    BY <1>6, <1>know DEF Age
  <2>2. aged' \in [Sessions -> 0..(MaxTokens - 1)]
    BY <1>6, <1>know, <2>1 DEF Age
  <2>3. QED
    BY <1>6, <1>know, <2>2 DEF Age, serverVars
<1>7. ASSUME NEW s \in Sessions, Withdraw(s) PROVE ServerTypes'
  <2>1. honoured' \in [Sessions -> 0..MaxTokens]
    BY <1>7, <1>know DEF Withdraw
  <2>2. QED
    BY <1>7, <1>know, <2>1 DEF Withdraw, serverVars
<1>8. ASSUME NEW c \in Calls, AccessTokenFromCookie(c) PROVE ServerTypes'
  <2>1. refreshPromise' \in [Sessions -> Calls \union {Absent}]
    BY <1>8, <1>know DEF AccessTokenFromCookie, RefreshSessionToken
  <2>2. QED
    BY <1>8, <1>know, <2>1 DEF AccessTokenFromCookie, providerVars
<1>9. ASSUME NEW c \in Calls, ProviderRefreshes(c) PROVE ServerTypes'
  <2> DEFINE s == call[c].token.session
             g == call[c].token.generation
  <2>1. s \in Sessions /\ g \in Nat /\ g + 1 \in 0..MaxTokens
    <3>1. Flight(c)
      BY <1>9, <1>know DEF ProviderRefreshes, FlightOK, InFlight
    <3>2. g \in 0..MaxTokens /\ s \in Sessions /\ g <= aged[s]
      BY <3>1, <1>know, FieldFacts DEF Flight
    <3>3. aged[s] \in Nat /\ aged[s] + 1 <= MaxTokens
      BY <1>know, <3>2
    <3>4. QED
      BY <3>2, <3>3
  <2>2. honoured' = honoured \/ honoured' = [honoured EXCEPT ![s] = g + 1]
    BY <1>9 DEF ProviderRefreshes
  <2>3. honoured' \in [Sessions -> 0..MaxTokens]
    BY <1>know, <2>1, <2>2
  <2>4. QED
    BY <1>9, <1>know, <2>3 DEF ProviderRefreshes, serverVars
<1>10. ASSUME NEW c \in Calls, Refreshed(c) PROVE ServerTypes'
  <2> DEFINE s == call[c].token.session
             g == call[c].token.generation
  <2>1. s \in Sessions /\ g \in Nat /\ g + 1 \in 0..MaxTokens
    <3>1. Flight(c)
      BY <1>10, <1>know DEF Refreshed, FlightOK, InFlight
    <3>2. g \in 0..MaxTokens /\ s \in Sessions /\ g <= aged[s]
      BY <3>1, <1>know, FieldFacts DEF Flight
    <3>3. aged[s] \in Nat /\ aged[s] + 1 <= MaxTokens
      BY <1>know, <3>2
    <3>4. QED
      BY <3>2, <3>3
  <2>2. tokens' = [tokens EXCEPT ![s] = g + 1]
    BY <1>10 DEF Refreshed
  <2>3. tokens' \in [Sessions -> 0..MaxTokens]
    BY <1>know, <2>1, <2>2
  <2>4. refreshPromise' \in [Sessions -> Calls \union {Absent}]
    BY <1>10, <1>know DEF Refreshed, Settle
  <2>5. QED
    BY <1>10, <1>know, <2>3, <2>4 DEF Refreshed, providerVars
<1>11. ASSUME NEW c \in Calls, RefreshRefused(c) PROVE ServerTypes'
  <2>1. refreshPromise' \in [Sessions -> Calls \union {Absent}]
    BY <1>11, <1>know DEF RefreshRefused, Settle
  <2>2. known' \subseteq Sessions /\ ended' \in [Sessions -> Causes]
    BY <1>11, <1>know, <1>ends DEF RefreshRefused, Causes
  <2>3. QED
    BY <1>11, <1>know, <2>1, <2>2 DEF RefreshRefused, providerVars
<1>12. ASSUME NEW c \in Calls, RefreshUnavailable(c) PROVE ServerTypes'
  <2>1. refreshPromise' \in [Sessions -> Calls \union {Absent}]
    BY <1>12, <1>know DEF RefreshUnavailable, Settle
  <2>2. lost' \subseteq Sessions
    BY <1>12, <1>know DEF RefreshUnavailable, FlightOK, Flight, InFlight
  <2>3. QED
    BY <1>12, <1>know, <2>1, <2>2 DEF RefreshUnavailable, providerVars
<1>13. ASSUME NEW c \in Calls, Resolve(c) PROVE ServerTypes'
  <2>1. discovered' \in {"no", "yes", "failed"}
    BY <1>13, <1>know DEF Resolve
  <2>2. QED
    BY <1>13, <1>know, <2>1 DEF Resolve, providerVars
<1>14. CASE UNCHANGED <<serverVars, providerVars, ended, lost>>
  BY <1>14, <1>know DEF ServerTypes, serverVars, providerVars
<1>15. QED
  BY <1>1, <1>2, <1>3, <1>4, <1>5, <1>6, <1>7, <1>8, <1>9, <1>10, <1>11, <1>12, <1>13, <1>14
     DEF SignInNext, StartLogin, OpenTab, Confirm, TryAgain, Consent, Land, CloseWindow, AskSession,
         SessionAnswered, CancelSignIn, ApiFetch, TokenAtHand, TokenTold, Answered

\* The page and its dialog keep their types: of two nonces one is free.
LEMMA BrowserTyped == SignInInv /\ SignInNext => BrowserTypes'
<1> SUFFICES ASSUME SignInInv, SignInNext PROVE BrowserTypes'
  OBVIOUS
<1> USE SignInConstants DEF SignInTypes, BrowserTypes, dialogVars
<1>know. SignInTypes /\ \A c \in Calls : FlightOK(c)
  BY DEF SignInInv, SessionsOK
<1>nonce. \E n \in Nonces : \A w \in Windows : window[w].nonce # n
  BY <1>know DEF SignInTypes, WindowTypes, WindowStates, Windows, Nonces
<1>recover. ASSUME NEW c \in Calls, NEW stage, Recover(c, stage)
            PROVE  /\ nonce' \in Nonces \union {0} /\ waiters' \subseteq Calls
                   /\ flag' \in [Nonces -> {"none", "pending", "complete"}]
  BY <1>recover, <1>know, <1>nonce DEF Recover, SignInTypes, BrowserTypes
<1>finish. ASSUME NEW success \in BOOLEAN, FinishPending(success)
           PROVE  /\ nonce' \in Nonces \union {0} /\ waiters' \subseteq Calls /\ cached' \in Kept
                  /\ flag' \in [Nonces -> {"none", "pending", "complete"}]
  BY <1>finish, <1>know DEF FinishPending, SignInTypes, BrowserTypes, Kept, NoToken
<1>1. ASSUME Confirm PROVE BrowserTypes'
  <2>1. flag' \in [Nonces -> {"none", "pending", "complete"}]
    BY <1>1, <1>know DEF Confirm
  <2>2. QED
    BY <1>1, <1>know, <2>1 DEF Confirm
<1>2. ASSUME NEW w \in Windows, Callback(w) PROVE BrowserTypes'
  <2>1. window[w].session \in Sessions
    BY <1>2, <1>know DEF Callback, SignInInv, CallbackOK
  <2>3. cookie' \in Sessions \union {Absent}
    BY <1>2, <1>know, <2>1 DEF Callback
  <2>2. QED
    BY <1>2, <1>know, <2>3 DEF Callback, dialogVars
<1>3. ASSUME SignOut PROVE BrowserTypes'
  BY <1>3, <1>know DEF SignOut, End
<1>4. ASSUME NEW s \in Sessions, SessionExpires(s) PROVE BrowserTypes'
  BY <1>4, <1>know DEF SessionExpires, End
<1>5. ASSUME AskSession PROVE BrowserTypes'
  BY <1>5, <1>know DEF AskSession
<1>6. ASSUME SessionAnswered PROVE BrowserTypes'
  BY <1>6, <1>know, <1>finish DEF SessionAnswered
<1>7. ASSUME CancelSignIn PROVE BrowserTypes'
  BY <1>7, <1>know, <1>finish DEF CancelSignIn
<1>8. ASSUME NEW c \in Calls, TokenTold(c) PROVE BrowserTypes'
  <2>1. cached' \in Kept
    <3>1. NoToken \in Kept /\ call[c].token \in Kept
      BY <1>know, CallFacts, FieldFacts
    <3>2. QED
      BY <1>8, <1>know, <3>1 DEF TokenTold
  <2>2. /\ nonce' \in Nonces \union {0} /\ waiters' \subseteq Calls
        /\ flag' \in [Nonces -> {"none", "pending", "complete"}]
    BY <1>8, <1>know, <1>recover DEF TokenTold
  <2>3. QED
    BY <1>8, <1>know, <2>1, <2>2 DEF TokenTold
<1>9. ASSUME NEW c \in Calls, Answered(c) PROVE BrowserTypes'
  <2>1. /\ nonce' \in Nonces \union {0} /\ waiters' \subseteq Calls
        /\ flag' \in [Nonces -> {"none", "pending", "complete"}]
    BY <1>9, <1>know, <1>recover DEF Answered
  <2>2. QED
    BY <1>9, <1>know, <2>1 DEF Answered
<1>10. CASE UNCHANGED <<cookie, cached, nonce, flag, waiters, checking>>
  BY <1>10, <1>know DEF BrowserTypes
<1>11. QED
  BY <1>1, <1>2, <1>3, <1>4, <1>5, <1>6, <1>7, <1>8, <1>9, <1>10
     DEF SignInNext, StartLogin, OpenTab, AskToSignIn, TryAgain, Consent, Land, CloseWindow, Restart,
         Age, Withdraw, ApiFetch, TokenAtHand, AccessTokenFromCookie, ProviderRefreshes, Refreshed,
         RefreshRefused, RefreshUnavailable, Resolve

\* Windows keep their types, and a callback its session: only the callback itself
\* begins a session, and no other window has that.
LEMMA WindowKept == SignInInv /\ SignInNext => WindowTypes' /\ \A v \in Windows : CallbackOK(v)'
<1> DEFINE Goal == WindowTypes' /\ \A v \in Windows : CallbackOK(v)'
           At(w, place) == [window[w] EXCEPT !.at = place]
<1> SUFFICES ASSUME SignInInv, SignInNext PROVE Goal
  OBVIOUS
<1>know. /\ SignInTypes /\ \A v \in Windows : CallbackOK(v)
         /\ \A w \in Windows : window[w] \in WindowStates /\ (w = "tab" => window[w].nonce = 0)
         /\ window \in [Windows -> WindowStates] /\ nonce \in Nonces \union {0}
  BY DEF SignInInv, SignInTypes, WindowTypes, BrowserTypes
<1>at. ASSUME NEW w \in Windows,
              NEW place \in {"closed", "login", "provider", "unavailable", "rejected", "landed", "confirmed", "stays"}
       PROVE  /\ At(w, place) \in WindowStates /\ At(w, place).at = place
              /\ At(w, place).session = window[w].session /\ At(w, place).nonce = window[w].nonce
  BY <1>know DEF WindowStates
<1>closed. Closed \in WindowStates /\ Closed.at = "closed" /\ Closed.session = Absent /\ Closed.nonce = 0
  BY DEF Closed, WindowStates
<1>put. ASSUME NEW w \in Windows, NEW r \in WindowStates, window' = [window EXCEPT ![w] = r],
               w = "tab" => r.nonce = 0
        PROVE  WindowTypes' /\ \A u \in Windows : window'[u] = IF u = w THEN r ELSE window[u]
  BY <1>put, <1>know DEF WindowTypes, Windows
<1>move. ASSUME NEW w \in Windows, NEW r \in WindowStates, window' = [window EXCEPT ![w] = r],
                w = "tab" => r.nonce = 0, r.at # "callback", r.session \in {window[w].session, Absent},
                \A s \in Sessions : Begun(s)' => Begun(s)
         PROVE  Goal
  <2>1. WindowTypes' /\ \A u \in Windows : window'[u] = IF u = w THEN r ELSE window[u]
    BY <1>move, <1>put
  <2>2. ASSUME NEW v \in Windows PROVE CallbackOK(v)'
    <3>1. CASE v = w
      BY <1>move, <2>1, <3>1 DEF CallbackOK
    <3>2. CASE v # w
      BY <1>know, <1>move, <2>1, <3>2, SignInConstants DEF CallbackOK
    <3>3. QED
      BY <3>1, <3>2
  <2>3. QED
    BY <2>1, <2>2
<1>stay. ASSUME window' = window, \A s \in Sessions : Begun(s)' => Begun(s)
         PROVE  Goal
  BY <1>know, <1>stay DEF CallbackOK, WindowTypes, SignInTypes
<1>ends. ASSUME NEW S, NEW why, End(S, why) PROVE \A s \in Sessions : Begun(s)' => Begun(s)
  BY <1>ends, <1>know DEF End, Begun
<1>begun. known' = known /\ ended' = ended => \A s \in Sessions : Begun(s)' => Begun(s)
  BY DEF Begun
<1> HIDE DEF Goal, At
<1>1. ASSUME StartLogin PROVE Goal
  <2> DEFINE r == [at |-> "login", nonce |-> nonce, session |-> Absent]
  <2>1. "popup" \in Windows /\ r \in WindowStates /\ r.at = "login" /\ r.session = Absent
    BY <1>know DEF Windows, WindowStates
  <2>2. window' = [window EXCEPT !["popup"] = r] /\ known' = known /\ ended' = ended
    BY <1>1 DEF StartLogin, serverVars
  <2> HIDE DEF r
  <2>3. QED
    BY <1>begun, <1>move, <2>1, <2>2
<1>2. ASSUME OpenTab PROVE Goal
  <2>1. "tab" \in Windows
    BY DEF Windows
  <2>2. window' = [window EXCEPT !["tab"] = At("tab", "login")] /\ known' = known /\ ended' = ended
    BY <1>2 DEF OpenTab, serverVars, At
  <2>3. /\ At("tab", "login") \in WindowStates /\ At("tab", "login").nonce = 0
        /\ At("tab", "login").at = "login" /\ At("tab", "login").session = window["tab"].session
    BY <1>at, <1>know, <2>1
  <2>4. QED
    BY <1>begun, <1>move, <2>1, <2>2, <2>3
<1>3. ASSUME Confirm PROVE Goal
  <2>1. "popup" \in Windows
    BY DEF Windows
  <2>2. window' = [window EXCEPT !["popup"] = Closed] /\ known' = known /\ ended' = ended
    BY <1>3 DEF Confirm, serverVars
  <2>3. QED
    BY <1>begun, <1>closed, <1>move, <2>1, <2>2
<1>4. ASSUME NEW w \in Windows, AskToSignIn(w) PROVE Goal
  <2>1. PICK place \in {"provider", "unavailable"} : window' = [window EXCEPT ![w] = At(w, place)]
    BY <1>4 DEF AskToSignIn, Move, At
  <2>2. known' = known /\ ended' = ended
    BY <1>4 DEF AskToSignIn
  <2>3. /\ At(w, place) \in WindowStates /\ At(w, place).at = place
        /\ At(w, place).session = window[w].session /\ At(w, place).nonce = window[w].nonce
    BY <1>at
  <2>4. QED
    BY <1>begun, <1>know, <1>move, <2>1, <2>2, <2>3
<1>5. ASSUME NEW w \in Windows, TryAgain(w) PROVE Goal
  <2> DEFINE n == IF window[w].at = "rejected" THEN 0 ELSE window[w].nonce
             r == [window[w] EXCEPT !.at = "login", !.nonce = n]
  <2>1. r \in WindowStates /\ r.at = "login" /\ r.session = window[w].session /\ r.nonce = n
    BY <1>know DEF WindowStates
  <2>2. window' = [window EXCEPT ![w] = r] /\ known' = known /\ ended' = ended
    BY <1>5 DEF TryAgain, serverVars
  <2>3. w = "tab" => n = 0
    BY <1>know
  <2> HIDE DEF r, n
  <2>4. QED
    BY <1>begun, <1>move, <2>1, <2>2, <2>3
<1>6. ASSUME NEW w \in Windows, Consent(w) PROVE Goal
  <2>1. known' = known /\ ended' = ended
    BY <1>6 DEF Consent, serverVars
  <2>2. ASSUME Move(w, "rejected") PROVE Goal
    <3>1. window' = [window EXCEPT ![w] = At(w, "rejected")]
      BY <2>2 DEF Move, At
    <3>2. /\ At(w, "rejected") \in WindowStates /\ At(w, "rejected").at = "rejected"
          /\ At(w, "rejected").session = window[w].session /\ At(w, "rejected").nonce = window[w].nonce
      BY <1>at
    <3>3. QED
      BY <1>begun, <1>know, <1>move, <2>1, <3>1, <3>2
  <2>3. ASSUME NEW s \in Sessions, ended[s] = "no", s \notin known, \A v \in Windows : window[v].session # s,
               window' = [window EXCEPT ![w].at = "callback", ![w].session = s]
        PROVE  Goal
    <3> DEFINE r == [window[w] EXCEPT !.at = "callback", !.session = s]
    <3>1. r \in WindowStates /\ r.at = "callback" /\ r.session = s /\ r.nonce = window[w].nonce
      BY <1>know DEF WindowStates
    <3>2. window' = [window EXCEPT ![w] = r]
      BY <2>3
    <3> HIDE DEF r
    <3>3. WindowTypes' /\ \A u \in Windows : window'[u] = IF u = w THEN r ELSE window[u]
      BY <1>know, <1>put, <3>1, <3>2
    <3>4. ~Begun(s) /\ \A q \in Sessions : Begun(q)' <=> Begun(q)
      BY <2>1, <2>3 DEF Begun
    <3>5. ASSUME NEW v \in Windows PROVE CallbackOK(v)'
      <4>1. CASE v = w
        BY <2>3, <3>1, <3>3, <3>4, <4>1 DEF CallbackOK
      <4>2. CASE v # w
        BY <1>know, <2>3, <3>1, <3>3, <3>4, <4>2 DEF CallbackOK
      <4>3. QED
        BY <4>1, <4>2
    <3>6. QED
      BY <3>3, <3>5 DEF Goal
  <2>4. QED
    BY <1>6, <2>2, <2>3 DEF Consent
<1>7. ASSUME NEW w \in Windows, Callback(w) PROVE Goal
  <2> DEFINE s == window[w].session
  <2>1. PICK place \in {"landed", "rejected"} :
           window' = [window EXCEPT ![w] = [window[w] EXCEPT !.at = place, !.session = Absent]]
    BY <1>7 DEF Callback
  <2> DEFINE r == [window[w] EXCEPT !.at = place, !.session = Absent]
  <2>2. r \in WindowStates /\ r.at = place /\ r.session = Absent /\ r.nonce = window[w].nonce
    BY <1>know DEF WindowStates
  <2>3. window' = [window EXCEPT ![w] = r]
    BY <2>1
  <2> HIDE DEF r
  <2>4. WindowTypes' /\ \A u \in Windows : window'[u] = IF u = w THEN r ELSE window[u]
    BY <1>know, <1>put, <2>2, <2>3
  <2>5. s \in Sessions /\ \A u \in Windows : window[u].session = s => u = w
    BY <1>7, <1>know DEF Callback, CallbackOK
  <2>6. \A q \in Sessions : q # s => (Begun(q)' => Begun(q))
    <3>1. known' \subseteq known \union {s} /\ \E why : ended' = [ended EXCEPT ![s] = why]
      BY <1>7 DEF Callback
    <3>2. ended \in [Sessions -> Causes]
      BY <1>know DEF SignInTypes, ServerTypes
    <3>3. QED
      BY <2>5, <3>1, <3>2 DEF Begun
  <2> HIDE DEF s
  <2>7. ASSUME NEW v \in Windows PROVE CallbackOK(v)'
    <3>1. CASE v = w
      BY <2>2, <2>4, <3>1 DEF CallbackOK
    <3>2. CASE v # w
      BY <1>know, <2>2, <2>4, <2>5, <2>6, <3>2, SignInConstants DEF CallbackOK
    <3>3. QED
      BY <3>1, <3>2
  <2>8. QED
    BY <2>4, <2>7 DEF Goal
<1>8. ASSUME NEW w \in Windows, Land(w) PROVE Goal
  <2>1. known' = known /\ ended' = ended
    BY <1>8 DEF Land, serverVars
  <2>2. \/ window' = [window EXCEPT ![w] = Closed]
        \/ \E place \in {"confirmed", "stays"} : window' = [window EXCEPT ![w] = At(w, place)]
    BY <1>8 DEF Land, Move, At
  <2>3. \A place \in {"confirmed", "stays"} :
           /\ At(w, place) \in WindowStates /\ At(w, place).at = place
           /\ At(w, place).session = window[w].session /\ At(w, place).nonce = window[w].nonce
    BY <1>at
  <2>4. ASSUME window' = [window EXCEPT ![w] = Closed] PROVE Goal
    BY <1>begun, <1>closed, <1>move, <2>1, <2>4
  <2>5. ASSUME NEW place \in {"confirmed", "stays"}, window' = [window EXCEPT ![w] = At(w, place)] PROVE Goal
    BY <1>begun, <1>know, <1>move, <2>1, <2>3, <2>5
  <2>6. QED
    BY <2>2, <2>4, <2>5
<1>9. ASSUME NEW w \in Windows, CloseWindow(w) PROVE Goal
  <2>1. window' = [window EXCEPT ![w] = Closed] /\ known' = known /\ ended' = ended
    BY <1>9 DEF CloseWindow, serverVars
  <2>2. QED
    BY <1>begun, <1>closed, <1>move, <2>1
<1>10. ASSUME SignOut PROVE Goal
  BY <1>10, <1>ends, <1>stay DEF SignOut
<1>11. ASSUME Restart PROVE Goal
  BY <1>11, <1>ends, <1>stay DEF Restart
<1>12. ASSUME CancelSignIn PROVE Goal
  <2>1. "popup" \in Windows
    BY DEF Windows
  <2>2. known' = known /\ ended' = ended /\ (window' = window \/ window' = [window EXCEPT !["popup"] = Closed])
    BY <1>12 DEF CancelSignIn, serverVars
  <2>3. QED
    BY <1>begun, <1>closed, <1>move, <1>stay, <2>1, <2>2
<1>13. ASSUME NEW s \in Sessions, SessionExpires(s) PROVE Goal
  BY <1>13, <1>ends, <1>stay DEF SessionExpires
<1>14. ASSUME NEW c \in Calls, RefreshRefused(c) PROVE Goal
  BY <1>14, <1>ends, <1>stay DEF RefreshRefused
<1>15. ASSUME UNCHANGED <<window, known, ended>> PROVE Goal
  BY <1>15, <1>begun, <1>stay
<1>16. QED
  BY <1>1, <1>2, <1>3, <1>4, <1>5, <1>6, <1>7, <1>8, <1>9, <1>10, <1>11, <1>12, <1>13, <1>14, <1>15
     DEF SignInNext, AskSession, SessionAnswered, Age, Withdraw, ApiFetch, TokenAtHand,
         AccessTokenFromCookie, ProviderRefreshes, Refreshed, RefreshUnavailable, TokenTold, Resolve,
         Answered, serverVars

\* A step that is calm begins no session and no refresh, and ends none but for a cause.
Calm ==
  /\ \A d \in Calls : InFlight(d) \/ InFlight(d)' => call'[d] = call[d]
  /\ tokens' = tokens /\ refreshPromise' = refreshPromise /\ lost' = lost
  /\ known' \subseteq known
  /\ \A s \in Sessions :
       /\ aged[s] <= aged'[s] /\ honoured'[s] \in {honoured[s], 0}
       /\ \/ ended'[s] = ended[s] /\ (s \in known => s \in known')
          \/ s \in known \ known' /\ ended'[s] \notin {"no", "refused"}

\* Calm steps keep sessions and refreshes.
LEMMA CalmKept ==
  ASSUME SignInInv, ServerTypes', Calm
  PROVE  SessionsOK'
<1>know. /\ \A s \in Sessions : SessionOK(s) /\ PromiseOK(s) /\ EndsForCause(s)
         /\ \A c \in Calls : FlightOK(c)
         /\ refreshPromise \in [Sessions -> Calls \union {Absent}]
         /\ \A s \in Sessions : aged[s] \in Nat /\ aged'[s] \in Nat
  BY SignInConstants DEF SignInInv, SessionsOK, SignInTypes, ServerTypes
<1>1. \A s \in Sessions : Begun(s)' <=> Begun(s)
  BY DEF Calm, Begun
<1>2. \A s \in Sessions : Excused(s) => Excused(s)'
  BY DEF Calm, Excused
<1>3. \A d \in Calls : InFlight(d)' <=> InFlight(d)
  BY DEF Calm, InFlight
<1>4. ASSUME NEW s \in Sessions PROVE SessionOK(s)'
  BY <1>know, <1>1, <1>2 DEF SessionOK, Calm, Excused
<1>5. ASSUME NEW s \in Sessions PROVE PromiseOK(s)'
  BY <1>know, <1>3 DEF PromiseOK, Calm
<1>6. ASSUME NEW s \in Sessions PROVE EndsForCause(s)'
  BY <1>know DEF EndsForCause, Calm
<1>7. ASSUME NEW d \in Calls PROVE FlightOK(d)'
  <2>1. SUFFICES ASSUME InFlight(d)' PROVE Flight(d)'
    BY DEF FlightOK
  <2>2. Flight(d) /\ call'[d] = call[d]
    BY <1>know, <1>3, <2>1 DEF FlightOK, Calm
  <2>s. PICK s \in Sessions, g \in Nat : s = call[d].token.session /\ g = call[d].token.generation
    <3>1. call[d].token.session \in Sessions
      BY <2>2 DEF Flight
    <3>2. call[d].token.generation \in Nat
      BY FieldFacts, SignInConstants DEF SignInInv
    <3>3. QED
      BY <3>1, <3>2
  <2>3. s \in Sessions /\ g <= aged[s] /\ (g # 0 /\ tokens[s] = g /\ refreshPromise[s] = d /\ Begun(s))
    BY <2>2, <2>s DEF Flight
  <2>5. g <= aged'[s]
    BY <1>know, <2>3 DEF Calm
  <2>6. honoured'[s] = honoured[s] \/ honoured'[s] = 0
    BY <2>3 DEF Calm
  <2>7. Excused(s) => Excused(s)'
    BY <1>2, <2>3
  <2>8. honoured'[s] = 0 => Excused(s)'
    BY DEF Excused
  <2>9. /\ call[d].flight = "asked" => honoured[s] = g \/ Excused(s)
        /\ call[d].flight = "granted" => honoured[s] = g + 1 \/ Excused(s)
        /\ call[d].flight = "refused" => Excused(s)
        /\ call[d].phase = "token awaited" /\ call[d].leader = d
    BY <2>2, <2>s DEF Flight
  <2>10. /\ call[d].flight = "asked" => honoured'[s] = g \/ Excused(s)'
         /\ call[d].flight = "granted" => honoured'[s] = g + 1 \/ Excused(s)'
         /\ call[d].flight = "refused" => Excused(s)'
    BY <2>6, <2>7, <2>8, <2>9
  <2>11. Begun(s)' /\ tokens'[s] = g /\ refreshPromise'[s] = d
    BY <1>1, <2>3 DEF Calm
  <2>12. QED
    BY <2>s, <2>2, <2>3, <2>5, <2>9, <2>10, <2>11 DEF Flight
<1>8. QED
  BY <1>4, <1>5, <1>6, <1>7 DEF SessionsOK

\* The refresh of a request is over: those that awaited it are told, and the others
\* go on.
LEMMA Settled ==
  ASSUME SignInInv, NEW c \in Calls, InFlight(c), NEW reply \in {"ok", "auth", "unavailable"}, NEW t \in Kept,
         Settle(c, reply, t)
  PROVE  /\ CallTypes' /\ ~InFlight(c)' /\ Flight(c)
         /\ \A d \in Calls : InFlight(d)' => InFlight(d) /\ d # c
         /\ \A d \in Calls : d # c /\ InFlight(d) =>
              call'[d] = call[d] /\ call[d].token.session # call[c].token.session
         /\ call[c].token.session \in Sessions /\ refreshPromise[call[c].token.session] = c
         /\ refreshPromise' = [refreshPromise EXCEPT ![call[c].token.session] = Absent]
         /\ waiters \subseteq Calls => \A d \in Calls : call'[d].phase = "waiting" <=> call[d].phase = "waiting"
<1>know. /\ SignInTypes /\ \A d \in Calls : FlightOK(d)
         /\ call \in [Calls -> CallStates]
  BY DEF SignInInv, SessionsOK, SignInTypes, CallTypes
<1>1. \A d \in Calls : InFlight(d) => Flight(d) /\ call[d].leader = d /\ call[d].phase = "token awaited"
                                      /\ refreshPromise[call[d].token.session] = d
  BY <1>know DEF FlightOK, Flight
<1>2. \A d \in Calls : call'[d] = IF call[d].phase # "token awaited" \/ call[d].leader # c
                                  THEN call[d] ELSE Tell(d, reply, t)
  BY DEF Settle
<1>3. \A d \in Calls : Tell(d, reply, t) \in Resting("token told")
  BY <1>know, CallFacts
<1>4. CallTypes'
  BY <1>know, <1>2, <1>3 DEF CallTypes, Resting, Settle
<1>5. \A d \in Calls : InFlight(d)' => InFlight(d) /\ d # c
  <2> SUFFICES ASSUME NEW d \in Calls, InFlight(d)' PROVE InFlight(d) /\ d # c
    OBVIOUS
  <2>1. call'[d].flight # "none"
    BY DEF InFlight
  <2>2. Tell(d, reply, t).flight = "none"
    BY <1>3 DEF Resting
  <2>3. call'[d] = call[d] /\ (call[d].phase # "token awaited" \/ call[d].leader # c)
    BY <1>2, <2>1, <2>2
  <2>4. d # c
    BY <1>1, <2>3
  <2>5. QED
    BY <2>1, <2>3, <2>4 DEF InFlight
<1>6. \A d \in Calls : d # c /\ InFlight(d) =>
        call'[d] = call[d] /\ call[d].token.session # call[c].token.session
  <2> SUFFICES ASSUME NEW d \in Calls, d # c, InFlight(d)
               PROVE  call'[d] = call[d] /\ call[d].token.session # call[c].token.session
    OBVIOUS
  <2>1. call[d].leader = d /\ refreshPromise[call[d].token.session] = d
    BY <1>1
  <2>2. refreshPromise[call[c].token.session] = c
    BY <1>1
  <2>3. QED
    BY <1>2, <2>1, <2>2
<1>7. \A d \in Calls : call'[d].phase = "waiting" <=> call[d].phase = "waiting"
  BY <1>2, <1>3 DEF Resting
<1>8. call[c].token.session \in Sessions
  BY <1>1 DEF Flight
<1>9. refreshPromise' = [refreshPromise EXCEPT ![call[c].token.session] = Absent]
  BY DEF Settle
<1>10. QED
  BY <1>1, <1>4, <1>5, <1>6, <1>7, <1>8, <1>9


-----------------------------------------------------------------------------
(* SignIn: what becomes of requests.                                       *)

Stages == {"again", "retry"}
\* A request that neither waits nor has a refresh.
Moves(c) == call[c].phase \notin {"token awaited", "waiting"}

\* A request without a refresh moves, and the refreshes of the others stand.
FlightsStand == \A d \in Calls : InFlight(d) \/ InFlight(d)' => call'[d] = call[d]
LEMMA PutAtRest ==
  ASSUME SignInInv, NEW c \in Calls, Moves(c), NEW p, NEW r \in Resting(p), call' = [call EXCEPT ![c] = r]
  PROVE  /\ CallTypes' /\ FlightsStand /\ call'[c].phase = p
         /\ \A d \in Calls : d # c => call'[d] = call[d]
<1>1. call \in [Calls -> CallStates] /\ ~InFlight(c)
  BY DEF SignInInv, SignInTypes, CallTypes, SessionsOK, FlightOK, Flight, Moves
<1>2. r \in CallStates /\ r.phase = p /\ r.flight = "none"
  BY DEF Resting
<1>3. CallTypes'
  BY <1>1, <1>2 DEF CallTypes
<1>4. \A d \in Calls : call'[d] = IF d = c THEN r ELSE call[d]
  BY <1>1
<1>5. FlightsStand
  BY <1>1, <1>2, <1>4 DEF FlightsStand, InFlight
<1>6. QED
  BY <1>2, <1>3, <1>4, <1>5

\* Those that wait are the dialog's, whatever request moves elsewhere.
LEMMA PutElsewhere ==
  ASSUME SignInInv, NEW c \in Calls, Moves(c), NEW p, p # "waiting",
         NEW r \in Resting(p), call' = [call EXCEPT ![c] = r], nonce' = nonce, waiters' = waiters
  PROVE  CallTypes' /\ FlightsStand /\ NobodyLeftWaiting'
<1>1. /\ CallTypes' /\ FlightsStand /\ call'[c].phase = p
      /\ \A d \in Calls : d # c => call'[d] = call[d]
  BY PutAtRest
<1>2. QED
  BY <1>1 DEF SignInInv, NobodyLeftWaiting, Moves

\* A request that needs a user waits for the dialog, which is open from then on.
LEMMA Recovered ==
  ASSUME SignInInv, NEW c \in Calls, Moves(c), NEW stage \in Stages, Recover(c, stage)
  PROVE  CallTypes' /\ FlightsStand /\ NobodyLeftWaiting'
<1> DEFINE r == [NewCall EXCEPT !.phase = "waiting", !.stage = stage]
<1>1. SignInTypes /\ NoToken \in Kept
  <2>1. SignInTypes
    BY DEF SignInInv
  <2>2. NoToken \in Kept
    BY SignInConstants DEF NoToken, Kept
  <2>3. QED
    BY <2>1, <2>2
<1>2. r \in Resting("waiting")
  BY <1>1, CallFacts DEF Stages
<1>3. call' = [call EXCEPT ![c] = r] /\ waiters' = waiters \union {c}
  BY DEF Recover
<1> HIDE DEF r
<1>4. /\ CallTypes' /\ FlightsStand /\ call'[c].phase = "waiting"
      /\ \A d \in Calls : d # c => call'[d] = call[d]
  BY <1>2, <1>3, PutAtRest
<1>5. nonce' # 0
  <2>1. \E n \in Nonces : \A w \in Windows : window[w].nonce # n
    <3>1. window["tab"].nonce = 0
      BY <1>1 DEF SignInTypes, WindowTypes
    <3>2. \E n \in Nonces : n # window["popup"].nonce /\ n # 0
      BY DEF Nonces
    <3>3. QED
      BY <3>1, <3>2 DEF Windows
  <2>2. CASE nonce = 0
    <3>1. nonce' = CHOOSE n \in Nonces : \A w \in Windows : window[w].nonce # n
      BY <2>2 DEF Recover
    <3>2. nonce' \in Nonces
      BY <2>1, <3>1
    <3>3. QED
      BY <3>2 DEF Nonces
  <2>3. CASE nonce # 0
    BY <2>3 DEF Recover
  <2>4. QED
    BY <2>2, <2>3
<1>6. QED
  BY <1>3, <1>4, <1>5 DEF SignInInv, NobodyLeftWaiting

\* When the dialog is over, all that waited go on.
LEMMA Finished ==
  ASSUME SignInInv, NEW success \in BOOLEAN, FinishPending(success)
  PROVE  CallTypes' /\ FlightsStand /\ NobodyLeftWaiting'
<1>1. SignInTypes /\ NoToken \in Kept /\ waiters = {d \in Calls : call[d].phase = "waiting"}
  <2>1. SignInTypes /\ waiters = {d \in Calls : call[d].phase = "waiting"}
    BY DEF SignInInv, NobodyLeftWaiting
  <2>2. NoToken \in Kept
    BY SignInConstants DEF NoToken, Kept
  <2>3. QED
    BY <2>1, <2>2
<1>2. call \in [Calls -> CallStates] /\ \A d \in Calls : InFlight(d) => call[d].phase = "token awaited"
  BY DEF SignInInv, SignInTypes, CallTypes, SessionsOK, FlightOK, Flight
<1>3. \A d \in Calls : /\ NewCall \in CallStates /\ NewCall.flight = "none" /\ NewCall.phase = "idle"
                       /\ AskForToken(d) \in CallStates /\ AskForToken(d).flight = "none"
                       /\ AskForToken(d).phase = "token sent"
  BY <1>1, CallFacts DEF Resting
<1>4. /\ call' = [d \in Calls |-> IF d \notin waiters THEN call[d] ELSE IF success THEN AskForToken(d) ELSE NewCall]
      /\ waiters' = {}
  BY DEF FinishPending
<1>5. CallTypes'
  BY <1>2, <1>3, <1>4 DEF CallTypes
<1>6. \A d \in Calls : IF call[d].phase = "waiting"
                       THEN call'[d].flight = "none" /\ call'[d].phase # "waiting"
                       ELSE call'[d] = call[d]
  BY <1>1, <1>3, <1>4
<1>7. FlightsStand
  BY <1>2, <1>6 DEF FlightsStand, InFlight
<1>8. NobodyLeftWaiting'
  BY <1>4, <1>6 DEF NobodyLeftWaiting
<1>9. QED
  BY <1>5, <1>7, <1>8

\* A step of a refresh, or the end of all refreshes.
Refreshes ==
  \/ Restart
  \/ \E c \in Calls : \/ AccessTokenFromCookie(c) \/ ProviderRefreshes(c) \/ Refreshed(c)
                      \/ RefreshRefused(c) \/ RefreshUnavailable(c)

\* Requests keep their types, those that wait are the dialog's, and but for the steps
\* of a refresh the refreshes stand.
LEMMA CallsKept ==
  SignInInv /\ SignInNext => CallTypes' /\ NobodyLeftWaiting' /\ (FlightsStand \/ Refreshes)
<1> DEFINE Goal == CallTypes' /\ NobodyLeftWaiting' /\ (FlightsStand \/ Refreshes)
<1> SUFFICES ASSUME SignInInv, SignInNext PROVE Goal
  OBVIOUS
<1>know. /\ SignInTypes /\ NoToken \in Kept /\ NobodyLeftWaiting
         /\ \A c \in Calls : FlightOK(c)
         /\ call \in [Calls -> CallStates]
  BY SignInConstants DEF SignInInv, SessionsOK, SignInTypes, CallTypes, NoToken, Kept
<1>calls. \A c \in Calls : call[c].token \in Kept /\ call[c] \in CallStates
  BY <1>know, FieldFacts
<1>1. ASSUME NEW c \in Calls, ApiFetch(c) PROVE Goal
  <2> DEFINE r == IF Fresh(cached) THEN Send(c, cached) ELSE AskForToken(c)
             p == IF Fresh(cached) THEN "sent" ELSE "token sent"
  <2>1. r \in Resting(p) /\ p # "waiting"
    BY <1>know, CallFacts DEF SignInTypes, BrowserTypes
  <2>2. call' = [call EXCEPT ![c] = r] /\ nonce' = nonce /\ waiters' = waiters /\ call[c].phase = "idle"
    BY <1>1 DEF ApiFetch, dialogVars
  <2> HIDE DEF r, p
  <2>3. QED
    BY <2>1, <2>2, PutElsewhere DEF Moves
<1>2. ASSUME NEW c \in Calls, TokenAtHand(c) PROVE Goal
  <2> DEFINE s == call[c].cookie
             t == [session |-> s, generation |-> tokens[s]]
  <2>1. SignedIn(s) => t \in Kept
    BY <1>know DEF SignedIn, SignInTypes, ServerTypes, Kept
  <2>2. \E r \in Resting("token told") : call' = [call EXCEPT ![c] = r]
    <3>1. CASE ~SignedIn(s)
      BY <1>2, <1>know, <3>1, CallFacts DEF TokenAtHand
    <3>2. CASE SignedIn(s)
      <4>1. Tell(c, "ok", t) \in Resting("token told")
        BY <1>know, <2>1, <3>2, CallFacts
      <4>2. call' = [call EXCEPT ![c] = Tell(c, "ok", t)]
        BY <1>2, <3>2 DEF TokenAtHand
      <4>3. QED
        BY <4>1, <4>2
    <3>3. QED
      BY <3>1, <3>2
  <2>3. nonce' = nonce /\ waiters' = waiters /\ call[c].phase = "token sent"
    BY <1>2 DEF TokenAtHand, dialogVars
  <2>4. QED
    BY <2>2, <2>3, PutElsewhere DEF Moves
<1>3. ASSUME NEW c \in Calls, TokenTold(c) PROVE Goal
  <2>1. call[c].phase = "token told"
    BY <1>3 DEF TokenTold
  <2>2. \/ \E stage \in {"again", "retry"} : Recover(c, stage)
        \/ nonce' = nonce /\ waiters' = waiters /\ call' = [call EXCEPT ![c] = Send(c, call[c].token)]
        \/ nonce' = nonce /\ waiters' = waiters /\ call' = [call EXCEPT ![c] = Send(c, NoToken)]
        \/ nonce' = nonce /\ waiters' = waiters /\ call' = [call EXCEPT ![c] = NewCall]
    BY <1>3 DEF TokenTold
  <2>3. /\ Send(c, call[c].token) \in Resting("sent") /\ Send(c, NoToken) \in Resting("sent")
        /\ NewCall \in Resting("idle")
    BY <1>know, <1>calls, CallFacts
  <2>4. QED
    BY <2>1, <2>2, <2>3, PutElsewhere, Recovered DEF Moves, Stages
<1>4. ASSUME NEW c \in Calls, Resolve(c) PROVE Goal
  <2>1. PICK verdict \in Verdicts(c) :
           call' = [call EXCEPT ![c] =
              [NewCall EXCEPT !.phase = "answered", !.stage = call[c].stage, !.reply = verdict]]
    BY <1>4 DEF Resolve
  <2>2. verdict \in {"ok", "auth", "mismatch", "invalid"}
    BY DEF Verdicts
  <2>3. [NewCall EXCEPT !.phase = "answered", !.stage = call[c].stage, !.reply = verdict] \in Resting("answered")
    BY <1>know, <2>2, CallFacts
  <2>4. call[c].phase = "sent" /\ nonce' = nonce /\ waiters' = waiters
    BY <1>4 DEF Resolve, dialogVars
  <2>5. QED
    BY <2>1, <2>3, <2>4, PutElsewhere DEF Moves
<1>5. ASSUME NEW c \in Calls, Answered(c) PROVE Goal
  <2>1. call[c].phase = "answered"
    BY <1>5 DEF Answered
  <2>2. \/ \E stage \in {"again", "retry"} : Recover(c, stage)
        \/ nonce' = nonce /\ waiters' = waiters /\ call' = [call EXCEPT ![c] = NewCall]
    BY <1>5 DEF Answered
  <2>3. NewCall \in Resting("idle")
    BY <1>know, CallFacts
  <2>4. QED
    BY <2>1, <2>2, <2>3, PutElsewhere, Recovered DEF Moves, Stages
<1>6. ASSUME SessionAnswered PROVE Goal
  <2>1. CASE checking = "yes" /\ nonce # 0
    BY <1>6, <2>1, Finished DEF SessionAnswered
  <2>2. CASE ~(checking = "yes" /\ nonce # 0)
    BY <1>6, <1>know, <2>2 DEF SessionAnswered, FlightsStand, NobodyLeftWaiting, CallTypes
  <2>3. QED
    BY <2>1, <2>2
<1>7. ASSUME CancelSignIn PROVE Goal
  BY <1>7, Finished DEF CancelSignIn
<1>8. ASSUME Restart PROVE Goal
  <2>1. NewCall \in CallStates /\ NewCall.phase = "idle"
    BY <1>know, CallFacts, FieldFacts DEF NewCall, CallStates, SignInConstants
  <2>2. /\ call' = [d \in Calls |-> IF call[d].phase \in {"token sent", "token awaited", "sent"}
                                    THEN NewCall ELSE call[d]]
        /\ nonce' = nonce /\ waiters' = waiters
    BY <1>8 DEF Restart, dialogVars
  <2>3. CallTypes'
    BY <1>know, <2>1, <2>2 DEF CallTypes
  <2>4. \A d \in Calls : call'[d].phase = "waiting" <=> call[d].phase = "waiting"
    BY <2>1, <2>2
  <2>5. QED
    BY <1>8, <1>know, <2>2, <2>3, <2>4 DEF NobodyLeftWaiting, Refreshes
<1>9. ASSUME NEW c \in Calls, AccessTokenFromCookie(c) PROVE Goal
  <2> DEFINE s == call[c].cookie
             t == [session |-> s, generation |-> tokens[s]]
  <2>1. s \in Sessions /\ t \in Kept /\ call[c].phase = "token sent"
    BY <1>9, <1>know DEF AccessTokenFromCookie, SignedIn, SignInTypes, ServerTypes, Kept
  <2>2. \E r \in CallStates : r.phase = "token awaited" /\ call' = [call EXCEPT ![c] = r]
    <3>1. CASE refreshPromise[s] = Absent
      <4> DEFINE r == [call[c] EXCEPT !.phase = "token awaited", !.leader = c, !.flight = "asked", !.token = t]
      <4>1. r \in CallStates /\ r.phase = "token awaited"
        BY <1>calls, <2>1 DEF CallStates
      <4>2. call' = [call EXCEPT ![c] = r]
        BY <1>9, <3>1 DEF AccessTokenFromCookie, RefreshSessionToken
      <4>3. QED
        BY <4>1, <4>2
    <3>2. CASE refreshPromise[s] # Absent
      <4> DEFINE l == refreshPromise[s]
                 r == [call[c] EXCEPT !.phase = "token awaited", !.leader = l]
      <4>1. l \in Calls
        BY <1>know, <2>1, <3>2 DEF SignInTypes, ServerTypes
      <4>2. r \in CallStates /\ r.phase = "token awaited"
        BY <1>calls, <4>1 DEF CallStates
      <4>3. call' = [call EXCEPT ![c] = r]
        BY <1>9, <3>2 DEF AccessTokenFromCookie, RefreshSessionToken
      <4>4. QED
        BY <4>2, <4>3
    <3>3. QED
      BY <3>1, <3>2
  <2>3. CallTypes' /\ \A d \in Calls : call'[d].phase = "waiting" <=> call[d].phase = "waiting"
    BY <1>know, <2>1, <2>2 DEF CallTypes
  <2>4. QED
    BY <1>9, <1>know, <2>3 DEF NobodyLeftWaiting, Refreshes, AccessTokenFromCookie, dialogVars
<1>10. ASSUME NEW c \in Calls, ProviderRefreshes(c) PROVE Goal
  <2>1. PICK f \in {"granted", "refused"} : call' = [call EXCEPT ![c] = [call[c] EXCEPT !.flight = f]]
    BY <1>10 DEF ProviderRefreshes
  <2>2. [call[c] EXCEPT !.flight = f] \in CallStates /\ [call[c] EXCEPT !.flight = f].phase = call[c].phase
    BY <1>calls DEF CallStates
  <2>3. CallTypes' /\ \A d \in Calls : call'[d].phase = "waiting" <=> call[d].phase = "waiting"
    BY <1>know, <2>1, <2>2 DEF CallTypes
  <2>4. QED
    BY <1>10, <1>know, <2>3 DEF NobodyLeftWaiting, Refreshes, ProviderRefreshes, dialogVars
<1>settle. ASSUME NEW c \in Calls, InFlight(c), NEW reply \in {"ok", "auth", "unavailable"}, NEW t \in Kept,
                  Settle(c, reply, t), nonce' = nonce, waiters' = waiters
           PROVE  CallTypes' /\ NobodyLeftWaiting'
  <2>1. /\ CallTypes'
        /\ waiters \subseteq Calls => \A d \in Calls : call'[d].phase = "waiting" <=> call[d].phase = "waiting"
    BY <1>settle, Settled
  <2>2. waiters \subseteq Calls
    BY <1>know DEF NobodyLeftWaiting
  <2>3. QED
    BY <1>know, <1>settle, <2>1, <2>2 DEF NobodyLeftWaiting
<1>11. ASSUME NEW c \in Calls, Refreshed(c) PROVE Goal
  <2> DEFINE s == call[c].token.session
             t == [session |-> s, generation |-> call[c].token.generation + 1]
  <2>1. InFlight(c) /\ nonce' = nonce /\ waiters' = waiters /\ Settle(c, "ok", t)
    BY <1>11 DEF Refreshed, InFlight, dialogVars
  <2>2. t \in Kept
    <3>1. Flight(c) /\ SignInTypes
      BY <1>know, <2>1 DEF FlightOK
    <3>2. s \in Sessions /\ aged[s] \in 0..(MaxTokens - 1) /\ call[c].token.generation <= aged[s]
      BY <3>1 DEF Flight, SignInTypes, ServerTypes
    <3>3. call[c].token.generation \in 0..MaxTokens
      BY <1>know, FieldFacts
    <3>4. call[c].token.generation + 1 \in 0..MaxTokens
      BY <3>2, <3>3, SignInConstants
    <3>5. QED
      BY <3>2, <3>4 DEF Kept
  <2> HIDE DEF t
  <2>3. CallTypes' /\ NobodyLeftWaiting'
    BY <1>settle, <2>1, <2>2
  <2>4. QED
    BY <1>11, <2>3 DEF Refreshes
<1>12. ASSUME NEW c \in Calls, RefreshRefused(c) PROVE Goal
  <2>1. InFlight(c) /\ nonce' = nonce /\ waiters' = waiters /\ Settle(c, "auth", NoToken)
    BY <1>12 DEF RefreshRefused, InFlight, dialogVars
  <2>2. CallTypes' /\ NobodyLeftWaiting'
    BY <1>know, <1>settle, <2>1
  <2>3. QED
    BY <1>12, <2>2 DEF Refreshes
<1>13. ASSUME NEW c \in Calls, RefreshUnavailable(c) PROVE Goal
  <2>1. InFlight(c) /\ nonce' = nonce /\ waiters' = waiters /\ Settle(c, "unavailable", NoToken)
    BY <1>13 DEF RefreshUnavailable, InFlight, dialogVars
  <2>2. CallTypes' /\ NobodyLeftWaiting'
    BY <1>know, <1>settle, <2>1
  <2>3. QED
    BY <1>13, <2>2 DEF Refreshes
<1>14. ASSUME UNCHANGED <<call, nonce, waiters>> PROVE Goal
  BY <1>14, <1>know DEF FlightsStand, NobodyLeftWaiting, CallTypes
<1>15. QED
  BY <1>1, <1>2, <1>3, <1>4, <1>5, <1>6, <1>7, <1>8, <1>9, <1>10, <1>11, <1>12, <1>13, <1>14
     DEF SignInNext, StartLogin, OpenTab, Confirm, AskToSignIn, TryAgain, Consent, Callback, Land, CloseWindow,
         AskSession, SignOut, SessionExpires, Age, Withdraw, dialogVars

-----------------------------------------------------------------------------
(* SignIn: sessions and their refreshes.                                   *)

\* A step leaves a session alone.
Same(q) ==
  /\ q \in known' <=> q \in known
  /\ q \in lost' <=> q \in lost
  /\ tokens'[q] = tokens[q] /\ honoured'[q] = honoured[q] /\ aged'[q] = aged[q]
  /\ refreshPromise'[q] = refreshPromise[q] /\ ended'[q] = ended[q]

\* A step that is about one session leaves the others and their refreshes.
LEMMA OneSession ==
  ASSUME SignInInv, NEW s \in Sessions,
         \A q \in Sessions : q # s => Same(q),
         \A d \in Calls : InFlight(d) /\ call[d].token.session # s => call'[d] = call[d],
         \A d \in Calls : InFlight(d)' =>
           Flight(d)' \/ (InFlight(d) /\ call[d].token.session # s),
         SessionOK(s)', PromiseOK(s)', EndsForCause(s)'
  PROVE  SessionsOK'
<1>know. /\ \A q \in Sessions : SessionOK(q) /\ PromiseOK(q) /\ EndsForCause(q)
         /\ \A c \in Calls : FlightOK(c)
         /\ refreshPromise \in [Sessions -> Calls \union {Absent}]
  BY DEF SignInInv, SessionsOK, SignInTypes, ServerTypes
<1>1. ASSUME NEW q \in Sessions, q # s PROVE SessionOK(q)' /\ PromiseOK(q)' /\ EndsForCause(q)'
  <2>1. Same(q)
    BY <1>1
  <2>2. SessionOK(q)' /\ EndsForCause(q)'
    BY <1>know, <2>1 DEF Same, SessionOK, EndsForCause, Begun, Excused
  <2>3. PromiseOK(q)'
    <3>1. CASE refreshPromise[q] = Absent
      BY <2>1, <3>1 DEF PromiseOK, Same
    <3>2. CASE refreshPromise[q] # Absent
      <4>1. PICK c \in Calls : c = refreshPromise[q]
        BY <1>know, <3>2
      <4>2. InFlight(c) /\ call[c].token.session = q
        BY <1>know, <3>2, <4>1 DEF PromiseOK
      <4>3. call'[c] = call[c]
        BY <1>1, <4>2
      <4>4. refreshPromise'[q] = c
        BY <2>1, <4>1 DEF Same
      <4>5. QED
        BY <4>2, <4>3, <4>4 DEF InFlight, PromiseOK
    <3>3. QED
      BY <3>1, <3>2
  <2>4. QED
    BY <2>2, <2>3
<1>2. ASSUME NEW d \in Calls PROVE FlightOK(d)'
  <2>1. SUFFICES ASSUME InFlight(d), call[d].token.session # s PROVE Flight(d)'
    BY DEF FlightOK
  <2>2. call'[d] = call[d] /\ Flight(d)
    BY <1>know, <2>1 DEF FlightOK
  <2>3. PICK q \in Sessions : q = call[d].token.session
    BY <2>2 DEF Flight
  <2>4. Same(q)
    BY <2>1, <2>3
  <2>5. (Begun(q)' <=> Begun(q)) /\ (Excused(q)' <=> Excused(q))
    BY <2>4 DEF Same, Begun, Excused
  <2>6. QED
    BY <2>2, <2>3, <2>4, <2>5 DEF Flight, Same
<1>3. QED
  BY <1>1, <1>2 DEF SessionsOK

\* The sessions and refreshes of the invariant after every step: a session is refreshed
\* by one request at a time, with the token it holds.
LEMMA SessionsKept == SignInInv /\ SignInNext /\ ServerTypes' => SessionsOK'
<1> SUFFICES ASSUME SignInInv, SignInNext, ServerTypes' PROVE SessionsOK'
  OBVIOUS
<1>know. /\ SignInTypes /\ ServerTypes /\ \A c \in Calls : FlightOK(c)
         /\ \A q \in Sessions : SessionOK(q) /\ PromiseOK(q) /\ EndsForCause(q)
  BY DEF SignInInv, SessionsOK, SignInTypes
<1>fun. /\ tokens \in [Sessions -> 0..MaxTokens] /\ honoured \in [Sessions -> 0..MaxTokens]
        /\ aged \in [Sessions -> 0..(MaxTokens - 1)]
        /\ refreshPromise \in [Sessions -> Calls \union {Absent}]
        /\ ended \in [Sessions -> Causes]
        /\ call \in [Calls -> CallStates]
  BY <1>know DEF ServerTypes, SignInTypes, CallTypes
<1>num. \A q \in Sessions : tokens[q] \in Nat /\ honoured[q] \in Nat /\ aged[q] \in Nat
  BY <1>fun, SignInConstants
<1>stand. FlightsStand \/ Refreshes
  BY CallsKept
<1>flying. \A d \in Calls : InFlight(d) => /\ Flight(d) /\ call[d].token.session \in Sessions
                                           /\ refreshPromise[call[d].token.session] = d
  BY <1>know DEF FlightOK, Flight
<1>calm. ASSUME FlightsStand, tokens' = tokens, refreshPromise' = refreshPromise, lost' = lost,
                known' \subseteq known,
                \A s \in Sessions :
                  /\ aged[s] <= aged'[s] /\ honoured'[s] \in {honoured[s], 0}
                  /\ \/ ended'[s] = ended[s] /\ (s \in known => s \in known')
                     \/ s \in known \ known' /\ ended'[s] \notin {"no", "refused"}
         PROVE  SessionsOK'
  BY <1>calm, CalmKept DEF Calm, FlightsStand
<1>1. ASSUME NEW w \in Windows, Callback(w) PROVE SessionsOK'
  <2>1. PICK s \in Sessions : s = window[w].session /\ ~Begun(s)
    BY <1>1 DEF Callback, SignInInv, CallbackOK
  <2>2. PICK exchanged \in BOOLEAN :
          /\ known' = IF exchanged THEN known \union {s} ELSE known
          /\ tokens' = [tokens EXCEPT ![s] = IF exchanged THEN 1 ELSE 0]
          /\ honoured' = [honoured EXCEPT ![s] = IF exchanged THEN 1 ELSE 0]
          /\ ended' = [ended EXCEPT ![s] = IF exchanged THEN "no" ELSE "never begun"]
    BY <1>1, <2>1 DEF Callback
  <2>3. refreshPromise' = refreshPromise /\ aged' = aged /\ call' = call /\ lost' = lost
    BY <1>1 DEF Callback
  <2>4. s \notin known /\ refreshPromise[s] = Absent
    BY <1>know, <2>1 DEF SessionOK, Begun
  <2>5. ASSUME NEW q \in Sessions, q # s PROVE Same(q)
    BY <1>fun, <2>2, <2>3, <2>5 DEF Same
  <2>6. SessionOK(s)' /\ EndsForCause(s)'
    <3>1. tokens'[s] = honoured'[s] /\ (exchanged => tokens'[s] # 0) /\ (exchanged => s \in known')
      <4>1. exchanged => s \in known'
        BY <2>2
      <4>2. tokens'[s] = (IF exchanged THEN 1 ELSE 0) /\ honoured'[s] = (IF exchanged THEN 1 ELSE 0)
        BY <1>fun, <2>2
      <4>3. QED
        BY <4>1, <4>2
    <3>2. ~exchanged => s \notin known' /\ ended'[s] = "never begun"
      BY <1>fun, <2>2, <2>4
    <3>3. exchanged => ended'[s] = "no"
      BY <1>fun, <2>2
    <3>4. QED
      BY <3>1, <3>2, <3>3 DEF SessionOK, EndsForCause, Begun
  <2>7. PromiseOK(s)'
    BY <2>3, <2>4 DEF PromiseOK
  <2>8. ASSUME NEW d \in Calls, InFlight(d)' PROVE InFlight(d) /\ call[d].token.session # s
    <3>1. InFlight(d)
      BY <2>3, <2>8 DEF InFlight
    <3>2. QED
      BY <1>flying, <2>1, <3>1 DEF Flight
  <2>9. QED
    BY <2>3, <2>5, <2>6, <2>7, <2>8, OneSession
<1>2. ASSUME Restart PROVE SessionsOK'
  <2>1. /\ known' = {} /\ tokens' = [s \in Sessions |-> 0] /\ refreshPromise' = [s \in Sessions |-> Absent]
        /\ ended' = [s \in Sessions |-> IF s \in known THEN "restarted" ELSE ended[s]]
        /\ honoured' = honoured /\ lost' = lost
    BY <1>2 DEF Restart, End, providerVars
  <2>2. ASSUME NEW d \in Calls PROVE ~InFlight(d)'
    <3>1. call'[d] = IF call[d].phase \in {"token sent", "token awaited", "sent"} THEN NewCall ELSE call[d]
      BY <1>2 DEF Restart
    <3>2. InFlight(d) => call[d].phase = "token awaited"
      BY <1>flying DEF Flight
    <3>3. NewCall.flight = "none"
      BY DEF NewCall
    <3>4. QED
      BY <3>1, <3>2, <3>3 DEF InFlight
  <2>3. ASSUME NEW q \in Sessions PROVE SessionOK(q)' /\ PromiseOK(q)' /\ EndsForCause(q)'
    <3>1. tokens'[q] = 0 /\ refreshPromise'[q] = Absent /\ honoured'[q] = honoured[q] /\ q \notin known'
      BY <2>1
    <3>2. ended'[q] = IF q \in known THEN "restarted" ELSE ended[q]
      BY <2>1
    <3>3. Excused(q)' <=> Excused(q)
      BY <2>1 DEF Excused
    <3>4. ~Begun(q)' => ~Begun(q)
      BY <3>1, <3>2 DEF Begun
    <3>5. EndsForCause(q)'
      BY <1>know, <2>1, <3>1, <3>2 DEF EndsForCause
    <3>6. SessionOK(q)'
      BY <1>know, <3>1, <3>4 DEF SessionOK
    <3>7. PromiseOK(q)'
      BY <3>1 DEF PromiseOK
    <3>8. QED
      BY <3>5, <3>6, <3>7
  <2>4. QED
    BY <2>2, <2>3 DEF SessionsOK, FlightOK
<1>3. ASSUME NEW c \in Calls, AccessTokenFromCookie(c) PROVE SessionsOK'
  <2>1. PICK s \in Sessions : s = call[c].cookie /\ s \in known
    BY <1>3, <1>know DEF AccessTokenFromCookie, SignedIn, ServerTypes
  <2>2. /\ tokens' = tokens /\ known' = known /\ honoured' = honoured /\ aged' = aged /\ ended' = ended
        /\ lost' = lost
    BY <1>3 DEF AccessTokenFromCookie, providerVars
  <2>3. call[c].phase = "token sent" /\ ~InFlight(c)
    BY <1>3, <1>flying DEF AccessTokenFromCookie, Flight
  <2>4. CASE refreshPromise[s] = Absent
    <3> DEFINE g == tokens[s]
    <3>1. /\ refreshPromise' = [refreshPromise EXCEPT ![s] = c]
          /\ call' = [call EXCEPT ![c].phase = "token awaited", ![c].leader = c, ![c].flight = "asked",
                                  ![c].token = [session |-> s, generation |-> g]]
      BY <1>3, <2>1, <2>4 DEF AccessTokenFromCookie, RefreshSessionToken
    <3>2. /\ call'[c].phase = "token awaited" /\ call'[c].leader = c /\ call'[c].flight = "asked"
          /\ call'[c].token.session = s /\ call'[c].token.generation = g
      <4>1. call[c] \in CallStates
        BY <1>fun
      <4> DEFINE t == [session |-> s, generation |-> g]
      <4>2. call'[c] = [call[c] EXCEPT !.phase = "token awaited", !.leader = c, !.flight = "asked", !.token = t]
        BY <1>fun, <3>1
      <4>3. t.session = s /\ t.generation = g
        OBVIOUS
      <4> HIDE DEF t, g
      <4>4. /\ call'[c].phase = "token awaited" /\ call'[c].leader = c /\ call'[c].flight = "asked"
            /\ call'[c].token = t
        BY <4>1, <4>2 DEF CallStates
      <4>5. QED
        BY <4>3, <4>4
    <3>3. \A d \in Calls : d # c => call'[d] = call[d]
      BY <1>fun, <3>1
    <3>4. g # 0 /\ g <= aged[s] /\ (honoured[s] = g \/ Excused(s))
      <4>1. s # Absent
        BY SignInConstants
      <4>2. ~(g > aged[s])
        BY <1>3, <2>1, <4>1 DEF AccessTokenFromCookie, Fresh, NoToken
      <4>3. g # 0 /\ (honoured[s] = g \/ Excused(s))
        BY <1>know, <2>1, <2>4 DEF SessionOK
      <4>4. QED
        BY <1>num, <4>2, <4>3
    <3>5. refreshPromise'[s] = c /\ \A q \in Sessions : q # s => refreshPromise'[q] = refreshPromise[q]
      BY <1>fun, <3>1
    <3>6. Begun(s)' /\ (Excused(s)' <=> Excused(s))
      BY <2>1, <2>2 DEF Begun, Excused
    <3> HIDE DEF g
    <3>7. Flight(c)'
      BY <2>2, <3>2, <3>4, <3>5, <3>6, g = tokens[s] DEF Flight, g
    <3>8. ASSUME NEW d \in Calls, InFlight(d) PROVE d # c /\ call[d].token.session # s
      BY <1>flying, <2>3, <2>4, <3>8, SignInConstants
    <3>9. ASSUME NEW d \in Calls, InFlight(d)'
          PROVE  Flight(d)' \/ (InFlight(d) /\ call[d].token.session # s)
      <4>1. CASE d = c
        BY <3>7, <4>1
      <4>2. CASE d # c
        BY <3>3, <3>8, <3>9, <4>2 DEF InFlight
      <4>3. QED
        BY <4>1, <4>2
    <3>10. SessionOK(s)' /\ EndsForCause(s)'
      <4>1. c # Absent
        BY SignInConstants
      <4>2. QED
        BY <1>know, <2>1, <2>2, <3>5, <3>6, <4>1 DEF SessionOK, EndsForCause
    <3>11. PromiseOK(s)'
      BY <3>2, <3>5 DEF PromiseOK, InFlight
    <3>12. \A q \in Sessions : q # s => Same(q)
      BY <2>2, <3>5 DEF Same
    <3>13. QED
      BY <3>3, <3>8, <3>9, <3>10, <3>11, <3>12, OneSession
  <2>5. CASE refreshPromise[s] # Absent
    <3>1. /\ call' = [call EXCEPT ![c].phase = "token awaited", ![c].leader = refreshPromise[s]]
          /\ refreshPromise' = refreshPromise
      BY <1>3, <2>1, <2>5 DEF AccessTokenFromCookie, RefreshSessionToken
    <3>2. call'[c].flight = call[c].flight
      <4>1. call[c] \in CallStates
        BY <1>fun
      <4>2. call'[c] = [call[c] EXCEPT !.phase = "token awaited", !.leader = refreshPromise[s]]
        BY <1>fun, <3>1
      <4>3. QED
        BY <4>1, <4>2 DEF CallStates
    <3>3. \A d \in Calls : d # c => call'[d] = call[d]
      BY <1>fun, <3>1
    <3>4. FlightsStand
      BY <2>3, <3>2, <3>3 DEF FlightsStand, InFlight
    <3>5. \A q \in Sessions :
            /\ aged[q] <= aged'[q] /\ honoured'[q] \in {honoured[q], 0}
            /\ ended'[q] = ended[q] /\ (q \in known => q \in known')
      BY <1>num, <2>2
    <3>6. QED
      BY <1>calm, <2>2, <3>1, <3>4, <3>5
  <2>6. QED
    BY <2>4, <2>5
<1>4. ASSUME NEW c \in Calls, ProviderRefreshes(c) PROVE SessionsOK'
  <2>1. InFlight(c) /\ Flight(c)
    BY <1>4, <1>flying DEF ProviderRefreshes, InFlight
  <2>2. PICK s \in Sessions, g \in Nat : s = call[c].token.session /\ g = call[c].token.generation
    <3>1. call[c].token.generation \in Nat
      BY <1>know, FieldFacts, SignInConstants
    <3>2. QED
      BY <2>1, <3>1 DEF Flight
  <2>3. /\ call[c].phase = "token awaited" /\ call[c].leader = c /\ refreshPromise[s] = c /\ Begun(s)
        /\ g # 0 /\ g <= aged[s] /\ tokens[s] = g /\ (honoured[s] = g \/ Excused(s))
    BY <1>4, <2>1, <2>2 DEF Flight, ProviderRefreshes
  <2>4. PICK f \in {"granted", "refused"} :
          /\ call' = [call EXCEPT ![c] = [call[c] EXCEPT !.flight = f]]
          /\ f = "granted" => honoured[s] = g /\ honoured' = [honoured EXCEPT ![s] = g + 1]
          /\ f = "refused" => honoured[s] # g /\ honoured' = honoured
    BY <1>4, <2>2 DEF ProviderRefreshes
  <2>5. /\ tokens' = tokens /\ refreshPromise' = refreshPromise /\ known' = known /\ aged' = aged
        /\ ended' = ended /\ lost' = lost
    BY <1>4 DEF ProviderRefreshes, serverVars
  <2>6. /\ call'[c].flight = f /\ call'[c].phase = "token awaited" /\ call'[c].leader = c
        /\ call'[c].token.session = s /\ call'[c].token.generation = g
    <3>1. call[c] \in CallStates /\ call'[c] = [call[c] EXCEPT !.flight = f]
      BY <1>fun, <2>4
    <3>2. QED
      BY <2>2, <2>3, <3>1 DEF CallStates
  <2>7. \A d \in Calls : d # c => call'[d] = call[d]
    BY <1>fun, <2>4
  <2>8. /\ f = "granted" => honoured'[s] = g + 1 /\ honoured[s] # 0
        /\ f = "refused" => honoured'[s] = honoured[s] /\ Excused(s)
        /\ \A q \in Sessions : q # s => honoured'[q] = honoured[q]
    BY <1>fun, <2>3, <2>4
  <2>9. Excused(s) => Excused(s)'
    BY <2>4, <2>5, <2>8 DEF Excused
  <2>10. Flight(c)'
    <3>1. Begun(s)' /\ refreshPromise'[s] = c /\ g <= aged'[s] /\ tokens'[s] = g
      BY <2>3, <2>5 DEF Begun
    <3>2. /\ call'[c].flight # "asked"
          /\ call'[c].flight = "granted" => honoured'[s] = g + 1
          /\ call'[c].flight = "refused" => Excused(s)'
      BY <2>6, <2>8, <2>9
    <3>3. QED
      BY <2>3, <2>6, <3>1, <3>2 DEF Flight
  <2>11. SessionOK(s)' /\ EndsForCause(s)' /\ PromiseOK(s)'
    <3>1. c # Absent
      BY SignInConstants
    <3>2. SessionOK(s)'
      BY <1>know, <2>3, <2>5, <3>1 DEF SessionOK, Begun
    <3>3. EndsForCause(s)'
      BY <1>know, <2>5, <2>9 DEF EndsForCause, Excused
    <3>4. PromiseOK(s)'
      BY <2>3, <2>4, <2>5, <2>6 DEF PromiseOK, InFlight
    <3>5. QED
      BY <3>2, <3>3, <3>4
  <2>12. ASSUME NEW d \in Calls, InFlight(d), d # c PROVE call[d].token.session # s
    BY <1>flying, <2>3, <2>12
  <2>13. ASSUME NEW d \in Calls, InFlight(d)'
         PROVE  Flight(d)' \/ (InFlight(d) /\ call[d].token.session # s)
    <3>1. CASE d = c
      BY <2>10, <3>1
    <3>2. CASE d # c
      BY <2>7, <2>12, <2>13, <3>2 DEF InFlight
    <3>3. QED
      BY <3>1, <3>2
  <2>14. \A q \in Sessions : q # s => Same(q)
    BY <2>5, <2>8 DEF Same
  <2>15. QED
    BY <2>2, <2>7, <2>11, <2>13, <2>14, OneSession
<1>settled. ASSUME NEW c \in Calls, InFlight(c), NEW reply \in {"ok", "auth", "unavailable"}, NEW t \in Kept,
                   Settle(c, reply, t), NEW s \in Sessions, s = call[c].token.session,
                   \A q \in Sessions : q # s => Same(q), SessionOK(s)', EndsForCause(s)'
            PROVE  SessionsOK'
  <2>1. /\ \A d \in Calls : InFlight(d)' => InFlight(d) /\ d # c
        /\ \A d \in Calls : d # c /\ InFlight(d) =>
             call'[d] = call[d] /\ call[d].token.session # s
        /\ refreshPromise' = [refreshPromise EXCEPT ![s] = Absent]
    BY <1>settled, Settled
  <2>2. PromiseOK(s)'
    BY <1>fun, <2>1 DEF PromiseOK
  <2>3. QED
    BY <1>settled, <2>1, <2>2, OneSession
<1>flight. ASSUME NEW c \in Calls, InFlight(c)
           PROVE  \E s \in Sessions, g \in Nat :
                    /\ s = call[c].token.session /\ g = call[c].token.generation /\ Begun(s)
                    /\ g # 0 /\ tokens[s] = g /\ refreshPromise[s] = c /\ g <= aged[s]
                    /\ call[c].flight = "asked" => honoured[s] = g \/ Excused(s)
                    /\ call[c].flight = "granted" => honoured[s] = g + 1 \/ Excused(s)
                    /\ call[c].flight = "refused" => Excused(s)
  <2>1. call[c].token.generation \in Nat
    BY <1>know, FieldFacts, SignInConstants
  <2>2. QED
    BY <1>flight, <1>flying, <2>1 DEF Flight
<1>5. ASSUME NEW c \in Calls, Refreshed(c) PROVE SessionsOK'
  <2>1. InFlight(c)
    BY <1>5 DEF Refreshed, InFlight
  <2>2. PICK s \in Sessions, g \in Nat :
          /\ s = call[c].token.session /\ g = call[c].token.generation /\ Begun(s) /\ g <= aged[s]
          /\ honoured[s] = g + 1 \/ Excused(s)
    BY <1>5, <1>flight, <2>1 DEF Refreshed
  <2> DEFINE t == [session |-> s, generation |-> g + 1]
  <2>3. Settle(c, "ok", t) /\ tokens' = [tokens EXCEPT ![s] = g + 1]
    BY <1>5, <2>2 DEF Refreshed
  <2>4. t \in Kept
    <3>1. g + 1 \in 0..MaxTokens
      BY <1>fun, <2>2, SignInConstants
    <3>2. QED
      BY <3>1 DEF Kept
  <2>5. known' = known /\ honoured' = honoured /\ aged' = aged /\ ended' = ended /\ lost' = lost
    BY <1>5 DEF Refreshed, providerVars
  <2>6. refreshPromise' = [refreshPromise EXCEPT ![s] = Absent]
    BY <2>2, <2>3 DEF Settle
  <2>7. \A q \in Sessions : q # s => Same(q)
    BY <1>fun, <2>3, <2>5, <2>6 DEF Same
  <2>8. tokens'[s] = g + 1 /\ (Excused(s)' <=> Excused(s)) /\ Begun(s)'
    BY <1>fun, <2>2, <2>3, <2>5 DEF Excused, Begun
  <2>9. SessionOK(s)' /\ EndsForCause(s)'
    BY <1>know, <2>2, <2>5, <2>8 DEF SessionOK, EndsForCause
  <2> HIDE DEF t
  <2>10. QED
    BY <1>settled, <2>1, <2>2, <2>3, <2>4, <2>7, <2>9
<1>6. ASSUME NEW c \in Calls, RefreshRefused(c) PROVE SessionsOK'
  <2>1. InFlight(c)
    BY <1>6 DEF RefreshRefused, InFlight
  <2>2. PICK s \in Sessions : s = call[c].token.session /\ Begun(s) /\ Excused(s)
    BY <1>6, <1>flight, <2>1 DEF RefreshRefused
  <2>3. /\ Settle(c, "auth", NoToken) /\ known' = known \ {s}
        /\ ended' = [q \in Sessions |-> IF q \in {s} \intersect known THEN "refused" ELSE ended[q]]
    BY <1>6, <2>2 DEF RefreshRefused, End
  <2>4. NoToken \in Kept
    BY SignInConstants DEF NoToken, Kept
  <2>5. tokens' = tokens /\ honoured' = honoured /\ aged' = aged /\ lost' = lost
    BY <1>6 DEF RefreshRefused, providerVars
  <2>6. refreshPromise' = [refreshPromise EXCEPT ![s] = Absent]
    BY <2>2, <2>3 DEF Settle
  <2>7. ASSUME NEW q \in Sessions, q # s PROVE Same(q)
    <3>1. ended'[q] = ended[q] /\ refreshPromise'[q] = refreshPromise[q]
      BY <1>fun, <2>3, <2>6, <2>7
    <3>2. QED
      BY <2>3, <2>5, <2>7, <3>1 DEF Same
  <2>8. /\ Excused(s)' /\ s \notin known'
        /\ ended'[s] = IF s \in known THEN "refused" ELSE ended[s]
    BY <2>2, <2>3, <2>5 DEF Excused
  <2>9. Begun(s)'
    BY <2>2, <2>8 DEF Begun
  <2>10. SessionOK(s)' /\ EndsForCause(s)'
    BY <2>8, <2>9 DEF SessionOK, EndsForCause, Excused
  <2>11. QED
    BY <1>settled, <2>1, <2>2, <2>3, <2>4, <2>7, <2>10
<1>7. ASSUME NEW c \in Calls, RefreshUnavailable(c) PROVE SessionsOK'
  <2>1. InFlight(c)
    BY <1>7 DEF RefreshUnavailable, InFlight
  <2>2. PICK s \in Sessions, g \in Nat :
          /\ s = call[c].token.session /\ Begun(s) /\ tokens[s] = g
          /\ call[c].flight = "asked" => honoured[s] = g \/ Excused(s)
    BY <1>flight, <2>1
  <2>3. /\ Settle(c, "unavailable", NoToken)
        /\ lost' = IF call[c].flight = "granted" THEN lost \union {s} ELSE lost
        /\ call[c].flight \in {"asked", "granted"}
    BY <1>7, <2>2 DEF RefreshUnavailable
  <2>4. NoToken \in Kept
    BY SignInConstants DEF NoToken, Kept
  <2>5. known' = known /\ tokens' = tokens /\ honoured' = honoured /\ aged' = aged /\ ended' = ended
    BY <1>7 DEF RefreshUnavailable, providerVars
  <2>6. refreshPromise' = [refreshPromise EXCEPT ![s] = Absent]
    BY <2>2, <2>3 DEF Settle
  <2>7. \A q \in Sessions : q # s => Same(q)
    BY <1>fun, <2>3, <2>5, <2>6 DEF Same
  <2>8. (Excused(s) => Excused(s)') /\ (call[c].flight = "granted" => Excused(s)') /\ Begun(s)'
    BY <2>2, <2>3, <2>5 DEF Excused, Begun
  <2>9. honoured'[s] = tokens'[s] \/ Excused(s)'
    BY <2>2, <2>3, <2>5, <2>8
  <2>10. SessionOK(s)'
    BY <1>know, <2>5, <2>8, <2>9 DEF SessionOK
  <2>11. EndsForCause(s)'
    BY <1>know, <2>5, <2>8 DEF EndsForCause, Excused
  <2>12. QED
    BY <1>settled, <2>1, <2>2, <2>3, <2>4, <2>7, <2>10, <2>11
<1>other. Refreshes => SessionsOK'
  BY <1>2, <1>3, <1>4, <1>5, <1>6, <1>7 DEF Refreshes
<1>8. ASSUME SignOut PROVE SessionsOK'
  <2>1. /\ known' \subseteq known /\ tokens' = tokens /\ refreshPromise' = refreshPromise /\ lost' = lost
        /\ honoured' = honoured /\ aged' = aged
    BY <1>8 DEF SignOut, End, providerVars
  <2>2. \A s \in Sessions : \/ ended'[s] = ended[s] /\ (s \in known => s \in known')
                            \/ s \in known \ known' /\ ended'[s] \notin {"no", "refused"}
    BY <1>8 DEF SignOut, End
  <2>3. QED
    BY <1>calm, <1>num, <1>other, <1>stand, <2>1, <2>2
<1>9. ASSUME NEW x \in Sessions, SessionExpires(x) PROVE SessionsOK'
  <2>1. /\ known' \subseteq known /\ tokens' = tokens /\ refreshPromise' = refreshPromise /\ lost' = lost
        /\ honoured' = honoured /\ aged' = aged
    BY <1>9 DEF SessionExpires, End, providerVars
  <2>2. \A s \in Sessions : \/ ended'[s] = ended[s] /\ (s \in known => s \in known')
                            \/ s \in known \ known' /\ ended'[s] \notin {"no", "refused"}
    BY <1>9 DEF SessionExpires, End
  <2>3. QED
    BY <1>calm, <1>num, <1>other, <1>stand, <2>1, <2>2
<1>10. ASSUME NEW x \in Sessions, Age(x) PROVE SessionsOK'
  <2>1. /\ known' = known /\ tokens' = tokens /\ refreshPromise' = refreshPromise /\ lost' = lost
        /\ honoured' = honoured /\ ended' = ended
    BY <1>10 DEF Age, serverVars
  <2>2. \A s \in Sessions : aged[s] <= aged'[s]
    BY <1>10, <1>fun, <1>num DEF Age
  <2>3. QED
    BY <1>calm, <1>other, <1>stand, <2>1, <2>2
<1>11. ASSUME NEW x \in Sessions, Withdraw(x) PROVE SessionsOK'
  <2>1. /\ known' = known /\ tokens' = tokens /\ refreshPromise' = refreshPromise /\ lost' = lost
        /\ aged' = aged /\ ended' = ended
    BY <1>11 DEF Withdraw, serverVars
  <2>2. \A s \in Sessions : honoured'[s] \in {honoured[s], 0}
    BY <1>11, <1>fun DEF Withdraw
  <2>3. QED
    BY <1>calm, <1>num, <1>other, <1>stand, <2>1, <2>2
<1>12. CASE UNCHANGED <<known, tokens, refreshPromise, lost, honoured, aged, ended>>
  BY <1>12, <1>calm, <1>num, <1>other, <1>stand
<1>13. QED
  BY <1>1, <1>other, <1>8, <1>9, <1>10, <1>11, <1>12
     DEF SignInNext, Refreshes, StartLogin, OpenTab, Confirm, AskToSignIn, TryAgain, Consent, Land, CloseWindow,
         AskSession, SessionAnswered, CancelSignIn, ApiFetch, TokenAtHand, TokenTold, Resolve, Answered,
         serverVars, providerVars

-----------------------------------------------------------------------------
(* SignIn: the theorems.                                                   *)

LEMMA SignInBegins == SignInInit => SignInInv
<1> SUFFICES ASSUME SignInInit PROVE SignInInv
  OBVIOUS
<1>1. ServerTypes
  <2>1. 0 \in 0..MaxTokens /\ 0 \in 0..(MaxTokens - 1)
    BY SignInConstants
  <2>2. QED
    BY <2>1 DEF SignInInit, ServerTypes, Causes
<1>2. BrowserTypes
  BY SignInConstants DEF SignInInit, BrowserTypes, Kept, NoToken
<1>3. WindowTypes /\ \A v \in Windows : CallbackOK(v)
  BY DEF SignInInit, WindowTypes, WindowStates, Windows, Closed, CallbackOK
<1>4. CallTypes /\ \A c \in Calls : call[c].phase = "idle" /\ call[c].flight = "none"
  <2>1. NoToken \in Kept
    BY SignInConstants DEF NoToken, Kept
  <2>2. NewCall \in CallStates /\ NewCall.phase = "idle" /\ NewCall.flight = "none"
    BY <2>1 DEF NewCall, CallStates
  <2>3. QED
    BY <2>2 DEF SignInInit, CallTypes
<1>5. SessionsOK
  <2>1. \A c \in Calls : FlightOK(c)
    BY <1>4 DEF FlightOK, InFlight
  <2>2. \A s \in Sessions : SessionOK(s) /\ PromiseOK(s) /\ EndsForCause(s)
    BY DEF SignInInit, SessionOK, PromiseOK, EndsForCause
  <2>3. QED
    BY <2>1, <2>2 DEF SessionsOK
<1>6. NobodyLeftWaiting
  BY <1>4 DEF SignInInit, NobodyLeftWaiting
<1>7. QED
  BY <1>1, <1>2, <1>3, <1>4, <1>5, <1>6 DEF SignInInv, SignInTypes

LEMMA SignInKeeps == SignInInv /\ [SignInNext]_signInVars => SignInInv'
<1> SUFFICES ASSUME SignInInv, [SignInNext]_signInVars PROVE SignInInv'
  OBVIOUS
<1>1. CASE SignInNext
  BY <1>1, ServerTyped, BrowserTyped, WindowKept, CallsKept, SessionsKept DEF SignInInv, SignInTypes
<1>2. CASE UNCHANGED signInVars
  <2>1. /\ UNCHANGED <<discovered, known, tokens, refreshPromise, honoured, aged, ended, lost>>
        /\ UNCHANGED <<cookie, cached, nonce, flag, waiters, checking>>
        /\ window' = window /\ call' = call
    BY <1>2 DEF signInVars, serverVars, providerVars, dialogVars
  <2>2. SignInTypes'
    BY <2>1 DEF SignInInv, SignInTypes, ServerTypes, BrowserTypes, WindowTypes, CallTypes
  <2>3. SessionsOK'
    BY <2>1 DEF SignInInv, SessionsOK, SessionOK, PromiseOK, EndsForCause, FlightOK, Flight, InFlight, Begun, Excused
  <2>4. NobodyLeftWaiting' /\ \A v \in Windows : CallbackOK(v)'
    BY <2>1 DEF SignInInv, NobodyLeftWaiting, CallbackOK, Begun
  <2>5. QED
    BY <2>2, <2>3, <2>4 DEF SignInInv
<1>3. QED
  BY <1>1, <1>2

\* The invariant of signing in holds in every state.
THEOREM SignInInvariance == SignInSpec => []SignInInv
BY SignInBegins, SignInKeeps, PTL DEF SignInSpec

\* Sessions, tokens and the dialog have the shape the code gives them.
THEOREM SignInTypesCorrect == SignInSpec => []SignInTypeOK
<1>1. SignInInv => SignInTypeOK
  <2> SUFFICES ASSUME SignInTypes PROVE SignInTypeOK
    BY DEF SignInInv
  <2>1. ServerTypes /\ BrowserTypes
    BY DEF SignInTypes
  <2>2. \A s \in Sessions : aged[s] \in 0..MaxTokens
    BY <2>1, SignInConstants DEF ServerTypes
  <2>3. QED
    BY <2>1, <2>2 DEF ServerTypes, BrowserTypes, SignInTypeOK
<1>2. QED
  BY <1>1, SignInInvariance, PTL

\* A session ends when its user signs out, after eight hours, with the process, or
\* because the provider refused to refresh it, and then the provider had withdrawn it
\* or an answer with its tokens was lost: however many requests ask for its token at
\* once, the control plane refreshes it once (refreshPromise in src/oidc.ts).
THEOREM SessionsEndOnlyForAReason == SignInSpec => []SessionsEndForAReason
<1>1. SignInInv => SessionsEndForAReason
  BY DEF SignInInv, SessionsOK, SessionsEndForAReason
<1>2. QED
  BY <1>1, SignInInvariance, PTL

\* The requests that wait are those the open dialog will resume (resolveRecovery in
\* ui/api-client.mjs), and none waits behind a dialog that is closed.
THEOREM NobodyWaitsBehindAClosedDialog == SignInSpec => []NobodyLeftWaiting
<1>1. SignInInv => NobodyLeftWaiting
  BY DEF SignInInv
<1>2. QED
  BY <1>1, SignInInvariance, PTL

-----------------------------------------------------------------------------
(* LiveUpdates: the invariant.                                             *)

Statuses     == {"none", "queued", "running"} \cup Terminal
Leases       == {"none", "open", "completed", "fenced"}
StreamStates == {"down", "asked", "open", "ending"}
Places       == {"top", "claim", "decide", "wait", "backoff"}
NoticeStates == {"none", "posted", "read", "send", "done"}

JobTypes ==
  /\ deployed \in Deployments
  /\ status \in [Jobs -> Statuses] /\ claims \in [Jobs -> 0..MaxClaims] /\ lease \in [Jobs -> Leases]
  /\ tasks \in [Processes -> SUBSET Executions] /\ wrote \subseteq Executions
  /\ restarting \subseteq Jobs \X (Jobs \cup {None}) /\ overwritten \subseteq Jobs
WakeTypes ==
  /\ stream \in [Processes -> StreamStates] /\ inbox \in [Processes -> SUBSET (Kinds \X Jobs)]
  /\ overlap \in BOOLEAN
  /\ loop \in [Processes -> Places] /\ news \in BOOLEAN /\ retry \in BOOLEAN
  /\ told \subseteq Jobs /\ freed \subseteq Jobs
PushTypes ==
  /\ notice \in [Notices -> NoticeStates] /\ saw \in [Notices -> Statuses]
  /\ delivered \subseteq Jobs /\ devices \subseteq Devices
  /\ sent \subseteq [notice : Notices, device : Devices, as : Statuses]

\* A stream that is asked for will carry the workspaces that were read, unless a
\* change overlapped.
ScopeOK ==
  /\ stream[Runner] = "asked" /\ scope # grants => overlap
  /\ StreamsFollowGrants

\* An outcome which a job has, or which was written over.
Was(j, outcome) == outcome \in Terminal /\ (outcome = status[j] \/ j \in overwritten)
\* Past the reading of the job, a notice has seen its outcome.
ReadOK(n) == notice[n] \in {"read", "send"} => Was(JobOf(n), saw[n])
\* Of the notices of a job one is sent, once.
SendOK(n) ==
  notice[n] = "send" =>
    /\ JobOf(n) \in delivered
    /\ \A x \in sent : JobOf(x.notice) # JobOf(n)
    /\ \A m \in Notices : notice[m] = "send" /\ JobOf(m) = JobOf(n) => m = n
SentOK(x) == JobOf(x.notice) \in delivered
PushesOK ==
  /\ \A n \in Notices : ReadOK(n) /\ SendOK(n)
  /\ \A x \in sent : SentOK(x)
  /\ ToldOnceOfTheOutcome

LiveInv == JobTypes /\ WakeTypes /\ PushTypes /\ ScopeOK /\ PushesOK

-----------------------------------------------------------------------------
(* LiveUpdates: types.                                                     *)

\* The next execution of a job is one of those that the model allows.
LEMMA ClaimTyped ==
  ASSUME JobTypes, NEW p \in Processes, NEW j \in Jobs, Claim(p, j)
  PROVE  /\ status' = [status EXCEPT ![j] = "running"] /\ status[j] = "queued"
         /\ claims' \in [Jobs -> 0..MaxClaims] /\ lease' \in [Jobs -> Leases]
         /\ Claimed(j) \in Executions /\ JobOf(<<Claimed(j), "start">>) = j
<1>1. claims[j] \in 0..MaxClaims /\ claims[j] < MaxClaims /\ MaxClaims \in Nat
  BY LiveConstants DEF Claim, JobTypes
<1>2. claims[j] + 1 \in 1..MaxClaims /\ claims[j] + 1 \in 0..MaxClaims
  BY <1>1
<1>3. Claimed(j) \in Executions /\ JobOf(<<Claimed(j), "start">>) = j
  BY <1>2 DEF Claimed, Executions, JobOf
<1>4. claims' \in [Jobs -> 0..MaxClaims]
  BY <1>2 DEF Claim, JobTypes
<1>5. lease' \in [Jobs -> Leases]
  BY DEF Claim, JobTypes, Leases
<1>6. status' = [status EXCEPT ![j] = "running"] /\ status[j] = "queued"
  BY DEF Claim, Claimable
<1>7. QED
  BY <1>3, <1>4, <1>5, <1>6

LEMMA NoticeFacts ==
  /\ \A n \in Notices : JobOf(n) \in Jobs
  /\ \A x \in Executions : x[1] \in Jobs
  /\ \A x \in Executions : \A w \in {"start", "step", "end"} : <<x, w>> \in Notices
BY DEF Notices, Executions, JobOf

LEMMA JobsTyped == LiveInv /\ LiveNext => JobTypes'
<1> SUFFICES ASSUME LiveInv, LiveNext PROVE JobTypes'
  OBVIOUS
<1>know. JobTypes
  BY DEF LiveInv
<1>fun. /\ deployed \in Deployments /\ status \in [Jobs -> Statuses] /\ claims \in [Jobs -> 0..MaxClaims]
        /\ lease \in [Jobs -> Leases] /\ tasks \in [Processes -> SUBSET Executions]
        /\ wrote \subseteq Executions /\ restarting \subseteq Jobs \X (Jobs \cup {None}) /\ overwritten \subseteq Jobs
        /\ Worker \in Processes /\ Runner \in Processes
  BY <1>know DEF JobTypes, Processes
<1>put. ASSUME NEW j \in Jobs, NEW x \in Statuses, status' = [status EXCEPT ![j] = x]
        PROVE  status' \in [Jobs -> Statuses]
  BY <1>fun, <1>put
<1>let. ASSUME NEW j \in Jobs, NEW x \in Leases, lease' = [lease EXCEPT ![j] = x]
        PROVE  lease' \in [Jobs -> Leases]
  BY <1>fun, <1>let
<1>held. ASSUME NEW p \in Processes, NEW X \in SUBSET Executions, tasks' = [tasks EXCEPT ![p] = X]
         PROVE  tasks' \in [Processes -> SUBSET Executions]
  BY <1>fun, <1>held
<1>over. Overwrites => overwritten' \subseteq Jobs
  BY <1>fun DEF Overwrites
<1>names. /\ {"none", "queued", "running", "success", "failed", "cancelled"} \subseteq Statuses
          /\ {"none", "open", "completed", "fenced"} \subseteq Leases /\ Terminal \subseteq Statuses
  BY DEF Statuses, Terminal, Leases
<1>1. ASSUME NEW j \in Jobs, Enqueue(j) PROVE JobTypes'
  <2>1. status' \in [Jobs -> Statuses]
    BY <1>1, <1>put, <1>names DEF Enqueue
  <2>2. QED
    BY <1>1, <1>fun, <2>1 DEF Enqueue, JobTypes, workVars
<1>2. ASSUME NEW j \in Jobs, Cancel(j) PROVE JobTypes'
  <2>1. status' \in [Jobs -> Statuses]
    BY <1>2, <1>put, <1>names DEF Cancel
  <2>2. QED
    BY <1>2, <1>fun, <2>1 DEF Cancel, JobTypes, workVars
<1>3. ASSUME NEW j \in Jobs, RestartReads(j) PROVE JobTypes'
  <2>1. restarting' \subseteq Jobs \X (Jobs \cup {None})
    BY <1>3, <1>fun DEF RestartReads
  <2>2. QED
    BY <1>3, <1>fun, <2>1 DEF RestartReads, JobTypes, rowVars, workVars
<1>4. ASSUME NEW j \in Jobs, NEW k \in Jobs, RestartInserts(j, k) PROVE JobTypes'
  <2>1. status' \in [Jobs -> Statuses]
    BY <1>4, <1>put, <1>names DEF RestartInserts
  <2>2. restarting' \subseteq Jobs \X (Jobs \cup {None})
    BY <1>4, <1>fun DEF RestartInserts
  <2>3. QED
    BY <1>4, <1>fun, <2>1, <2>2 DEF RestartInserts, JobTypes, workVars
<1>5. ASSUME NEW j \in Jobs, NEW k \in Jobs, RestartCancels(j, k) PROVE JobTypes'
  <2>1. status' \in [Jobs -> Statuses]
    BY <1>5, <1>put, <1>names DEF RestartCancels
  <2>2. restarting' \subseteq Jobs \X (Jobs \cup {None}) /\ overwritten' \subseteq Jobs
    BY <1>5, <1>fun, <1>over DEF RestartCancels
  <2>3. QED
    BY <1>5, <1>fun, <2>1, <2>2 DEF RestartCancels, JobTypes, workVars
<1>6. ASSUME NEW a \in restarting, RestartFails(a) PROVE JobTypes'
  <2>1. restarting' \subseteq Jobs \X (Jobs \cup {None})
    BY <1>6, <1>fun DEF RestartFails
  <2>2. QED
    BY <1>6, <1>fun, <2>1 DEF RestartFails, JobTypes, rowVars, workVars
<1>7. ASSUME NEW j \in Jobs, ClearStaleJobs(j) PROVE JobTypes'
  <2>1. status' \in [Jobs -> Statuses] /\ lease' \in [Jobs -> Leases]
    BY <1>7, <1>fun, <1>put, <1>let, <1>names DEF ClearStaleJobs
  <2>2. overwritten' \subseteq Jobs
    BY <1>7, <1>over DEF ClearStaleJobs
  <2>3. QED
    BY <1>7, <1>fun, <2>1, <2>2 DEF ClearStaleJobs, JobTypes, workVars
<1>8. ASSUME SettleGrants PROVE JobTypes'
  <2>1. /\ status' = [j \in Jobs |-> IF j \in Lost THEN "cancelled" ELSE status[j]]
        /\ lease' = [j \in Jobs |-> IF j \in Lost THEN "fenced" ELSE lease[j]]
    BY <1>8 DEF SettleGrants, Fence
  <2>2. status' \in [Jobs -> Statuses] /\ lease' \in [Jobs -> Leases]
    BY <1>fun, <1>names, <2>1
  <2>3. QED
    BY <1>8, <1>fun, <2>2 DEF SettleGrants, JobTypes, workVars
<1>9. ASSUME NEW j \in Jobs, WorkerClaims(j) PROVE JobTypes'
  <2>1. status' \in [Jobs -> Statuses] /\ claims' \in [Jobs -> 0..MaxClaims] /\ lease' \in [Jobs -> Leases]
        /\ Claimed(j) \in Executions
    BY <1>9, <1>know, <1>fun, <1>put, <1>names, ClaimTyped DEF WorkerClaims
  <2>2. tasks' \in [Processes -> SUBSET Executions]
    BY <1>9, <1>fun, <1>held, <2>1 DEF WorkerClaims
  <2>3. QED
    BY <1>9, <1>fun, <2>1, <2>2 DEF WorkerClaims, JobTypes
<1>10. ASSUME NEW x \in Executions, NEW o \in Terminal, WorkerWrites(x, o) PROVE JobTypes'
  <2>1. PICK s \in Statuses : status' = [status EXCEPT ![x[1]] = s]
    BY <1>10, <1>names DEF WorkerWrites
  <2>2. status' \in [Jobs -> Statuses] /\ lease' \in [Jobs -> Leases]
    BY <1>10, <1>put, <1>let, <1>names, <2>1, NoticeFacts DEF WorkerWrites
  <2>3. wrote' \subseteq Executions /\ overwritten' \subseteq Jobs
    BY <1>10, <1>fun, <1>over DEF WorkerWrites
  <2>4. QED
    BY <1>10, <1>fun, <2>2, <2>3 DEF WorkerWrites, JobTypes
<1>11. ASSUME NEW x \in Executions, WorkerRefuses(x) PROVE JobTypes'
  <2>1. status' \in [Jobs -> Statuses]
    BY <1>11, <1>put, <1>names, NoticeFacts DEF WorkerRefuses
  <2>2. wrote' \subseteq Executions /\ overwritten' \subseteq Jobs
    BY <1>11, <1>fun, <1>over DEF WorkerRefuses
  <2>3. QED
    BY <1>11, <1>fun, <2>1, <2>2 DEF WorkerRefuses, JobTypes
<1>12. ASSUME NEW x \in Executions, WorkerEnds(x) PROVE JobTypes'
  <2>1. tasks' \in [Processes -> SUBSET Executions] /\ wrote' \subseteq Executions
    BY <1>12, <1>fun, <1>held DEF WorkerEnds
  <2>2. QED
    BY <1>12, <1>fun, <2>1 DEF WorkerEnds, JobTypes, rowVars
<1>13. ASSUME NEW j \in Jobs, RunnerClaims(j) PROVE JobTypes'
  <2>1. status' \in [Jobs -> Statuses] /\ claims' \in [Jobs -> 0..MaxClaims] /\ lease' \in [Jobs -> Leases]
        /\ Claimed(j) \in Executions
    BY <1>13, <1>know, <1>fun, <1>put, <1>names, ClaimTyped DEF RunnerClaims
  <2>2. tasks' \in [Processes -> SUBSET Executions]
    BY <1>13, <1>fun, <1>held, <2>1 DEF RunnerClaims
  <2>3. QED
    BY <1>13, <1>fun, <2>1, <2>2 DEF RunnerClaims, JobTypes
<1>14. ASSUME NEW j \in Jobs, RunnerClaimIsLost(j) PROVE JobTypes'
  <2>1. status' \in [Jobs -> Statuses] /\ claims' \in [Jobs -> 0..MaxClaims] /\ lease' \in [Jobs -> Leases]
    BY <1>14, <1>know, <1>fun, <1>put, <1>names, ClaimTyped DEF RunnerClaimIsLost
  <2>2. QED
    BY <1>14, <1>fun, <2>1 DEF RunnerClaimIsLost, JobTypes, workVars
<1>15. ASSUME NEW x \in Executions, NEW o \in Terminal, RunnerCompletes(x, o) PROVE JobTypes'
  <2>1. PICK s \in Statuses : status' = [status EXCEPT ![x[1]] = s]
    <3>1. status' = [status EXCEPT ![x[1]] = IF status[x[1]] = "running" THEN o ELSE status[x[1]]]
      BY <1>15 DEF RunnerCompletes
    <3>2. status[x[1]] \in Statuses
      BY <1>fun, NoticeFacts
    <3>3. QED
      BY <1>names, <3>1, <3>2
  <2>2. status' \in [Jobs -> Statuses] /\ lease' \in [Jobs -> Leases]
    BY <1>15, <1>put, <1>let, <1>names, <2>1, NoticeFacts DEF RunnerCompletes
  <2>3. QED
    BY <1>15, <1>fun, <2>2 DEF RunnerCompletes, JobTypes, workVars
<1>16. ASSUME NEW x \in Executions, RunnerEnds(x) PROVE JobTypes'
  <2>1. tasks' \in [Processes -> SUBSET Executions]
    BY <1>16, <1>fun, <1>held DEF RunnerEnds
  <2>2. QED
    BY <1>16, <1>fun, <2>1 DEF RunnerEnds, JobTypes, rowVars
<1>17. CASE UNCHANGED jobVars
  BY <1>17, <1>know DEF JobTypes, jobVars, rowVars, workVars
<1>18. QED
  BY <1>1, <1>2, <1>3, <1>4, <1>5, <1>6, <1>7, <1>8, <1>9, <1>10, <1>11, <1>12, <1>13, <1>14, <1>15, <1>16, <1>17
     DEF LiveNext, BrowserOpens, BrowserLeaves, WorkerConnects, RunnerAsks, RunnerConnects, Disconnects,
         WorkerHears, RunnerHears, Grant, Revoke, ChangeGrants, WorkerStarts, WorkerClaimsNone, WorkerClaimFails,
         WorkerDecides, WorkerTimesOut, WorkerRetries, WorkerReports, RunnerClaimsNone, RunnerClaimFails,
         RunnerBacksOff, RunnerTimesOut, NoticeLost, NoticeRead, ClaimDelivery, SendPushes, SubscribePush,
         UnsubscribePush

LEMMA PushesTyped == LiveInv /\ LiveNext => PushTypes'
<1> SUFFICES ASSUME LiveInv, LiveNext PROVE PushTypes'
  OBVIOUS
<1>know. JobTypes /\ PushTypes
  BY DEF LiveInv
<1>put. ASSUME NEW n \in Notices, NEW x \in NoticeStates, notice' = [notice EXCEPT ![n] = x],
               saw' \in [Notices -> Statuses], delivered' \subseteq Jobs, devices' \subseteq Devices,
               sent' \subseteq [notice : Notices, device : Devices, as : Statuses]
        PROVE  PushTypes'
  BY <1>know, <1>put DEF PushTypes
<1>push. /\ saw \in [Notices -> Statuses] /\ delivered \subseteq Jobs /\ devices \subseteq Devices
         /\ sent \subseteq [notice : Notices, device : Devices, as : Statuses]
         /\ \A n \in Notices : [saw EXCEPT ![n] = "none"] \in [Notices -> Statuses]
  BY <1>know DEF PushTypes, Statuses
<1>1. ASSUME NEW j \in Jobs, WorkerClaims(j) PROVE PushTypes'
  <2>1. <<Claimed(j), "start">> \in Notices
    BY <1>1, <1>know, ClaimTyped, NoticeFacts DEF WorkerClaims, Processes
  <2>2. QED
    BY <1>1, <1>put, <1>push, <2>1 DEF WorkerClaims, NoticeStates
<1>2. ASSUME NEW x \in Executions, WorkerReports(x) \/ WorkerEnds(x) PROVE PushTypes'
  <2>1. \E n \in Notices : notice' = [notice EXCEPT ![n] = "posted"]
    BY <1>2, NoticeFacts DEF WorkerReports, WorkerEnds
  <2>2. UNCHANGED <<saw, delivered, devices, sent>> /\ "posted" \in NoticeStates
    BY <1>2 DEF WorkerReports, WorkerEnds, NoticeStates
  <2>3. QED
    BY <1>put, <1>push, <2>1, <2>2
<1>3. ASSUME NEW n \in Notices, NoticeLost(n) PROVE PushTypes'
  BY <1>3, <1>put, <1>push DEF NoticeLost, NoticeStates
<1>4. ASSUME NEW n \in Notices, NoticeRead(n) PROVE PushTypes'
  <2>1. status[JobOf(n)] \in Statuses
    BY <1>know, NoticeFacts DEF JobTypes
  <2>2. saw' \in [Notices -> Statuses]
    BY <1>4, <1>push, <2>1 DEF NoticeRead
  <2>3. PICK x \in NoticeStates : notice' = [notice EXCEPT ![n] = x]
    BY <1>4 DEF NoticeRead, NoticeStates
  <2>4. QED
    BY <1>4, <1>put, <1>push, <2>2, <2>3 DEF NoticeRead
<1>5. ASSUME NEW n \in Notices, ClaimDelivery(n) PROVE PushTypes'
  <2>1. PICK x \in NoticeStates : notice' = [notice EXCEPT ![n] = x]
    BY <1>5 DEF ClaimDelivery, NoticeStates
  <2>2. delivered' \subseteq Jobs
    BY <1>5, <1>push, NoticeFacts DEF ClaimDelivery
  <2>3. QED
    BY <1>5, <1>put, <1>push, <2>1, <2>2 DEF ClaimDelivery
<1>6. ASSUME NEW n \in Notices, SendPushes(n) PROVE PushTypes'
  <2>1. /\ notice' = [notice EXCEPT ![n] = "done"] /\ "done" \in NoticeStates
        /\ saw' = [saw EXCEPT ![n] = "none"] /\ delivered' = delivered
    BY <1>6 DEF SendPushes, NoticeStates
  <2>2. PICK gone \in SUBSET {d \in devices : DeviceTeam[d] = JobTeam[JobOf(n)]} :
          sent' = sent \cup {[notice |-> n, device |-> d, as |-> saw[n]] :
                             d \in {d \in devices : DeviceTeam[d] = JobTeam[JobOf(n)]} \ gone}
    BY <1>6 DEF SendPushes
  <2>3. sent' \subseteq [notice : Notices, device : Devices, as : Statuses]
    <3>1. ASSUME NEW d \in devices PROVE [notice |-> n, device |-> d, as |-> saw[n]]
                                            \in [notice : Notices, device : Devices, as : Statuses]
      BY <1>push
    <3>2. QED
      BY <1>push, <2>2, <3>1
  <2>4. devices' \subseteq Devices
    BY <1>6, <1>push DEF SendPushes
  <2>5. QED
    BY <1>put, <1>push, <2>1, <2>3, <2>4
<1>dev. ASSUME UNCHANGED <<notice, saw, delivered, sent>>, devices' \subseteq Devices PROVE PushTypes'
  BY <1>dev, <1>know DEF PushTypes
<1>7. CASE UNCHANGED pushVars
  BY <1>7, <1>know DEF PushTypes, pushVars
<1>8. ASSUME NEW d \in Devices, SubscribePush(d) \/ UnsubscribePush(d) PROVE PushTypes'
  BY <1>8, <1>dev, <1>push DEF SubscribePush, UnsubscribePush
<1>9. QED
  BY <1>1, <1>2, <1>3, <1>4, <1>5, <1>6, <1>7, <1>8
     DEF LiveNext, BrowserOpens, BrowserLeaves, WorkerConnects, RunnerAsks, RunnerConnects, Disconnects,
         WorkerHears, RunnerHears, Enqueue, Cancel, RestartReads, RestartInserts, RestartCancels, RestartFails,
         ClearStaleJobs, Grant, Revoke, ChangeGrants, SettleGrants, WorkerStarts, WorkerClaimsNone,
         WorkerClaimFails, WorkerDecides, WorkerTimesOut, WorkerRetries, WorkerWrites, WorkerRefuses,
         RunnerClaims, RunnerClaimIsLost, RunnerClaimsNone, RunnerClaimFails, RunnerBacksOff, RunnerTimesOut,
         RunnerCompletes, RunnerEnds

LEMMA WakesTyped == LiveInv /\ LiveNext => WakeTypes'
<1> SUFFICES ASSUME LiveInv, LiveNext PROVE WakeTypes'
  OBVIOUS
<1>know. WakeTypes /\ JobTypes
  BY DEF LiveInv
<1>fun. /\ stream \in [Processes -> StreamStates] /\ inbox \in [Processes -> SUBSET (Kinds \X Jobs)]
        /\ loop \in [Processes -> Places] /\ told \subseteq Jobs
        /\ overlap \in BOOLEAN /\ news \in BOOLEAN /\ retry \in BOOLEAN /\ freed \subseteq Jobs
        /\ Worker \in Processes /\ Runner \in Processes
  BY <1>know DEF WakeTypes, Processes
<1>frees. Frees => freed' \subseteq Jobs
  BY <1>fun DEF Frees, Kin
<1>states. \A x \in StreamStates : \A p \in Processes : [stream EXCEPT ![p] = x] \in [Processes -> StreamStates]
  BY <1>fun
<1>places. \A x \in Places : \A p \in Processes : [loop EXCEPT ![p] = x] \in [Processes -> Places]
  BY <1>fun
<1>less. ASSUME NEW p \in Processes, NEW X \in SUBSET (Kinds \X Jobs)
         PROVE  [inbox EXCEPT ![p] = X] \in [Processes -> SUBSET (Kinds \X Jobs)]
  BY <1>fun
<1>publish. ASSUME NEW E \in SUBSET (Kinds \X Jobs), Publish(E)
            PROVE  stream' \in [Processes -> StreamStates] /\ inbox' \in [Processes -> SUBSET (Kinds \X Jobs)]
  <2>1. \E slow : stream' = [p \in Processes |-> IF p \in slow THEN "ending" ELSE stream[p]]
    BY <1>publish DEF Publish
  <2>2. inbox' = [p \in Processes |-> inbox[p] \cup {e \in E : Reaches(p, e[1], e[2])}]
    BY <1>publish DEF Publish
  <2>3. "ending" \in StreamStates
    BY DEF StreamStates
  <2>4. stream' \in [Processes -> StreamStates]
    BY <1>fun, <2>1, <2>3
  <2>5. inbox' \in [Processes -> SUBSET (Kinds \X Jobs)]
    BY <1>fun, <2>2
  <2>6. QED
    BY <2>4, <2>5
<1>publishing. ASSUME NEW E \in SUBSET (Kinds \X Jobs), Publish(E) \/ UNCHANGED streamVars,
                      UNCHANGED <<overlap, wakeVars>>, freed' \subseteq Jobs
               PROVE  WakeTypes'
  BY <1>publishing, <1>publish, <1>fun DEF WakeTypes, streamVars, wakeVars
<1>event. \A j \in Jobs : {<<"available", j>>} \in SUBSET (Kinds \X Jobs)
                          /\ {<<"cancelled", j>>} \in SUBSET (Kinds \X Jobs)
  BY DEF Kinds
<1>wakes. ASSUME WorkerWakes PROVE loop' \in [Processes -> Places] /\ news' \in BOOLEAN
  <2>1. "top" \in Places
    BY DEF Places
  <2>2. QED
    BY <1>wakes, <1>fun, <2>1 DEF WorkerWakes
<1>runs. ASSUME RunnerWakes PROVE loop' \in [Processes -> Places]
  <2>1. "claim" \in Places
    BY DEF Places
  <2>2. QED
    BY <1>runs, <1>fun, <2>1 DEF RunnerWakes
<1>1. ASSUME WorkerConnects PROVE WakeTypes'
  <2>1. stream' \in [Processes -> StreamStates]
    BY <1>1, <1>fun, <1>states DEF WorkerConnects, StreamStates
  <2>2. QED
    BY <1>1, <1>fun, <1>wakes, <2>1 DEF WorkerConnects, WakeTypes, grantVars
<1>2. ASSUME RunnerAsks PROVE WakeTypes'
  <2>1. stream' \in [Processes -> StreamStates]
    BY <1>2, <1>fun, <1>states DEF RunnerAsks, StreamStates
  <2>2. QED
    BY <1>2, <1>fun, <1>runs, <2>1 DEF RunnerAsks, WakeTypes
<1>3. ASSUME RunnerConnects PROVE WakeTypes'
  <2>1. stream' \in [Processes -> StreamStates]
    BY <1>3, <1>fun, <1>states DEF RunnerConnects, StreamStates
  <2>2. QED
    BY <1>3, <1>fun, <2>1 DEF RunnerConnects, WakeTypes, grantVars, loopVars, wakeVars
<1>4. ASSUME NEW p \in Processes, Disconnects(p) PROVE WakeTypes'
  <2>1. stream' \in [Processes -> StreamStates]
    BY <1>4, <1>fun, <1>states DEF Disconnects, StreamStates
  <2>2. inbox' \in [Processes -> SUBSET (Kinds \X Jobs)]
    BY <1>4, <1>less DEF Disconnects
  <2>3. QED
    BY <1>4, <1>fun, <2>1, <2>2 DEF Disconnects, WakeTypes, grantVars, loopVars, wakeVars
<1>5. ASSUME NEW j \in Jobs, WorkerHears(j) PROVE WakeTypes'
  <2>1. inbox' \in [Processes -> SUBSET (Kinds \X Jobs)]
    BY <1>5, <1>fun DEF WorkerHears
  <2>2. QED
    BY <1>5, <1>fun, <1>wakes, <2>1 DEF WorkerHears, WakeTypes, grantVars
<1>6. ASSUME NEW e \in Kinds \X Jobs, RunnerHears(e) PROVE WakeTypes'
  <2>1. inbox' \in [Processes -> SUBSET (Kinds \X Jobs)]
    BY <1>6, <1>fun DEF RunnerHears
  <2>2. QED
    BY <1>6, <1>fun, <1>runs, <2>1 DEF RunnerHears, WakeTypes, grantVars
<1>7. ASSUME NEW j \in Jobs, Enqueue(j) PROVE WakeTypes'
  BY <1>7, <1>fun, <1>event, <1>publishing DEF Enqueue, grantVars, loopVars
<1>8. ASSUME NEW j \in Jobs, Cancel(j) PROVE WakeTypes'
  BY <1>8, <1>frees, <1>event, <1>publishing DEF Cancel, grantVars
<1>restarts. ASSUME NEW j \in Jobs, NEW k \in Jobs, RestartCancels(j, k) PROVE WakeTypes'
  BY <1>restarts, <1>frees, <1>event, <1>publishing DEF RestartCancels, grantVars
<1>9. ASSUME NEW t \in Teams, Grant(t) \/ Revoke(t) PROVE WakeTypes'
  BY <1>9, <1>fun DEF Grant, Revoke, ChangeGrants, WakeTypes, streamVars, loopVars, wakeVars
<1>10. ASSUME SettleGrants PROVE WakeTypes'
  <2>1. stream' \in [Processes -> StreamStates]
    <3>1. "ending" \in StreamStates
      BY DEF StreamStates
    <3>2. QED
      BY <1>10, <1>fun, <3>1 DEF SettleGrants, CloseRunnerStreams
  <2>2. inbox' \in [Processes -> SUBSET (Kinds \X Jobs)]
    <3>1. Lost \subseteq Jobs
      BY DEF Lost, Held
    <3>2. {<<"cancelled", j>> : j \in {k \in Lost : Reaches(Runner, "cancelled", k)}} \subseteq Kinds \X Jobs
      BY <1>event, <3>1
    <3>3. inbox[Runner] \cup {<<"cancelled", j>> : j \in {k \in Lost : Reaches(Runner, "cancelled", k)}}
            \in SUBSET (Kinds \X Jobs)
      BY <1>fun, <3>2
    <3>4. QED
      BY <1>10, <1>fun, <1>less, <3>3 DEF SettleGrants, Fence
  <2>3. QED
    BY <1>10, <1>fun, <1>frees, <2>1, <2>2 DEF SettleGrants, Fence, WakeTypes, wakeVars
<1>loops. ASSUME NEW p \in Processes, NEW x \in Places, loop' = [loop EXCEPT ![p] = x],
                 news' \in BOOLEAN, retry' \in BOOLEAN, freed' \subseteq Jobs,
                 UNCHANGED <<streamVars, overlap, told>>
          PROVE  WakeTypes'
  BY <1>loops, <1>fun, <1>places DEF WakeTypes, streamVars
<1>11. ASSUME WorkerStarts \/ WorkerClaimsNone \/ WorkerClaimFails \/ WorkerDecides \/ WorkerTimesOut
              \/ RunnerClaimsNone \/ RunnerClaimFails \/ RunnerBacksOff \/ RunnerTimesOut
       PROVE  WakeTypes'
  <2>1. \E p \in Processes : \E x \in Places : loop' = [loop EXCEPT ![p] = x]
    BY <1>11, <1>fun DEF WorkerStarts, WorkerClaimsNone, WorkerClaimFails, WorkerDecides, WorkerTimesOut,
                  RunnerClaimsNone, RunnerClaimFails, RunnerBacksOff, RunnerTimesOut, AtWorker, AtRunner, Places
  <2>2. news' \in BOOLEAN /\ retry' \in BOOLEAN /\ freed' \subseteq Jobs /\ UNCHANGED <<streamVars, overlap, told>>
    BY <1>11, <1>fun DEF WorkerStarts, WorkerClaimsNone, WorkerClaimFails, WorkerDecides, WorkerTimesOut,
                  RunnerClaimsNone, RunnerClaimFails, RunnerBacksOff, RunnerTimesOut, grantVars
  <2>3. QED
    BY <1>loops, <2>1, <2>2
<1>12. ASSUME NEW j \in Jobs, WorkerClaims(j) \/ RunnerClaims(j) \/ RunnerClaimIsLost(j) PROVE WakeTypes'
  <2>1. \E p \in Processes : \E x \in Places : loop' = [loop EXCEPT ![p] = x]
    BY <1>12, <1>fun DEF WorkerClaims, RunnerClaims, RunnerClaimIsLost, AtWorker, AtRunner, Places
  <2>2. news' \in BOOLEAN /\ retry' \in BOOLEAN /\ freed' \subseteq Jobs /\ UNCHANGED <<streamVars, overlap, told>>
    BY <1>12, <1>fun DEF WorkerClaims, RunnerClaims, RunnerClaimIsLost, grantVars
  <2>3. QED
    BY <1>loops, <2>1, <2>2
<1>13. ASSUME WorkerRetries PROVE WakeTypes'
  BY <1>13, <1>fun, <1>wakes DEF WorkerRetries, WakeTypes, streamVars, grantVars
<1>14. ASSUME NEW x \in Executions, WorkerEnds(x) PROVE WakeTypes'
  BY <1>14, <1>fun, <1>wakes DEF WorkerEnds, WakeTypes, streamVars, grantVars
<1>15. ASSUME NEW x \in Executions, RunnerEnds(x) PROVE WakeTypes'
  BY <1>15, <1>fun, <1>runs DEF RunnerEnds, WakeTypes, streamVars, grantVars
<1>16. CASE UNCHANGED <<stream, inbox, overlap, wakeVars>> /\ freed' \subseteq Jobs
  BY <1>16, <1>know DEF WakeTypes, wakeVars
<1>quiet. CASE UNCHANGED <<stream, inbox, overlap, loopVars>>
  BY <1>quiet, <1>16, <1>fun DEF loopVars
<1>sweep. ASSUME NEW j \in Jobs, ClearStaleJobs(j) PROVE WakeTypes'
  BY <1>sweep, <1>16, <1>frees DEF ClearStaleJobs, streamVars, grantVars
<1>ends. ASSUME NEW x \in Executions, NEW o \in Terminal, RunnerCompletes(x, o) PROVE WakeTypes'
  BY <1>ends, <1>16, <1>frees DEF RunnerCompletes, streamVars, grantVars
<1>17. QED
  BY <1>quiet, <1>sweep, <1>ends, <1>restarts, <1>1, <1>2, <1>3, <1>4, <1>5, <1>6, <1>7, <1>8, <1>9, <1>10, <1>11, <1>12, <1>13, <1>14, <1>15, <1>16
     DEF LiveNext, BrowserOpens, BrowserLeaves, RestartReads, RestartInserts, RestartFails, WorkerReports,
         WorkerWrites, WorkerRefuses, NoticeLost, NoticeRead, ClaimDelivery, SendPushes,
         SubscribePush, UnsubscribePush, streamVars, grantVars

-----------------------------------------------------------------------------
(* LiveUpdates: streams and grants.                                        *)

LEMMA ScopeKept == LiveInv /\ LiveNext => ScopeOK'
<1> SUFFICES ASSUME LiveInv, LiveNext PROVE ScopeOK'
  OBVIOUS
<1>know. /\ ScopeOK /\ stream \in [Processes -> StreamStates] /\ overlap \in BOOLEAN
         /\ Worker \in Processes /\ Runner \in Processes /\ Worker # Runner
  BY LiveConstants DEF LiveInv, WakeTypes, Processes
<1>stays. ASSUME stream'[Runner] = stream[Runner] \/ stream'[Runner] \in {"down", "ending"},
                 UNCHANGED <<scope, grantVars>>
          PROVE  ScopeOK'
  BY <1>know, <1>stays DEF ScopeOK, StreamsFollowGrants, grantVars
<1>publish. ASSUME NEW E, Publish(E) PROVE stream'[Runner] = stream[Runner] \/ stream'[Runner] \in {"down", "ending"}
  <2>1. \E slow : stream' = [p \in Processes |-> IF p \in slow THEN "ending" ELSE stream[p]]
    BY <1>publish DEF Publish
  <2>2. QED
    BY <1>know, <2>1
<1>1. ASSUME WorkerConnects PROVE ScopeOK'
  <2>1. stream'[Runner] = stream[Runner]
    BY <1>1, <1>know DEF WorkerConnects
  <2>2. QED
    BY <1>1, <1>stays, <2>1 DEF WorkerConnects
<1>2. ASSUME RunnerAsks PROVE ScopeOK'
  <2>1. stream'[Runner] = "asked" /\ scope' = grants /\ grants' = grants
    BY <1>2, <1>know DEF RunnerAsks
  <2>2. QED
    BY <2>1 DEF ScopeOK, StreamsFollowGrants
<1>3. ASSUME RunnerConnects PROVE ScopeOK'
  <2>1. stream[Runner] = "asked" /\ stream'[Runner] \in {"open", "down"} /\ UNCHANGED <<scope, grants, overlap>>
    BY <1>3, <1>know DEF RunnerConnects, grantVars
  <2>2. QED
    BY <1>know, <2>1 DEF ScopeOK, StreamsFollowGrants
<1>4. ASSUME NEW p \in Processes, Disconnects(p) PROVE ScopeOK'
  <2>1. stream'[Runner] = stream[Runner] \/ stream'[Runner] \in {"down", "ending"}
    BY <1>4, <1>know DEF Disconnects
  <2>2. QED
    BY <1>4, <1>stays, <2>1 DEF Disconnects
<1>5. ASSUME NEW j \in Jobs, Enqueue(j) PROVE ScopeOK'
  <2>1. stream'[Runner] = stream[Runner] \/ stream'[Runner] \in {"down", "ending"}
    BY <1>5, <1>publish DEF Enqueue, streamVars
  <2>2. UNCHANGED <<scope, grantVars>>
    BY <1>5 DEF Enqueue, streamVars, Publish
  <2>3. QED
    BY <1>stays, <2>1, <2>2
<1>6. ASSUME NEW j \in Jobs, Cancel(j) PROVE ScopeOK'
  <2>1. stream'[Runner] = stream[Runner] \/ stream'[Runner] \in {"down", "ending"}
    BY <1>6, <1>publish DEF Cancel, streamVars
  <2>2. UNCHANGED <<scope, grantVars>>
    BY <1>6 DEF Cancel, streamVars, Publish
  <2>3. QED
    BY <1>stays, <2>1, <2>2
<1>restarts. ASSUME NEW j \in Jobs, NEW k \in Jobs, RestartCancels(j, k) PROVE ScopeOK'
  <2>1. stream'[Runner] = stream[Runner] \/ stream'[Runner] \in {"down", "ending"}
    BY <1>restarts, <1>publish DEF RestartCancels
  <2>2. UNCHANGED <<scope, grantVars>>
    BY <1>restarts DEF RestartCancels, Publish
  <2>3. QED
    BY <1>stays, <2>1, <2>2
<1>7. ASSUME NEW t \in Teams, Grant(t) \/ Revoke(t) PROVE ScopeOK'
  <2>1. changing' = t /\ overlap' = (overlap \/ stream[Runner] = "asked") /\ stream' = stream
    BY <1>7 DEF Grant, Revoke, ChangeGrants, streamVars
  <2>2. t # None
    BY LiveConstants
  <2>3. QED
    BY <2>1, <2>2 DEF ScopeOK, StreamsFollowGrants
<1>8. ASSUME SettleGrants PROVE ScopeOK'
  <2>1. /\ stream'[Runner] = IF stream[Runner] = "open" THEN "ending" ELSE stream[Runner]
        /\ UNCHANGED <<scope, grants, overlap>>
    BY <1>8, <1>know DEF SettleGrants, CloseRunnerStreams
  <2>2. QED
    BY <1>know, <2>1 DEF ScopeOK, StreamsFollowGrants
<1>9. CASE UNCHANGED <<stream, scope, grantVars>>
  BY <1>9, <1>stays
<1>10. QED
  BY <1>restarts, <1>1, <1>2, <1>3, <1>4, <1>5, <1>6, <1>7, <1>8, <1>9
     DEF LiveNext, BrowserOpens, BrowserLeaves, WorkerHears, RunnerHears, RestartReads, RestartInserts, RestartFails,
         ClearStaleJobs, WorkerStarts, WorkerClaims,
         WorkerClaimsNone, WorkerClaimFails, WorkerDecides, WorkerTimesOut, WorkerRetries, WorkerReports,
         WorkerWrites, WorkerRefuses, WorkerEnds,
         RunnerClaims, RunnerClaimIsLost, RunnerClaimsNone, RunnerClaimFails, RunnerBacksOff, RunnerTimesOut,
         RunnerCompletes, RunnerEnds, NoticeLost, NoticeRead, ClaimDelivery, SendPushes, SubscribePush, UnsubscribePush,
         streamVars

-----------------------------------------------------------------------------
(* LiveUpdates: outcomes and notices.                                      *)

\* The outcome of a job stands, or it is noted that it was written over.
Stands ==
  /\ \A j \in Jobs : status[j] \in Terminal => status'[j] = status[j] \/ j \in overwritten'
  /\ overwritten \subseteq overwritten'

LEMMA OutcomesStand == LiveInv /\ LiveNext => Stands
<1> SUFFICES ASSUME LiveInv, LiveNext PROVE Stands
  OBVIOUS
<1>know. JobTypes /\ status \in [Jobs -> Statuses] /\ Worker \in Processes /\ Runner \in Processes
  BY DEF LiveInv, JobTypes, Processes
<1>over. Overwrites => Stands
  BY DEF Overwrites, Stands
\* One job, which is not over or stays as it is, moves.
<1>one. ASSUME NEW j \in Jobs, NEW x, status' = [status EXCEPT ![j] = x], overwritten' = overwritten,
               status[j] \in Terminal => x = status[j]
        PROVE  Stands
  BY <1>know, <1>one DEF Stands
<1>live. \A s \in {"none", "queued", "running"} : s \notin Terminal
  BY DEF Terminal
<1>1. ASSUME NEW j \in Jobs, Enqueue(j) PROVE Stands
  BY <1>1, <1>one, <1>live DEF Enqueue
<1>2. ASSUME NEW j \in Jobs, Cancel(j) PROVE Stands
  BY <1>2, <1>one, <1>live DEF Cancel
<1>3. ASSUME NEW j \in Jobs, NEW k \in Jobs, RestartInserts(j, k) PROVE Stands
  BY <1>3, <1>one, <1>live DEF RestartInserts
<1>4. ASSUME NEW j \in Jobs, NEW k \in Jobs, RestartCancels(j, k) PROVE Stands
  BY <1>4, <1>over DEF RestartCancels
<1>5. ASSUME NEW j \in Jobs, ClearStaleJobs(j) PROVE Stands
  BY <1>5, <1>over DEF ClearStaleJobs
<1>6. ASSUME SettleGrants PROVE Stands
  <2>1. \A j \in Lost : status[j] \in {"running", "cancelled"}
    BY DEF Lost, Held
  <2>2. status' = [j \in Jobs |-> IF j \in Lost THEN "cancelled" ELSE status[j]] /\ overwritten' = overwritten
    BY <1>6 DEF SettleGrants, Fence
  <2>3. QED
    BY <1>live, <2>1, <2>2 DEF Stands
<1>7. ASSUME NEW j \in Jobs, WorkerClaims(j) \/ RunnerClaims(j) \/ RunnerClaimIsLost(j) PROVE Stands
  <2>1. status' = [status EXCEPT ![j] = "running"] /\ status[j] = "queued"
    BY <1>7, <1>know, ClaimTyped DEF WorkerClaims, RunnerClaims, RunnerClaimIsLost
  <2>2. overwritten' = overwritten
    BY <1>7 DEF WorkerClaims, RunnerClaims, RunnerClaimIsLost
  <2>3. QED
    BY <1>one, <1>live, <2>1, <2>2
<1>8. ASSUME NEW x \in Executions, NEW o \in Terminal, WorkerWrites(x, o) PROVE Stands
  BY <1>8, <1>over DEF WorkerWrites
<1>9. ASSUME NEW x \in Executions, WorkerRefuses(x) PROVE Stands
  BY <1>9, <1>over DEF WorkerRefuses
<1>10. ASSUME NEW x \in Executions, NEW o \in Terminal, RunnerCompletes(x, o) PROVE Stands
  <2>1. /\ status' = [status EXCEPT ![x[1]] = IF status[x[1]] = "running" THEN o ELSE status[x[1]]]
        /\ overwritten' = overwritten
    BY <1>10 DEF RunnerCompletes
  <2>2. status[x[1]] \in Terminal => (IF status[x[1]] = "running" THEN o ELSE status[x[1]]) = status[x[1]]
    BY <1>live
  <2>3. QED
    BY <1>one, <2>1, <2>2, NoticeFacts
<1>11. CASE UNCHANGED <<status, overwritten>>
  BY <1>11 DEF Stands
<1>12. QED
  BY <1>1, <1>2, <1>3, <1>4, <1>5, <1>6, <1>7, <1>8, <1>9, <1>10, <1>11
     DEF LiveNext, BrowserOpens, BrowserLeaves, WorkerConnects, RunnerAsks, RunnerConnects, Disconnects,
         WorkerHears, RunnerHears, RestartReads, RestartFails, Grant, Revoke, ChangeGrants, WorkerStarts,
         WorkerClaimsNone, WorkerClaimFails, WorkerDecides, WorkerTimesOut, WorkerRetries, WorkerReports,
         WorkerEnds, RunnerClaimsNone, RunnerClaimFails, RunnerBacksOff, RunnerTimesOut, RunnerEnds, NoticeLost,
         NoticeRead, ClaimDelivery, SendPushes, SubscribePush, UnsubscribePush, jobVars, rowVars

\* What devices are told was true and is, unless it was written over; and of the
\* notices of a job one is sent.
LEMMA PushesKept == LiveInv /\ LiveNext => PushesOK'
<1> SUFFICES ASSUME LiveInv, LiveNext PROVE PushesOK'
  OBVIOUS
<1>know. /\ \A n \in Notices : ReadOK(n) /\ SendOK(n)
         /\ \A x \in sent : SentOK(x)
         /\ \A x, y \in sent :
              /\ Was(JobOf(x.notice), x.as)
              /\ JobOf(x.notice) = JobOf(y.notice) /\ x.device = y.device => x = y
  BY DEF LiveInv, PushesOK, ToldOnceOfTheOutcome, Was
<1>fun. /\ notice \in [Notices -> NoticeStates] /\ saw \in [Notices -> Statuses]
        /\ \A x \in sent : x.notice \in Notices
  BY DEF LiveInv, PushTypes
\* What was an outcome of a job still was one.
<1> DEFINE Still(j, o) == o \in Terminal /\ (o = status'[j] \/ j \in overwritten')
<1>was. ASSUME NEW j \in Jobs, NEW o, Was(j, o) PROVE Still(j, o)
  BY <1>was, OutcomesStand DEF Was, Stands
<1>told. \A x \in sent : Still(JobOf(x.notice), x.as)
  BY <1>know, <1>fun, <1>was, NoticeFacts
<1>read. \A n \in Notices : notice[n] \in {"read", "send"} => Still(JobOf(n), saw[n])
  BY <1>know, <1>was, NoticeFacts DEF ReadOK
\* Nothing is sent, and no notice comes to the sending.
<1>quiet. ASSUME sent' = sent, delivered \subseteq delivered',
                 \A n \in Notices : /\ notice'[n] \in {"read", "send"} => Still(JobOf(n), saw'[n])
                                    /\ notice'[n] = "send" => notice[n] = "send"
          PROVE  PushesOK'
  <2>1. ASSUME NEW n \in Notices PROVE ReadOK(n)' /\ SendOK(n)'
    <3>1. ReadOK(n)'
      BY <1>quiet DEF ReadOK, Was
    <3>2. SendOK(n)'
      BY <1>know, <1>quiet DEF SendOK
    <3>3. QED
      BY <3>1, <3>2
  <2>2. \A x \in sent' : SentOK(x)'
    BY <1>know, <1>quiet DEF SentOK
  <2>3. ToldOnceOfTheOutcome'
    BY <1>know, <1>told, <1>quiet DEF ToldOnceOfTheOutcome
  <2>4. QED
    BY <2>1, <2>2, <2>3 DEF PushesOK
\* One notice moves, and not towards the sending.
<1>put. ASSUME NEW n \in Notices, NEW s \in {"posted", "done"}, notice' = [notice EXCEPT ![n] = s],
               \A m \in Notices : m # n => saw'[m] = saw[m], UNCHANGED <<delivered, sent>>
        PROVE  PushesOK'
  <2>1. notice'[n] = s /\ \A m \in Notices : m # n => notice'[m] = notice[m]
    BY <1>fun, <1>put
  <2>2. ASSUME NEW m \in Notices
        PROVE  /\ notice'[m] \in {"read", "send"} => Still(JobOf(m), saw'[m])
               /\ notice'[m] = "send" => notice[m] = "send"
    <3>1. CASE m = n
      BY <2>1, <3>1
    <3>2. CASE m # n
      BY <1>put, <1>read, <2>1, <3>2
    <3>3. QED
      BY <3>1, <3>2
  <2>3. QED
    BY <1>put, <1>quiet, <2>2
<1>1. ASSUME NEW j \in Jobs, WorkerClaims(j) PROVE PushesOK'
  <2>1. <<Claimed(j), "start">> \in Notices
    BY <1>1, ClaimTyped, NoticeFacts DEF WorkerClaims, Processes, LiveInv
  <2>2. notice' = [notice EXCEPT ![<<Claimed(j), "start">>] = "posted"] /\ UNCHANGED <<saw, delivered, sent>>
    BY <1>1 DEF WorkerClaims
  <2>3. QED
    BY <1>put, <2>1, <2>2
<1>2. ASSUME NEW x \in Executions, WorkerReports(x) \/ WorkerEnds(x) PROVE PushesOK'
  <2>1. \E n \in Notices : notice' = [notice EXCEPT ![n] = "posted"]
    BY <1>2, NoticeFacts DEF WorkerReports, WorkerEnds
  <2>2. UNCHANGED <<saw, delivered, sent>>
    BY <1>2 DEF WorkerReports, WorkerEnds
  <2>3. QED
    BY <1>put, <2>1, <2>2
<1>3. ASSUME NEW n \in Notices, NoticeLost(n) PROVE PushesOK'
  <2>1. notice' = [notice EXCEPT ![n] = "done"] /\ saw' = [saw EXCEPT ![n] = "none"] /\ UNCHANGED <<delivered, sent>>
    BY <1>3 DEF NoticeLost
  <2>2. \A m \in Notices : m # n => saw'[m] = saw[m]
    BY <1>fun, <2>1
  <2>3. QED
    BY <1>put, <2>1, <2>2
<1>4. ASSUME NEW n \in Notices, NoticeRead(n) PROVE PushesOK'
  <2>1. CASE status[JobOf(n)] \in Terminal
    <3>1. /\ saw'[n] = status[JobOf(n)] /\ notice'[n] = "read"
          /\ \A m \in Notices : m # n => notice'[m] = notice[m] /\ saw'[m] = saw[m]
          /\ delivered' = delivered /\ sent' = sent
      BY <1>4, <1>fun, <2>1 DEF NoticeRead
    <3>2. Still(JobOf(n), saw'[n])
      BY <2>1, <3>1, <1>was, NoticeFacts DEF Was
    <3>3. ASSUME NEW m \in Notices
          PROVE  /\ notice'[m] \in {"read", "send"} => Still(JobOf(m), saw'[m])
                 /\ notice'[m] = "send" => notice[m] = "send"
      <4>1. CASE m = n
        BY <3>1, <3>2, <4>1
      <4>2. CASE m # n
        BY <1>read, <3>1, <4>2
      <4>3. QED
        BY <4>1, <4>2
    <3>4. QED
      BY <1>quiet, <3>1, <3>3
  <2>2. CASE status[JobOf(n)] \notin Terminal
    <3>1. notice' = [notice EXCEPT ![n] = "done"] /\ UNCHANGED <<saw, delivered, sent>>
      BY <1>4, <2>2 DEF NoticeRead
    <3>2. QED
      BY <1>put, <3>1
  <2>3. QED
    BY <2>1, <2>2
<1>5. ASSUME NEW n \in Notices, ClaimDelivery(n) PROVE PushesOK'
  <2>1. /\ notice[n] = "read" /\ notice'[n] = (IF JobOf(n) \in delivered THEN "done" ELSE "send")
        /\ \A m \in Notices : m # n => notice'[m] = notice[m]
        /\ delivered' = delivered \cup {JobOf(n)} /\ saw' = saw /\ sent' = sent
    BY <1>5, <1>fun DEF ClaimDelivery
  <2>2. ASSUME NEW m \in Notices PROVE notice'[m] \in {"read", "send"} => Still(JobOf(m), saw'[m])
    <3>1. CASE m = n
      BY <1>read, <2>1, <3>1
    <3>2. CASE m # n
      BY <1>read, <2>1, <3>2
    <3>3. QED
      BY <3>1, <3>2
  <2>3. CASE JobOf(n) \in delivered
    <3>1. \A m \in Notices : notice'[m] = "send" => notice[m] = "send"
      BY <2>1, <2>3
    <3>2. QED
      BY <1>quiet, <2>1, <2>2, <3>1
  <2>4. CASE JobOf(n) \notin delivered
    <3>1. ASSUME NEW m \in Notices PROVE SendOK(m)'
      <4>1. \A k \in Notices : notice[k] = "send" => JobOf(k) \in delivered
        BY <1>know DEF SendOK
      <4>2. CASE m = n
        <5>1. \A x \in sent' : JobOf(x.notice) # JobOf(n)
          BY <1>know, <2>1, <2>4 DEF SentOK
        <5>2. \A k \in Notices : notice'[k] = "send" /\ JobOf(k) = JobOf(n) => k = n
          BY <2>1, <2>4, <4>1
        <5>3. QED
          BY <2>1, <4>2, <5>1, <5>2 DEF SendOK
      <4>3. CASE m # n
        <5>1. SUFFICES ASSUME notice'[m] = "send"
                       PROVE  /\ JobOf(m) \in delivered' /\ \A x \in sent' : JobOf(x.notice) # JobOf(m)
                              /\ \A k \in Notices : notice'[k] = "send" /\ JobOf(k) = JobOf(m) => k = m
          BY DEF SendOK
        <5>2. notice[m] = "send"
          BY <2>1, <4>3, <5>1
        <5>3. JobOf(m) \in delivered /\ JobOf(m) # JobOf(n)
          BY <2>4, <4>1, <5>2
        <5>4. QED
          BY <1>know, <2>1, <5>2, <5>3 DEF SendOK
      <4>4. QED
        BY <4>2, <4>3
    <3>2. \A m \in Notices : ReadOK(m)'
      BY <2>2 DEF ReadOK, Was
    <3>3. \A x \in sent' : SentOK(x)'
      BY <1>know, <2>1 DEF SentOK
    <3>4. ToldOnceOfTheOutcome'
      BY <1>know, <1>told, <2>1 DEF ToldOnceOfTheOutcome
    <3>5. QED
      BY <3>1, <3>2, <3>3, <3>4 DEF PushesOK
  <2>5. QED
    BY <2>3, <2>4
<1>6. ASSUME NEW n \in Notices, SendPushes(n) PROVE PushesOK'
  <2>1. /\ notice[n] = "send" /\ notice'[n] = "done"
        /\ \A m \in Notices : m # n => notice'[m] = notice[m] /\ saw'[m] = saw[m]
        /\ delivered' = delivered
    BY <1>6, <1>fun DEF SendPushes
  <2>2. \A x \in sent' : x \in sent \/ \E d : x = [notice |-> n, device |-> d, as |-> saw[n]]
    BY <1>6 DEF SendPushes
  <2>3. /\ JobOf(n) \in delivered /\ (\A x \in sent : JobOf(x.notice) # JobOf(n)) /\ Still(JobOf(n), saw[n])
        /\ \A m \in Notices : notice[m] = "send" /\ JobOf(m) = JobOf(n) => m = n
    BY <1>know, <1>read, <2>1 DEF SendOK
  <2>4. \A x \in sent' : x \in sent \/ (x.notice = n /\ x.as = saw[n] /\ \E d : x = [notice |-> n, device |-> d, as |-> saw[n]])
    BY <2>2
  <2>5. ASSUME NEW m \in Notices PROVE ReadOK(m)'
    <3>1. CASE m = n
      BY <2>1, <3>1 DEF ReadOK
    <3>2. CASE m # n
      BY <1>read, <2>1, <3>2 DEF ReadOK, Was
    <3>3. QED
      BY <3>1, <3>2
  <2>6. ASSUME NEW m \in Notices PROVE SendOK(m)'
    <3>1. SUFFICES ASSUME notice'[m] = "send" PROVE /\ JobOf(m) \in delivered'
                                                    /\ \A x \in sent' : JobOf(x.notice) # JobOf(m)
                                                    /\ \A k \in Notices : notice'[k] = "send" /\ JobOf(k) = JobOf(m) => k = m
      BY DEF SendOK
    <3>2. m # n /\ notice[m] = "send"
      BY <2>1, <3>1
    <3>3. JobOf(m) # JobOf(n)
      BY <2>3, <3>2
    <3>4. \A x \in sent : JobOf(x.notice) # JobOf(m)
      BY <1>know, <3>2 DEF SendOK
    <3>5. \A x \in sent' : JobOf(x.notice) # JobOf(m)
      BY <2>4, <3>3, <3>4
    <3>6. QED
      BY <1>know, <2>1, <3>2, <3>5 DEF SendOK
  <2>7. \A x \in sent' : SentOK(x)'
    BY <1>know, <2>1, <2>3, <2>4 DEF SentOK
  <2>8. ASSUME NEW x \in sent', NEW y \in sent'
        PROVE  /\ Still(JobOf(x.notice), x.as)
               /\ JobOf(x.notice) = JobOf(y.notice) /\ x.device = y.device => x = y
    <3>1. Still(JobOf(x.notice), x.as)
      BY <1>told, <2>3, <2>4
    <3>2. CASE x \in sent /\ y \in sent
      BY <1>know, <3>1, <3>2
    <3>3. CASE x \notin sent /\ y \notin sent
      BY <2>2, <3>1, <3>3
    <3>4. CASE x \in sent /\ y \notin sent
      BY <2>3, <2>4, <3>1, <3>4
    <3>5. CASE x \notin sent /\ y \in sent
      BY <2>3, <2>4, <3>1, <3>5
    <3>6. QED
      BY <3>2, <3>3, <3>4, <3>5
  <2>9. ToldOnceOfTheOutcome'
    BY <2>8 DEF ToldOnceOfTheOutcome
  <2>10. QED
    BY <2>5, <2>6, <2>7, <2>9 DEF PushesOK
<1>7. ASSUME UNCHANGED <<notice, saw, delivered, sent>> PROVE PushesOK'
  BY <1>7, <1>quiet, <1>read
<1>8. QED
  BY <1>1, <1>2, <1>3, <1>4, <1>5, <1>6, <1>7
     DEF LiveNext, BrowserOpens, BrowserLeaves, WorkerConnects, RunnerAsks, RunnerConnects, Disconnects,
         WorkerHears, RunnerHears, Enqueue, Cancel, RestartReads, RestartInserts, RestartCancels, RestartFails,
         ClearStaleJobs, Grant, Revoke, ChangeGrants, SettleGrants, WorkerStarts, WorkerClaimsNone,
         WorkerClaimFails, WorkerDecides, WorkerTimesOut, WorkerRetries, WorkerWrites, WorkerRefuses,
         RunnerClaims, RunnerClaimIsLost, RunnerClaimsNone, RunnerClaimFails, RunnerBacksOff, RunnerTimesOut,
         RunnerCompletes, RunnerEnds, SubscribePush, UnsubscribePush, pushVars

-----------------------------------------------------------------------------
(* LiveUpdates: the worker's sleep.                                        *)

\* A worker that is about to wait, or waits, was woken since, will be, or has no place;
\* or of the jobs it was told of each that waits for a worker is excused, as AwakeWhenTold
\* has it.  No job is heard of before it is queued.
Rests      == loop[Worker] \in {"decide", "wait"}
Waits(j)   == status[j] = "queued" /\ \A k \in Kin(j) : status[k] # "running"
Excuse(j)  == j \in freed \/ \E x \in tasks[Worker] : j \in Kin(x[1])
Knows == \/ loop[Worker] = "decide" /\ news
         \/ retry \/ ~HasPlace(Worker)
         \/ \A j \in told : Waits(j) => Excuse(j)
AwakeOK ==
  /\ \A e \in inbox[Worker] : status[e[2]] # "none"
  /\ \A j \in told : status[j] # "none"
  /\ \A a \in restarting : a[2] # None => status[a[2]] # "none"
  /\ Rests => Knows

LEMMA KinFacts ==
  /\ \A j \in Jobs : j \in Kin(j) /\ Kin(j) \subseteq Jobs
  /\ \A j, k \in Jobs : k \in Kin(j) => j \in Kin(k)
BY DEF Kin

\* What comes to wait for a worker, by another's hand, is noted.
LEMMA FreesExcuse ==
  ASSUME JobTypes, Frees, NEW j \in Jobs, Waits(j)'
  PROVE  Waits(j) \/ j \in freed'
<1> DEFINE Moved == {k \in Jobs : status'[k] # status[k] /\ (status[k] = "running" \/ status'[k] = "queued")}
<1>1. \A k \in Moved : \A m \in Kin(k) : m \in freed'
  BY DEF Frees
<1>2. CASE status[j] # "queued"
  <2>1. j \in Moved
    BY <1>2 DEF Waits
  <2>2. QED
    BY <1>1, <2>1, KinFacts
<1>3. CASE status[j] = "queued" /\ \E k \in Kin(j) : status[k] = "running"
  <2>1. PICK k \in Kin(j) : status[k] = "running"
    BY <1>3
  <2>2. k \in Jobs /\ j \in Kin(k)
    BY KinFacts
  <2>3. status'[k] # "running"
    <3>1. \A m \in Kin(j) : status'[m] # "running"
      BY DEF Waits, Kin
    <3>2. QED
      BY <3>1
  <2>4. k \in Moved
    BY <2>1, <2>2, <2>3
  <2>5. QED
    BY <1>1, <2>2, <2>4
<1>4. QED
  BY <1>2, <1>3 DEF Waits

LEMMA AwakeKept == LiveInv /\ AwakeOK /\ LiveNext => AwakeOK'
<1> SUFFICES ASSUME LiveInv, AwakeOK, LiveNext PROVE AwakeOK'
  OBVIOUS
<1>know. /\ status \in [Jobs -> Statuses] /\ loop \in [Processes -> Places]
         /\ inbox \in [Processes -> SUBSET (Kinds \X Jobs)] /\ tasks \in [Processes -> SUBSET Executions]
         /\ told \subseteq Jobs /\ news \in BOOLEAN /\ retry \in BOOLEAN
         /\ restarting \subseteq Jobs \X (Jobs \cup {None})
         /\ Worker \in Processes /\ Runner \in Processes /\ Worker # Runner /\ JobTypes
  BY LiveConstants DEF LiveInv, JobTypes, WakeTypes, Processes
<1>awake. /\ \A e \in inbox[Worker] : status[e[2]] # "none" /\ e[2] \in Jobs
          /\ \A j \in told : status[j] # "none"
          /\ \A a \in restarting : a[2] # None => status[a[2]] # "none" /\ a[2] \in Jobs
          /\ Rests => Knows
  BY <1>know DEF AwakeOK
\* No step takes a job out of the table.
<1> DEFINE Listed == \A j \in Jobs : status[j] # "none" => status'[j] # "none"
           Restarts == \A a \in restarting' : a \in restarting \/ (a[2] # None => status'[a[2]] # "none")
           Hears == \A e \in inbox'[Worker] : e \in inbox[Worker] \/ status'[e[2]] # "none"
\* A step that tells the worker nothing, and after which what waits anew is excused.
<1>rest. ASSUME Listed, Restarts, Hears, freed \subseteq freed', told' = told, loop'[Worker] = loop[Worker],
                tasks'[Worker] = tasks[Worker], UNCHANGED <<news, retry>>,
                \A j \in told : Waits(j)' => Waits(j) \/ j \in freed' \/ \E x \in tasks[Worker] : j \in Kin(x[1])
         PROVE  AwakeOK'
  <2>1. HasPlace(Worker)' <=> HasPlace(Worker)
    BY <1>rest DEF HasPlace
  <2>2. \A j \in told : Excuse(j) => Excuse(j)'
    BY <1>rest DEF Excuse, Kin
  <2>3. \A j \in told : (Waits(j) => Excuse(j)) => (Waits(j)' => Excuse(j)')
    BY <1>rest, <2>2 DEF Excuse, Kin
  <2>4. Rests' => Knows'
    BY <1>awake, <1>rest, <2>1, <2>3 DEF Rests, Knows
  <2>5. QED
    BY <1>awake, <1>know, <1>rest, <2>4 DEF AwakeOK
\* A step after which the loop does not wait, nor is about to unless it was woken.
<1>up. ASSUME Listed, Restarts, inbox'[Worker] \subseteq inbox[Worker], \A j \in told' : status'[j] # "none",
              ~Rests' \/ (loop'[Worker] = "decide" /\ news')
       PROVE  AwakeOK'
  BY <1>awake, <1>know, <1>up DEF AwakeOK, Knows
\* A step that leaves what the worker knows alone.
<1>same. ASSUME UNCHANGED <<status, restarting>>, inbox'[Worker] \subseteq inbox[Worker],
                tasks'[Worker] = tasks[Worker], loop'[Worker] = loop[Worker], UNCHANGED <<news, retry, told, freed>>
         PROVE  AwakeOK'
  BY <1>same, <1>rest DEF Waits
<1>wakes. ASSUME WorkerWakes PROVE ~Rests' \/ (loop'[Worker] = "decide" /\ news')
  <2>1. news' /\ loop'[Worker] = IF loop[Worker] = "wait" THEN "top" ELSE loop[Worker]
    BY <1>wakes, <1>know DEF WorkerWakes
  <2>2. QED
    BY <2>1 DEF Rests
<1>runs. ASSUME RunnerWakes PROVE loop'[Worker] = loop[Worker]
  BY <1>runs, <1>know DEF RunnerWakes
<1>frees. ASSUME Frees PROVE /\ freed \subseteq freed'
                             /\ \A j \in told : Waits(j)' => Waits(j) \/ j \in freed'
  <2>1. freed \subseteq freed'
    BY <1>frees DEF Frees
  <2>2. QED
    BY <1>know, <1>frees, <2>1, FreesExcuse
<1>1. ASSUME WorkerConnects PROVE AwakeOK'
  BY <1>1, <1>awake, <1>up, <1>wakes DEF WorkerConnects, jobVars, rowVars
<1>2. ASSUME RunnerAsks PROVE AwakeOK'
  BY <1>2, <1>same, <1>runs DEF RunnerAsks, jobVars, rowVars, workVars
<1>3. ASSUME NEW p \in Processes, Disconnects(p) PROVE AwakeOK'
  <2>1. inbox'[Worker] \subseteq inbox[Worker]
    BY <1>3, <1>know DEF Disconnects
  <2>2. QED
    BY <1>3, <1>same, <2>1 DEF Disconnects, jobVars, rowVars, workVars, loopVars, wakeVars
<1>4. ASSUME NEW j \in Jobs, WorkerHears(j) PROVE AwakeOK'
  <2>1. inbox'[Worker] \subseteq inbox[Worker] /\ told' = told \cup {j} /\ status' = status /\ restarting' = restarting
    BY <1>4, <1>know DEF WorkerHears, jobVars, rowVars
  <2>2. status[j] # "none"
    BY <1>4, <1>awake DEF WorkerHears
  <2>3. WorkerWakes
    BY <1>4 DEF WorkerHears
  <2>4. QED
    BY <1>awake, <1>up, <1>wakes, <2>1, <2>2, <2>3
<1>5. ASSUME NEW e \in Kinds \X Jobs, RunnerHears(e) PROVE AwakeOK'
  <2>1. inbox'[Worker] = inbox[Worker] /\ loop'[Worker] = loop[Worker]
    BY <1>5, <1>know, <1>runs DEF RunnerHears
  <2>2. QED
    BY <1>5, <1>same, <2>1 DEF RunnerHears, jobVars, rowVars, workVars
<1>publish. ASSUME NEW j \in Jobs, NEW kind, Publish({<<kind, j>>}) \/ UNCHANGED streamVars
            PROVE  \A e \in inbox'[Worker] : e \in inbox[Worker] \/ e[2] = j
  <2>1. CASE Publish({<<kind, j>>})
    <3>1. inbox' = [p \in Processes |-> inbox[p] \cup {e \in {<<kind, j>>} : Reaches(p, e[1], e[2])}]
      BY <2>1 DEF Publish
    <3>2. QED
      BY <1>know, <3>1
  <2>2. CASE UNCHANGED streamVars
    BY <2>2 DEF streamVars
  <2>3. QED
    BY <1>publish, <2>1, <2>2
<1>6. ASSUME NEW j \in Jobs, Enqueue(j) PROVE AwakeOK'
  <2>1. /\ status[j] = "none" /\ status'[j] = "queued" /\ \A k \in Jobs : k # j => status'[k] = status[k]
        /\ restarting' = restarting /\ tasks' = tasks /\ UNCHANGED <<loop, news, retry, told, freed>>
    BY <1>6, <1>know DEF Enqueue, workVars, loopVars, wakeVars
  <2>2. \A e \in inbox'[Worker] : e \in inbox[Worker] \/ e[2] = j
    BY <1>6, <1>publish DEF Enqueue
  <2>3. \A k \in told : Waits(k)' => Waits(k)
    BY <1>awake, <1>know, <2>1, KinFacts DEF Waits, Kin
  <2>4. QED
    BY <1>know, <1>rest, <2>1, <2>2, <2>3
<1>7. ASSUME NEW j \in Jobs, Cancel(j) PROVE AwakeOK'
  <2>1. /\ status'[j] = "cancelled" /\ \A k \in Jobs : k # j => status'[k] = status[k]
        /\ restarting' = restarting /\ tasks' = tasks /\ UNCHANGED <<loop, news, retry, told>> /\ Frees
    BY <1>7, <1>know DEF Cancel, workVars, wakeVars
  <2>2. \A e \in inbox'[Worker] : e \in inbox[Worker] \/ e[2] = j
    BY <1>7, <1>publish DEF Cancel
  <2>3. QED
    BY <1>know, <1>frees, <1>rest, <2>1, <2>2
<1>8. ASSUME NEW j \in Jobs, RestartReads(j) PROVE AwakeOK'
  <2>1. /\ restarting' = restarting \cup {<<j, None>>} /\ status' = status /\ tasks' = tasks /\ inbox' = inbox
        /\ UNCHANGED <<loop, news, retry, told, freed>>
    BY <1>8 DEF RestartReads, rowVars, workVars, streamVars, loopVars, wakeVars
  <2>2. \A k \in told : Waits(k)' => Waits(k)
    BY <2>1 DEF Waits
  <2>3. QED
    BY <1>rest, <2>1, <2>2
<1>9. ASSUME NEW j \in Jobs, NEW k \in Jobs, RestartInserts(j, k) PROVE AwakeOK'
  <2>1. /\ restarting' = (restarting \ {<<j, None>>}) \cup {<<j, k>>} /\ tasks' = tasks /\ inbox' = inbox
        /\ status[k] = "none" /\ status'[k] = "queued" /\ \A m \in Jobs : m # k => status'[m] = status[m]
        /\ UNCHANGED <<loop, news, retry, told, freed>>
    BY <1>9, <1>know DEF RestartInserts, workVars, streamVars, loopVars, wakeVars
  <2>2. \A m \in told : Waits(m)' => Waits(m)
    BY <1>awake, <1>know, <2>1, KinFacts DEF Waits, Kin
  <2>3. Restarts
    BY <2>1
  <2>4. QED
    BY <1>rest, <2>1, <2>2, <2>3
<1>10. ASSUME NEW j \in Jobs, NEW k \in Jobs, RestartCancels(j, k) PROVE AwakeOK'
  <2>1. /\ restarting' \subseteq restarting /\ tasks' = tasks /\ Frees /\ Publish({<<"available", k>>})
        /\ status'[j] = "cancelled" /\ \A m \in Jobs : m # j => status'[m] = status[m]
        /\ UNCHANGED <<loop, news, retry, told>>
    BY <1>10, <1>know DEF RestartCancels, workVars, wakeVars
  <2>2. status[k] # "none"
    <3>1. <<j, k>> \in restarting /\ k # None
      BY <1>10 DEF RestartCancels
    <3>2. QED
      BY <1>awake, <3>1
  <2>3. \A e \in inbox'[Worker] : e \in inbox[Worker] \/ e[2] = k
    BY <1>publish, <2>1
  <2>4. QED
    BY <1>know, <1>frees, <1>rest, <2>1, <2>2, <2>3
<1>11. ASSUME NEW a \in restarting, RestartFails(a) PROVE AwakeOK'
  <2>1. /\ restarting' \subseteq restarting /\ status' = status /\ tasks' = tasks /\ inbox' = inbox
        /\ UNCHANGED <<loop, news, retry, told, freed>>
    BY <1>11 DEF RestartFails, rowVars, workVars, streamVars, loopVars, wakeVars
  <2>2. \A k \in told : Waits(k)' => Waits(k)
    BY <2>1 DEF Waits
  <2>3. QED
    BY <1>rest, <2>1, <2>2
<1>12. ASSUME NEW j \in Jobs, ClearStaleJobs(j) PROVE AwakeOK'
  <2>1. /\ restarting' = restarting /\ tasks' = tasks /\ inbox' = inbox /\ UNCHANGED <<loop, news, retry, told>> /\ Frees
        /\ \A m \in Jobs : status'[m] = status[m] \/ status'[m] = "queued"
    BY <1>12, <1>know DEF ClearStaleJobs, workVars, streamVars, wakeVars
  <2>2. QED
    BY <1>frees, <1>rest, <2>1
<1>13. ASSUME SettleGrants PROVE AwakeOK'
  <2>1. status' = [j \in Jobs |-> IF j \in Lost THEN "cancelled" ELSE status[j]] /\ Frees
    BY <1>13 DEF SettleGrants, Fence
  <2>2. inbox'[Worker] = inbox[Worker]
    BY <1>13, <1>know DEF SettleGrants, Fence
  <2>3. restarting' = restarting /\ tasks' = tasks /\ UNCHANGED <<loop, news, retry, told>>
    BY <1>13 DEF SettleGrants, workVars, wakeVars
  <2>4. QED
    BY <1>frees, <1>rest, <2>1, <2>2, <2>3
<1>at. ASSUME NEW a, NEW b, AtWorker(a, b) PROVE loop[Worker] = a /\ loop'[Worker] = b
  BY <1>at, <1>know DEF AtWorker
<1>14. ASSUME WorkerStarts PROVE AwakeOK'
  <2>1. loop'[Worker] = "claim"
    BY <1>14, <1>at DEF WorkerStarts
  <2>2. QED
    BY <1>14, <1>awake, <1>up, <2>1 DEF WorkerStarts, jobVars, rowVars, streamVars, Rests
<1>15. ASSUME NEW j \in Jobs, WorkerClaims(j) PROVE AwakeOK'
  <2>1. loop'[Worker] = "claim"
    BY <1>15, <1>at DEF WorkerClaims
  <2>2. Listed
    BY <1>15, <1>know, ClaimTyped DEF WorkerClaims
  <2>3. restarting' = restarting /\ inbox' = inbox /\ told' = told
    BY <1>15 DEF WorkerClaims, streamVars
  <2>4. QED
    BY <1>awake, <1>know, <1>up, <2>1, <2>2, <2>3 DEF Rests
<1>16. ASSUME WorkerClaimsNone PROVE AwakeOK'
  <2>1. /\ loop'[Worker] = "decide"
        /\ UNCHANGED <<status, restarting, tasks, inbox, news, retry, told>>
    BY <1>16, <1>at DEF WorkerClaimsNone, jobVars, rowVars, workVars, streamVars
  <2>2. Claimable(Worker) = {}
    BY <1>16 DEF WorkerClaimsNone
  <2>3. ~HasPlace(Worker) \/ \A j \in Jobs : ~Waits(j)
    BY <1>know, <2>2 DEF Claimable, Waits
  <2>4. Knows'
    BY <1>know, <2>1, <2>3 DEF Knows, HasPlace, Waits
  <2>5. QED
    BY <1>awake, <2>1, <2>4 DEF AwakeOK
<1>17. ASSUME WorkerClaimFails PROVE AwakeOK'
  <2>1. retry' = TRUE /\ UNCHANGED <<status, restarting, inbox, told>>
    BY <1>17 DEF WorkerClaimFails, jobVars, rowVars, streamVars
  <2>2. Knows'
    BY <2>1 DEF Knows
  <2>3. QED
    BY <1>awake, <2>1, <2>2 DEF AwakeOK
<1>18. ASSUME WorkerDecides PROVE AwakeOK'
  <2>1. /\ loop[Worker] = "decide" /\ loop'[Worker] = (IF news THEN "top" ELSE "wait")
        /\ UNCHANGED <<status, restarting, tasks, inbox, news, retry, told, freed>>
    BY <1>18, <1>at DEF WorkerDecides, jobVars, rowVars, workVars, streamVars
  <2>2. Rests' => Knows'
    BY <1>awake, <2>1 DEF Rests, Knows, HasPlace, Waits, Excuse
  <2>3. QED
    BY <1>awake, <2>1, <2>2 DEF AwakeOK
<1>19. ASSUME WorkerTimesOut PROVE AwakeOK'
  <2>1. loop'[Worker] = "top"
    BY <1>19, <1>at DEF WorkerTimesOut
  <2>2. QED
    BY <1>19, <1>awake, <1>up, <2>1 DEF WorkerTimesOut, jobVars, rowVars, streamVars, Rests
<1>20. ASSUME WorkerRetries PROVE AwakeOK'
  BY <1>20, <1>awake, <1>up, <1>wakes DEF WorkerRetries, jobVars, rowVars, streamVars
\* An execution of the worker's own writes its job's outcome: its group waits on.
<1>21. ASSUME NEW x \in Executions, NEW s \in Terminal, x \in tasks[Worker],
              status' = [status EXCEPT ![x[1]] = s],
              UNCHANGED <<restarting, tasks, inbox, loop, news, retry, told, freed>>
       PROVE  AwakeOK'
  <2>1. x[1] \in Jobs /\ s \notin {"none", "queued", "running"}
    BY NoticeFacts DEF Terminal
  <2>2. status'[x[1]] = s /\ \A k \in Jobs : k # x[1] => status'[k] = status[k]
    BY <1>know, <1>21, <2>1
  <2>3. \A j \in told : Waits(j)' => Waits(j) \/ j \in Kin(x[1])
    <3>1. SUFFICES ASSUME NEW j \in told, Waits(j)', ~Waits(j) PROVE j \in Kin(x[1])
      OBVIOUS
    <3>2. status[j] = "queued" /\ \A k \in Kin(j) : status'[k] # "running"
      BY <1>know, <2>1, <2>2, <3>1 DEF Waits, Kin
    <3>3. PICK k \in Kin(j) : status[k] = "running"
      BY <3>1, <3>2 DEF Waits
    <3>4. k = x[1]
      BY <1>know, <2>2, <3>2, <3>3, KinFacts
    <3>5. QED
      BY <1>know, <3>3, <3>4, KinFacts
  <2>4. Listed
    BY <2>1, <2>2
  <2>5. QED
    BY <1>rest, <1>21, <2>3, <2>4
<1>22. ASSUME NEW x \in Executions, NEW o \in Terminal, WorkerWrites(x, o) PROVE AwakeOK'
  <2>1. PICK s \in Terminal : status' = [status EXCEPT ![x[1]] = s]
    BY <1>22 DEF WorkerWrites, Terminal
  <2>2. x \in tasks[Worker] /\ UNCHANGED <<restarting, tasks, inbox, loop, news, retry, told, freed>>
    BY <1>22 DEF WorkerWrites, streamVars, loopVars, wakeVars
  <2>3. QED
    BY <1>21, <2>1, <2>2
<1>23. ASSUME NEW x \in Executions, WorkerRefuses(x) PROVE AwakeOK'
  <2>1. status' = [status EXCEPT ![x[1]] = "failed"] /\ "failed" \in Terminal
    BY <1>23 DEF WorkerRefuses, Terminal
  <2>2. x \in tasks[Worker] /\ UNCHANGED <<restarting, tasks, inbox, loop, news, retry, told, freed>>
    BY <1>23 DEF WorkerRefuses, streamVars, loopVars, wakeVars
  <2>3. QED
    BY <1>21, <2>1, <2>2
<1>24. ASSUME NEW x \in Executions, WorkerEnds(x) PROVE AwakeOK'
  <2>1. UNCHANGED <<status, restarting, inbox, told>> /\ WorkerWakes
    BY <1>24 DEF WorkerEnds, rowVars, streamVars
  <2>2. QED
    BY <1>awake, <1>up, <1>wakes, <2>1
<1>atr. ASSUME NEW S, NEW b, AtRunner(S, b) PROVE loop'[Worker] = loop[Worker]
  BY <1>atr, <1>know DEF AtRunner
\* A job that the runner claims waits no longer, nor does its group.
<1>25. ASSUME NEW j \in Jobs, RunnerClaims(j) \/ RunnerClaimIsLost(j) PROVE AwakeOK'
  <2>1. status[j] = "queued" /\ status'[j] = "running" /\ \A k \in Jobs : k # j => status'[k] = status[k]
    BY <1>25, <1>know, ClaimTyped DEF RunnerClaims, RunnerClaimIsLost
  <2>2. loop'[Worker] = loop[Worker] /\ tasks'[Worker] = tasks[Worker]
    BY <1>25, <1>atr, <1>know DEF RunnerClaims, RunnerClaimIsLost, workVars
  <2>3. UNCHANGED <<restarting, inbox, news, retry, told, freed>>
    BY <1>25 DEF RunnerClaims, RunnerClaimIsLost, streamVars
  <2>4. \A k \in told : Waits(k)' => Waits(k)
    BY <1>know, <2>1, KinFacts DEF Waits, Kin
  <2>5. QED
    BY <1>know, <1>rest, <2>1, <2>2, <2>3, <2>4
<1>26. ASSUME RunnerClaimsNone \/ RunnerClaimFails \/ RunnerBacksOff \/ RunnerTimesOut PROVE AwakeOK'
  <2>1. loop'[Worker] = loop[Worker]
    BY <1>26, <1>atr DEF RunnerClaimsNone, RunnerClaimFails, RunnerBacksOff, RunnerTimesOut
  <2>2. UNCHANGED <<jobVars, inbox, news, retry, told, freed>>
    BY <1>26 DEF RunnerClaimsNone, RunnerClaimFails, RunnerBacksOff, RunnerTimesOut, streamVars
  <2>3. QED
    BY <1>same, <2>1, <2>2 DEF jobVars, rowVars, workVars
<1>27. ASSUME NEW x \in Executions, NEW o \in Terminal, RunnerCompletes(x, o) PROVE AwakeOK'
  <2>1. x[1] \in Jobs /\ o \notin {"none", "queued", "running"}
    BY NoticeFacts DEF Terminal
  <2>2. /\ status' = [status EXCEPT ![x[1]] = IF status[x[1]] = "running" THEN o ELSE status[x[1]]] /\ Frees
        /\ UNCHANGED <<restarting, tasks, inbox, loop, news, retry, told>>
    BY <1>27 DEF RunnerCompletes, workVars, streamVars, wakeVars
  <2>3. Listed
    BY <1>know, <2>1, <2>2
  <2>4. QED
    BY <1>frees, <1>rest, <2>2, <2>3
<1>28. ASSUME NEW x \in Executions, RunnerEnds(x) PROVE AwakeOK'
  <2>1. tasks'[Worker] = tasks[Worker] /\ loop'[Worker] = loop[Worker]
    BY <1>28, <1>know, <1>runs DEF RunnerEnds
  <2>2. UNCHANGED <<status, restarting, inbox, news, retry, told, freed>>
    BY <1>28 DEF RunnerEnds, rowVars, streamVars
  <2>3. QED
    BY <1>same, <2>1, <2>2
<1>29. CASE UNCHANGED <<jobVars, inbox, loopVars>>
  BY <1>29, <1>same DEF jobVars, rowVars, workVars, loopVars, wakeVars
<1>30. QED
  BY <1>1, <1>2, <1>3, <1>4, <1>5, <1>6, <1>7, <1>8, <1>9, <1>10, <1>11, <1>12, <1>13, <1>14, <1>15, <1>16, <1>17,
     <1>18, <1>19, <1>20, <1>22, <1>23, <1>24, <1>25, <1>26, <1>27, <1>28, <1>29
     DEF LiveNext, BrowserOpens, BrowserLeaves, RunnerConnects, Grant, Revoke, ChangeGrants, WorkerReports,
         NoticeLost, NoticeRead, ClaimDelivery, SendPushes, SubscribePush, UnsubscribePush, streamVars

-----------------------------------------------------------------------------
(* LiveUpdates: the theorems.                                              *)

LEMMA LiveBegins == LiveInit => LiveInv /\ AwakeOK
<1> SUFFICES ASSUME LiveInit PROVE LiveInv /\ AwakeOK
  OBVIOUS
<1>1. JobTypes
  BY LiveConstants DEF LiveInit, JobTypes, Statuses, Leases
<1>2. WakeTypes
  BY DEF LiveInit, WakeTypes, StreamStates, Places
<1>3. PushTypes
  BY DEF LiveInit, PushTypes, NoticeStates, Statuses
<1>4. ScopeOK
  BY LiveConstants DEF LiveInit, ScopeOK, StreamsFollowGrants, Processes
<1>5. PushesOK
  BY DEF LiveInit, PushesOK, ReadOK, SendOK, SentOK, ToldOnceOfTheOutcome
<1>6. AwakeOK
  BY DEF LiveInit, AwakeOK, Rests, Processes
<1>7. QED
  BY <1>1, <1>2, <1>3, <1>4, <1>5, <1>6 DEF LiveInv

LEMMA LiveKeeps == LiveInv /\ [LiveNext]_liveVars => LiveInv'
<1> SUFFICES ASSUME LiveInv, [LiveNext]_liveVars PROVE LiveInv'
  OBVIOUS
<1>1. CASE LiveNext
  BY <1>1, JobsTyped, WakesTyped, PushesTyped, ScopeKept, PushesKept DEF LiveInv
<1>2. CASE UNCHANGED liveVars
  <2>1. /\ UNCHANGED <<deployed, status, claims, lease, tasks, wrote, restarting, overwritten>>
        /\ UNCHANGED <<stream, inbox, overlap, loop, news, retry, told, freed>>
        /\ UNCHANGED <<notice, saw, delivered, devices, sent>>
        /\ UNCHANGED <<scope, grants, changing>>
    BY <1>2 DEF liveVars, jobVars, rowVars, workVars, streamVars, grantVars, loopVars, wakeVars, pushVars
  <2>2. JobTypes' /\ WakeTypes' /\ PushTypes'
    BY <2>1 DEF LiveInv, JobTypes, WakeTypes, PushTypes
  <2>3. ScopeOK'
    BY <2>1 DEF LiveInv, ScopeOK, StreamsFollowGrants
  <2>4. PushesOK'
    BY <2>1 DEF LiveInv, PushesOK, ReadOK, Was, SendOK, SentOK, ToldOnceOfTheOutcome
  <2>5. QED
    BY <2>2, <2>3, <2>4 DEF LiveInv
<1>3. QED
  BY <1>1, <1>2

\* The invariant of the live updates holds in every state.
THEOREM LiveInvariance == LiveSpec => []LiveInv
BY LiveBegins, LiveKeeps, PTL DEF LiveSpec

\* A device is told of a job once, although several notices of its executions may find it
\* over; and what it was told is an outcome of the job, which the job keeps unless one of
\* the four statements that write over an outcome did (push_deliveries in src/push.ts).
THEOREM DevicesAreToldOnce == LiveSpec => []ToldOnceOfTheOutcome
<1>1. LiveInv => ToldOnceOfTheOutcome
  BY DEF LiveInv, PushesOK
<1>2. QED
  BY <1>1, LiveInvariance, PTL

\* A runner's open stream carries the workspaces the runner has, unless the change is
\* under way or overlapped the request for the stream (closeRunnerStreams).
THEOREM OpenStreamsFollowGrants == LiveSpec => []StreamsFollowGrants
<1>1. LiveInv => StreamsFollowGrants
  BY DEF LiveInv, ScopeOK
<1>2. QED
  BY <1>1, LiveInvariance, PTL

\* Whoever runs jobs hears of those it may run: a worker never sleeps on a job it was told
\* of and may claim, at whatever moment of its claim round the event came, unless another
\* process gave way to the job since, or an execution of the worker's own is of its group
\* (wakeVersion in src/worker.ts); whichever kinds of worker are deployed.
THEOREM WorkersHearOfJobs == LiveSpec => []WorkersHear
<1>1. LiveInv /\ AwakeOK /\ [LiveNext]_liveVars => AwakeOK'
  <2> SUFFICES ASSUME LiveInv, AwakeOK, [LiveNext]_liveVars PROVE AwakeOK'
    OBVIOUS
  <2>1. CASE LiveNext
    BY <2>1, AwakeKept
  <2>2. CASE UNCHANGED liveVars
    BY <2>2 DEF AwakeOK, Rests, Knows, HasPlace, Waits, Excuse, liveVars, jobVars, rowVars, workVars,
                streamVars, loopVars, wakeVars
  <2>3. QED
    BY <2>1, <2>2
<1>2. LiveInv /\ AwakeOK => WorkersHear
  <2> SUFFICES ASSUME LiveInv, AwakeOK PROVE WorkersHear
    OBVIOUS
  <2>1. AwakeWhenTold
    <3> SUFFICES ASSUME loop[Worker] = "wait", ~retry, NEW j \in told \cap Claimable(Worker) PROVE Excuse(j)
      BY DEF AwakeWhenTold, Excuse
    <3>1. HasPlace(Worker) /\ Waits(j)
      BY DEF Claimable, Waits
    <3>2. QED
      BY <3>1 DEF AwakeOK, Rests, Knows
  <2>2. QED
    BY <2>1 DEF LiveInv, ScopeOK, WorkersHear
<1>3. QED
  BY <1>1, <1>2, LiveBegins, LiveInvariance, PTL DEF LiveSpec

-----------------------------------------------------------------------------
(* RunPages: the invariant.                                                *)

\* A request of the list, once it was sent.
RefreshKinds == {"plain", "direct", "search"}
AskKinds == RefreshKinds \cup {"more"}
Shown == 0..Over
SentAsks ==
  [kind : AskKinds, gen : 0..MaxChoices, sel : Selections, after : Nat, before : Nat,
   read : BOOLEAN, rows : [Runs -> Shown], more : BOOLEAN]
Requested == {"none", "sent", "read"}

ListTypes ==
  /\ selection \in Selections /\ generation \in 0..MaxChoices
  /\ shown \in [Runs -> Shown] /\ hasMore \in BOOLEAN /\ loadingMore \in BOOLEAN
  /\ refreshing \in BOOLEAN /\ refreshPending \in BOOLEAN /\ searchInProgress \in BOOLEAN
  /\ asks \in [Slots -> SentAsks \cup {Free}] /\ stray \in BOOLEAN
RunTypes ==
  /\ report \in Shown /\ fetch \in Requested /\ fetched \in Shown /\ fetchAgain \in BOOLEAN
  /\ heard \in Shown /\ fetchFailed \in BOOLEAN
InvocationTypes ==
  /\ open \subseteq [newest : BOOLEAN, read : Shown]
  /\ viewed \in Shown
PageTypeOK == at \in [Runs -> Shown] /\ ListTypes /\ RunTypes /\ InvocationTypes

\* A request is of a selection that the list has now or had before; what was read
\* for it is of that selection.
AskOK(s) ==
  asks[s] # Free =>
    /\ asks[s].gen <= generation
    /\ asks[s].gen = generation => asks[s].sel = selection
    /\ \A r \in Runs : asks[s].rows[r] # Nothing => RunSelection[r] = asks[s].sel
ListOK ==
  /\ \A s \in Slots : AskOK(s)
  /\ ~stray => \A r \in Runs : shown[r] # Nothing => RunSelection[r] = selection

\* What was read for the page of a run is as new as the last event it heard, or
\* the page asks again.
RunOK ==
  /\ heard <= at[1]
  /\ fetch = "read" => fetchAgain \/ fetched >= heard
  /\ EventsAreFetched

\* One request of the page of an invocation is its newest, and what was read for
\* it is as new as what the page shows.
InvocationOK ==
  /\ viewed <= at[1]
  /\ \A a \in open : a.read <= at[1] /\ (a.newest /\ a.read # Nothing => viewed <= a.read)
  /\ \A a, b \in open : a.newest /\ b.newest => a = b

PagesInv == PageTypeOK /\ ListOK /\ RunOK /\ InvocationOK

-----------------------------------------------------------------------------
(* RunPages: what a request asks for.                                      *)

\* Entries and runs are numbers.
LEMMA PageFacts ==
  /\ Over \in Nat \ {0} /\ Shown \subseteq Nat /\ Nothing \in Shown /\ Runs \subseteq Nat \ {0} /\ 1 \in Runs
  /\ \A r \in Runs : r <= MaxRun
BY PageConstants DEF Over, Shown, Nothing, Runs

\* A set of numbers that is not empty has a least member.
LEMMA MinIsMember ==
  ASSUME NEW S, S \subseteq Nat, S # {}
  PROVE  Min(S) \in S /\ \A y \in S : Min(S) <= y
<1> DEFINE T == {0..x : x \in S}
<1>1. T \subseteq FiniteSubsetsOf(Nat) /\ T # {}
  <2>1. \A x \in Nat : IsFiniteSet(0..x) /\ 0..x \in SUBSET Nat
    BY FS_Interval
  <2>2. QED
    BY <2>1 DEF FiniteSubsetsOf
<1>2. IsWellFoundedOn(StrictSubsetOrdering(Nat), FiniteSubsetsOf(Nat))
  BY FS_StrictSubsetOrderingWellFounded
<1>3. \E X \in T : \A Y \in T : ~(<<Y, X>> \in StrictSubsetOrdering(Nat))
  <2> HIDE DEF T
  <2> QED
    BY <1>1, <1>2, WFMin
<1>4. PICK m \in S : \A y \in S : ~(<<0..y, 0..m>> \in StrictSubsetOrdering(Nat))
  BY <1>3
<1>5. \A y \in S : m <= y
  <2> SUFFICES ASSUME NEW y \in S, y < m PROVE FALSE
    OBVIOUS
  <2>1. 0..y \in SUBSET Nat /\ 0..m \in SUBSET Nat /\ 0..y \subseteq 0..m
    OBVIOUS
  <2>2. m \in 0..m /\ m \notin 0..y
    OBVIOUS
  <2>3. QED
    BY <1>4, <2>1, <2>2 DEF StrictSubsetOrdering
<1>6. QED
  BY <1>5 DEF Min

\* A bounded one has a greatest.
LEMMA MaxIsMember ==
  ASSUME NEW n \in Nat, NEW S, S \subseteq 0..n, S # {}
  PROVE  Max(S) \in S
<1> DEFINE T == {n - x : x \in S}
<1>1. T \subseteq Nat /\ T # {}
  <2>1. \A x \in 0..n : n - x \in Nat
    OBVIOUS
  <2>2. QED
    BY <2>1
<1>2. Min(T) \in T /\ \A y \in T : Min(T) <= y
  BY <1>1, MinIsMember
<1>3. PICK x \in S : Min(T) = n - x
  BY <1>2
<1>4. \A y \in S : x >= y
  <2> TAKE y \in S
  <2>1. n - y \in T
    OBVIOUS
  <2>2. n - x <= n - y
    BY <1>2, <1>3, <2>1
  <2>3. x \in Nat /\ y \in Nat
    OBVIOUS
  <2> HIDE DEF T
  <2>4. QED
    BY <2>2, <2>3
<1>5. QED
  BY <1>4 DEF Max

\* A refresh asks below the oldest active run that is shown, or after the newest.
LEMMA AfterIsARun == ASSUME NEW list PROVE After(list) \in Nat
<1> DEFINE drawn == {r \in Runs : list[r] # Nothing}
           active == {r \in drawn : Active(list[r])}
<1>1. drawn \subseteq 0..MaxRun /\ active \subseteq Nat \ {0} /\ MaxRun \in Nat
  BY PageFacts, PageConstants DEF Runs
<1>2. active # {} => Min(active) \in active
  BY <1>1, MinIsMember
<1>3. drawn # {} => Max(drawn) \in drawn
  BY <1>1, MaxIsMember
<1> HIDE DEF drawn, active
<1>4. /\ active # {} => Min(active) - 1 \in Nat
      /\ drawn # {} => Max(drawn) \in Nat
  <2>1. ASSUME NEW m \in Nat \ {0} PROVE m - 1 \in Nat
    OBVIOUS
  <2>2. \A m \in 0..MaxRun : m \in Nat
    OBVIOUS
  <2>3. active # {} => Min(active) \in Nat \ {0}
    BY <1>1, <1>2
  <2>4. QED
    BY <1>1, <1>3, <2>1, <2>2, <2>3
<1>5. (IF active # {} THEN Min(active) - 1 ELSE IF drawn = {} THEN 0 ELSE Max(drawn)) \in Nat
  BY <1>4
<1>6. QED
  BY <1>5 DEF After, drawn, active

\* A request that is sent has no rows yet.
LEMMA RefreshIsSent ==
  ASSUME NEW kind \in AskKinds, NEW list, NEW sel \in Selections, NEW gen \in 0..MaxChoices
  PROVE  /\ Refresh(kind, list, sel, gen) \in SentAsks /\ Refresh(kind, list, sel, gen) # Free
         /\ Refresh(kind, list, sel, gen).gen = gen /\ Refresh(kind, list, sel, gen).sel = sel
         /\ \A r \in Runs : Refresh(kind, list, sel, gen).rows[r] = Nothing
<1>1. After(list) \in Nat /\ MaxRun + 1 \in Nat
  BY AfterIsARun, PageConstants
<1>2. NoRows \in [Runs -> Shown] /\ \A r \in Runs : NoRows[r] = Nothing
  BY PageFacts DEF NoRows
<1>3. Refresh(kind, list, sel, gen) \in SentAsks /\ Refresh(kind, list, sel, gen).kind = kind
  BY <1>1, <1>2 DEF Refresh, SentAsks
<1>4. Free.kind = "none" /\ kind # "none"
  BY DEF Free, AskKinds, RefreshKinds
<1>5. QED
  BY <1>2, <1>3, <1>4 DEF Refresh

-----------------------------------------------------------------------------
(* RunPages: the list keeps it.                                            *)

LEMMA ListKept == PageTypeOK /\ ListOK /\ ListStep => ListTypes' /\ ListOK'
<1> SUFFICES ASSUME PageTypeOK, ListOK, ListStep PROVE ListTypes' /\ ListOK'
  OBVIOUS
<1>know. /\ at \in [Runs -> Shown] /\ selection \in Selections /\ generation \in 0..MaxChoices
         /\ shown \in [Runs -> Shown] /\ hasMore \in BOOLEAN /\ loadingMore \in BOOLEAN
         /\ refreshing \in BOOLEAN /\ refreshPending \in BOOLEAN /\ searchInProgress \in BOOLEAN
         /\ asks \in [Slots -> SentAsks \cup {Free}] /\ stray \in BOOLEAN
  BY DEF PageTypeOK, ListTypes
<1>ok. /\ \A u \in Slots : AskOK(u)
       /\ ~stray => \A r \in Runs : shown[r] # Nothing => RunSelection[r] = selection
  BY DEF ListOK
<1> HIDE DEF Nothing
<1>none. Nothing \in Shown /\ Over \in Nat
  BY PageFacts
<1>free. ASSUME NEW s \in Slots, asks[s].kind # "none" PROVE asks[s] \in SentAsks /\ asks[s] # Free
  BY <1>free, <1>know DEF Free
\* A slot gets a request that satisfies the invariant.
<1>put. ASSUME NEW s \in Slots, NEW a \in SentAsks \cup {Free}, asks' = [asks EXCEPT ![s] = a]
        PROVE  /\ asks' \in [Slots -> SentAsks \cup {Free}] /\ asks'[s] = a
               /\ \A u \in Slots : u # s => asks'[u] = asks[u]
  BY <1>put, <1>know
<1>same. ASSUME UNCHANGED <<selection, generation>>,
                \A u \in Slots : asks'[u] = asks[u] \/ asks'[u] = Free \/
                   (/\ asks'[u].gen = generation /\ asks'[u].sel = selection
                    /\ \A r \in Runs : asks'[u].rows[r] = Nothing)
         PROVE  \A u \in Slots : AskOK(u)'
  <2> TAKE u \in Slots
  <2>1. generation <= generation
    BY <1>know, PageConstants
  <2>2. QED
    BY <1>same, <1>ok, <2>1 DEF AskOK
<1>rows. ASSUME NEW s \in Slots, asks[s] # Free
         PROVE  /\ Merged(asks[s].rows) \in [Runs -> Shown]
                /\ asks[s].more \in BOOLEAN
  <2>1. asks[s].rows \in [Runs -> Shown] /\ asks[s].more \in BOOLEAN
    BY <1>rows, <1>know DEF SentAsks
  <2>2. QED
    BY <1>know, <2>1 DEF Merged
<1>finally. ASSUME NEW s \in Slots, NEW list, Finally(s, list), UNCHANGED <<selection, generation>>
            PROVE  /\ asks' \in [Slots -> SentAsks \cup {Free}] /\ \A u \in Slots : AskOK(u)'
                   /\ refreshing' \in BOOLEAN /\ refreshPending' \in BOOLEAN /\ searchInProgress' \in BOOLEAN
  <2> DEFINE a == Refresh("plain", list, selection, generation)
             b == IF refreshing' THEN a ELSE Free
  <2>1. /\ a \in SentAsks /\ a.gen = generation /\ a.sel = selection
        /\ \A r \in Runs : a.rows[r] = Nothing
    BY <1>know, RefreshIsSent DEF AskKinds, RefreshKinds
  <2>2. asks' = [asks EXCEPT ![s] = b]
    BY <1>finally DEF Finally
  <2>3. b \in SentAsks \cup {Free} /\ (b = Free \/ b = a)
    BY <2>1
  <2> HIDE DEF a, b
  <2>4. asks' \in [Slots -> SentAsks \cup {Free}] /\ asks'[s] = b /\ \A u \in Slots : u # s => asks'[u] = asks[u]
    BY <1>put, <2>2, <2>3
  <2>5. \A u \in Slots : AskOK(u)'
    BY <1>finally, <1>same, <2>1, <2>3, <2>4
  <2>6. refreshing' \in BOOLEAN /\ refreshPending' \in BOOLEAN /\ searchInProgress' \in BOOLEAN
    BY <1>finally DEF Finally
  <2>7. QED
    BY <2>4, <2>5, <2>6
<1>send. ASSUME NEW s \in Slots, NEW a \in SentAsks, asks' = [asks EXCEPT ![s] = a],
                a.gen = generation, a.sel = selection, \A r \in Runs : a.rows[r] = Nothing,
                UNCHANGED <<selection, generation>>
         PROVE  asks' \in [Slots -> SentAsks \cup {Free}] /\ \A u \in Slots : AskOK(u)'
  BY <1>send, <1>put, <1>same
<1>frees. ASSUME NEW s \in Slots, asks' = [asks EXCEPT ![s] = Free], UNCHANGED <<selection, generation>>
          PROVE  asks' \in [Slots -> SentAsks \cup {Free}] /\ \A u \in Slots : AskOK(u)'
  BY <1>frees, <1>put, <1>same
<1>stays. ASSUME UNCHANGED <<selection, generation, shown, stray, hasMore, loadingMore>>,
                 refreshing' \in BOOLEAN, refreshPending' \in BOOLEAN, searchInProgress' \in BOOLEAN,
                 asks' \in [Slots -> SentAsks \cup {Free}], \A u \in Slots : AskOK(u)'
          PROVE  ListTypes' /\ ListOK'
  BY <1>stays, <1>know, <1>ok DEF ListTypes, ListOK
<1>1. ASSUME NEW s \in Slots, ServerReads(s) PROVE ListTypes' /\ ListOK'
  <2> DEFINE rows == Matching(asks[s].sel, asks[s].after, asks[s].before)
             found == [r \in Runs |-> IF r \in Newest(rows) THEN at[r] ELSE Nothing]
             more == Newest(rows) # rows
             a == [asks[s] EXCEPT !.read = TRUE, !.rows = found, !.more = more]
  <2>1. asks[s] \in SentAsks /\ asks[s] # Free
    BY <1>1, <1>free DEF ServerReads
  <2>2. found \in [Runs -> Shown] /\ more \in BOOLEAN
    BY <1>know, <1>none
  <2>3. \A r \in Runs : found[r] # Nothing => RunSelection[r] = asks[s].sel
    BY DEF Newest, Matching
  <2>4. asks' = [asks EXCEPT ![s] = a]
    BY <1>1, <1>know DEF ServerReads
  <2> HIDE DEF found, more
  <2>5. a \in SentAsks /\ a.gen = asks[s].gen /\ a.sel = asks[s].sel /\ a.rows = found
    BY <2>1, <2>2 DEF SentAsks
  <2> HIDE DEF a
  <2>6. asks' \in [Slots -> SentAsks \cup {Free}] /\ asks'[s] = a /\ \A u \in Slots : u # s => asks'[u] = asks[u]
    BY <1>put, <2>4, <2>5
  <2>7. UNCHANGED <<selection, generation, shown, stray, hasMore, loadingMore, refreshing, refreshPending, searchInProgress>>
    BY <1>1 DEF ServerReads
  <2>8. \A u \in Slots : AskOK(u)'
    <3> TAKE u \in Slots
    <3>1. CASE u = s
      BY <1>ok, <2>1, <2>3, <2>5, <2>6, <2>7, <3>1 DEF AskOK
    <3>2. CASE u # s
      BY <1>ok, <2>6, <2>7, <3>2 DEF AskOK
    <3>3. QED
      BY <3>1, <3>2
  <2>9. QED
    BY <1>know, <1>stays, <2>6, <2>7, <2>8
<1>2. ASSUME NEW s \in Slots, TimerRefreshes(s) PROVE ListTypes' /\ ListOK'
  <2>1. UNCHANGED <<selection, generation, shown, stray, hasMore, loadingMore, searchInProgress>>
    BY <1>2 DEF TimerRefreshes
  <2>2. refreshing' \in BOOLEAN /\ refreshPending' \in BOOLEAN
    BY <1>2, <1>know DEF TimerRefreshes
  <2>3. CASE asks' = asks
    <3>1. \A u \in Slots : AskOK(u)'
      BY <1>same, <2>1, <2>3
    <3>2. QED
      BY <1>know, <1>stays, <2>1, <2>2, <2>3, <3>1
  <2>4. CASE asks' = [asks EXCEPT ![s] = Refresh("plain", shown, selection, generation)]
    <3> DEFINE a == Refresh("plain", shown, selection, generation)
    <3>1. /\ a \in SentAsks /\ a.gen = generation /\ a.sel = selection
          /\ \A r \in Runs : a.rows[r] = Nothing
      BY <1>know, RefreshIsSent DEF AskKinds, RefreshKinds
    <3>2. asks' = [asks EXCEPT ![s] = a]
      BY <2>4
    <3> HIDE DEF a
    <3>3. asks' \in [Slots -> SentAsks \cup {Free}] /\ \A u \in Slots : AskOK(u)'
      BY <1>send, <2>1, <3>1, <3>2
    <3>4. QED
      BY <1>know, <1>stays, <2>1, <2>2, <3>3
  <2>5. QED
    BY <1>2, <2>3, <2>4 DEF TimerRefreshes
<1>3. ASSUME NEW s \in Slots, EventRefreshes(s) PROVE ListTypes' /\ ListOK'
  <2> DEFINE a == Refresh("direct", shown, selection, generation)
  <2>1. /\ a \in SentAsks /\ a.gen = generation /\ a.sel = selection
        /\ \A r \in Runs : a.rows[r] = Nothing
    BY <1>know, RefreshIsSent DEF AskKinds, RefreshKinds
  <2>2. /\ asks' = [asks EXCEPT ![s] = a] /\ refreshing' = TRUE
        /\ UNCHANGED <<selection, generation, shown, stray, hasMore, loadingMore, refreshPending, searchInProgress>>
    BY <1>3 DEF EventRefreshes
  <2> HIDE DEF a
  <2>3. asks' \in [Slots -> SentAsks \cup {Free}] /\ \A u \in Slots : AskOK(u)'
    BY <1>send, <2>1, <2>2
  <2>4. QED
    BY <1>know, <1>stays, <2>2, <2>3
<1>4. ASSUME NEW s \in Slots, NEW sel \in Selections, NEW search \in BOOLEAN, Choose(s, sel, search)
      PROVE  ListTypes' /\ ListOK'
  <2> DEFINE kind == IF search THEN "search" ELSE "direct"
             a == Refresh(kind, shown', sel, generation')
  <2>1. /\ selection' = sel /\ generation' = generation + 1 /\ generation < MaxChoices
        /\ shown' = [r \in Runs |-> Nothing] /\ hasMore' = FALSE /\ stray' = FALSE /\ loadingMore' = loadingMore
        /\ searchInProgress' = search /\ refreshPending' = (search /\ refreshPending) /\ refreshing' = TRUE
        /\ asks' = [asks EXCEPT ![s] = a]
    BY <1>4 DEF Choose
  <2>2. generation' \in 0..MaxChoices /\ \A n \in 0..MaxChoices : n <= generation => n <= generation' /\ n # generation'
    BY <1>know, <2>1, PageConstants
  <2>3. kind \in AskKinds
    BY DEF AskKinds, RefreshKinds
  <2> HIDE DEF kind
  <2>4. /\ a \in SentAsks /\ a.gen = generation' /\ a.sel = sel
        /\ \A r \in Runs : a.rows[r] = Nothing
    BY <2>2, <2>3, RefreshIsSent
  <2> HIDE DEF a
  <2>5. asks' \in [Slots -> SentAsks \cup {Free}] /\ asks'[s] = a /\ \A u \in Slots : u # s => asks'[u] = asks[u]
    BY <1>put, <2>1, <2>4
  <2>6. \A u \in Slots : AskOK(u)'
    <3> TAKE u \in Slots
    <3>1. CASE u = s
      <4>1. generation' <= generation'
        BY <2>2, PageConstants
      <4>2. QED
        BY <2>1, <2>4, <2>5, <3>1, <4>1 DEF AskOK
    <3>2. CASE u # s
      <4>1. SUFFICES ASSUME asks[u] # Free PROVE AskOK(u)'
        BY <2>5, <3>2 DEF AskOK
      <4>2. asks[u].gen \in 0..MaxChoices
        BY <1>know, <4>1 DEF SentAsks
      <4>3. QED
        BY <1>ok, <2>2, <2>5, <3>2, <4>1, <4>2 DEF AskOK
    <3>3. QED
      BY <3>1, <3>2
  <2>7. QED
    BY <1>know, <1>none, <2>1, <2>2, <2>5, <2>6 DEF ListTypes, ListOK
<1>5. ASSUME NEW s \in Slots, RefreshAnswered(s) PROVE ListTypes' /\ ListOK'
  <2>1. asks[s] # Free /\ UNCHANGED <<selection, generation, stray, loadingMore>>
    BY <1>5, <1>free DEF RefreshAnswered
  <2>2. /\ asks' \in [Slots -> SentAsks \cup {Free}] /\ \A u \in Slots : AskOK(u)'
        /\ refreshing' \in BOOLEAN /\ refreshPending' \in BOOLEAN /\ searchInProgress' \in BOOLEAN
    BY <1>5, <1>finally, <2>1 DEF RefreshAnswered
  <2>3. CASE asks[s].gen = generation
    <3>1. shown' = Merged(asks[s].rows) /\ hasMore' = asks[s].more
      BY <1>5, <2>3 DEF RefreshAnswered
    <3>2. shown' \in [Runs -> Shown] /\ hasMore' \in BOOLEAN
      BY <1>rows, <2>1, <3>1
    <3>3. \A r \in Runs : asks[s].rows[r] # Nothing => RunSelection[r] = selection
      BY <1>ok, <2>1, <2>3 DEF AskOK
    <3>4. ~stray => \A r \in Runs : shown'[r] # Nothing => RunSelection[r] = selection
      BY <1>ok, <3>1, <3>3 DEF Merged
    <3>5. QED
      BY <1>know, <2>1, <2>2, <3>2, <3>4 DEF ListTypes, ListOK
  <2>4. CASE asks[s].gen # generation
    <3>1. UNCHANGED <<shown, hasMore>>
      BY <1>5, <2>4 DEF RefreshAnswered
    <3>2. QED
      BY <1>stays, <2>1, <2>2, <3>1
  <2>5. QED
    BY <2>3, <2>4
<1>6. ASSUME NEW s \in Slots, RefreshFails(s) PROVE ListTypes' /\ ListOK'
  <2>1. UNCHANGED <<selection, generation, shown, stray, hasMore, loadingMore>> /\ Finally(s, shown)
    BY <1>6 DEF RefreshFails
  <2>2. QED
    BY <1>finally, <1>stays, <2>1
<1>7. ASSUME NEW s \in Slots, LoadMore(s) PROVE ListTypes' /\ ListOK'
  <2> DEFINE b == Refresh("more", shown, selection, generation)
             a == [b EXCEPT !.after = 0, !.before = Min(Known)]
  <2>1. Known # {} /\ Known \subseteq Nat
    BY <1>7, PageFacts DEF LoadMore, Known
  <2>2. Min(Known) \in Nat
    BY <2>1, MinIsMember
  <2>3. /\ b \in SentAsks /\ b.gen = generation /\ b.sel = selection
        /\ \A r \in Runs : b.rows[r] = Nothing
    <3>1. "more" \in AskKinds
      BY DEF AskKinds
    <3>2. QED
      BY <1>know, <3>1, RefreshIsSent
  <2>4. asks' = [asks EXCEPT ![s] = a] /\ loadingMore' = TRUE
        /\ UNCHANGED <<selection, generation, shown, stray, hasMore, refreshing, refreshPending, searchInProgress>>
    BY <1>7 DEF LoadMore
  <2> HIDE DEF b
  <2>5. a \in SentAsks /\ a.gen = b.gen /\ a.sel = b.sel /\ a.rows = b.rows
    BY <2>2, <2>3 DEF SentAsks
  <2> HIDE DEF a
  <2>6. asks' \in [Slots -> SentAsks \cup {Free}] /\ \A u \in Slots : AskOK(u)'
    BY <1>send, <2>3, <2>4, <2>5
  <2>7. QED
    BY <1>know, <1>ok, <2>4, <2>6 DEF ListTypes, ListOK
<1>8. ASSUME NEW s \in Slots, MoreAnswered(s) PROVE ListTypes' /\ ListOK'
  <2>1. /\ asks[s] # Free /\ asks' = [asks EXCEPT ![s] = Free] /\ loadingMore' = FALSE
        /\ shown' = Merged(asks[s].rows) /\ hasMore' = asks[s].more
        /\ stray' = (stray \/ asks[s].gen # generation)
        /\ UNCHANGED <<selection, generation, refreshing, refreshPending, searchInProgress>>
    BY <1>8, <1>free DEF MoreAnswered
  <2>2. shown' \in [Runs -> Shown] /\ hasMore' \in BOOLEAN
    BY <1>rows, <2>1
  <2>3. asks' \in [Slots -> SentAsks \cup {Free}] /\ \A u \in Slots : AskOK(u)'
    BY <1>frees, <2>1
  <2>4. ASSUME ~stray' PROVE \A r \in Runs : shown'[r] # Nothing => RunSelection[r] = selection
    <3>1. ~stray /\ asks[s].gen = generation
      BY <2>1, <2>4
    <3>2. \A r \in Runs : asks[s].rows[r] # Nothing => RunSelection[r] = selection
      BY <1>ok, <2>1, <3>1 DEF AskOK
    <3>3. QED
      BY <1>ok, <2>1, <3>1, <3>2 DEF Merged
  <2>5. stray' \in BOOLEAN
    BY <2>1
  <2>6. QED
    BY <1>know, <2>1, <2>2, <2>3, <2>4, <2>5 DEF ListTypes, ListOK
<1>9. ASSUME NEW s \in Slots, MoreFails(s) PROVE ListTypes' /\ ListOK'
  <2>1. /\ asks' = [asks EXCEPT ![s] = Free] /\ loadingMore' = FALSE
        /\ UNCHANGED <<selection, generation, shown, stray, hasMore, refreshing, refreshPending, searchInProgress>>
    BY <1>9 DEF MoreFails
  <2>2. asks' \in [Slots -> SentAsks \cup {Free}] /\ \A u \in Slots : AskOK(u)'
    BY <1>frees, <2>1
  <2>3. QED
    BY <1>know, <1>ok, <2>1, <2>2 DEF ListTypes, ListOK
<1>10. QED
  BY <1>1, <1>2, <1>3, <1>4, <1>5, <1>6, <1>7, <1>8, <1>9 DEF ListStep, Search, SwitchWorkspace

-----------------------------------------------------------------------------
(* RunPages: the pages of a run and of an invocation keep it.              *)

LEMMA RunKept == PageTypeOK /\ RunOK /\ RunStep => RunTypes' /\ RunOK'
<1> SUFFICES ASSUME PageTypeOK, RunOK, RunStep PROVE RunTypes' /\ RunOK'
  OBVIOUS
<1>know. /\ at[1] \in Shown /\ Shown \subseteq Nat /\ Nothing \in Shown
         /\ RunTypes
  BY PageFacts, PageConstants DEF PageTypeOK, Shown
<1>at. at' = at
  BY DEF RunStep, PageHears, PageRefreshes, FetchReads, FetchAnswered, FetchFails
<1>ok. /\ heard <= at[1] /\ (fetch = "read" => fetchAgain \/ fetched >= heard)
       /\ (fetch = "none" => fetchFailed \/ report >= heard)
  BY DEF RunOK, EventsAreFetched
<1>self. at[1] <= at[1]
  BY <1>know, \A n \in Nat : n <= n
<1>goal. ASSUME RunTypes', heard' <= at[1], fetch' = "read" => fetchAgain' \/ fetched' >= heard',
                fetch' = "none" => fetchFailed' \/ report' >= heard'
         PROVE  RunTypes' /\ RunOK'
  BY <1>goal, <1>at DEF RunOK, EventsAreFetched
<1> HIDE DEF Nothing
<1>1. CASE PageHears
  <2>1. /\ heard' = at[1] /\ UNCHANGED <<report, fetched, fetchFailed>>
        /\ IF fetch = "none" THEN fetch' = "sent" /\ fetchAgain' = fetchAgain
                             ELSE fetchAgain' = TRUE /\ fetch' = fetch
    BY <1>1 DEF PageHears, RefreshRun
  <2>2. RunTypes'
    BY <1>know, <2>1 DEF RunTypes, Requested
  <2>3. QED
    BY <1>goal, <1>self, <2>1, <2>2
<1>2. CASE PageRefreshes
  <2>1. /\ UNCHANGED <<report, fetched, heard, fetchFailed>>
        /\ IF fetch = "none" THEN fetch' = "sent" /\ fetchAgain' = fetchAgain
                             ELSE fetchAgain' = TRUE /\ fetch' = fetch
    BY <1>2 DEF PageRefreshes, RefreshRun
  <2>2. RunTypes'
    BY <1>know, <2>1 DEF RunTypes, Requested
  <2>3. QED
    BY <1>goal, <1>ok, <2>1, <2>2
<1>3. CASE FetchReads
  <2>1. /\ fetch' = "read" /\ fetched' = at[1]
        /\ UNCHANGED <<report, fetchAgain, heard, fetchFailed>>
    BY <1>3 DEF FetchReads
  <2>2. RunTypes'
    BY <1>know, <2>1 DEF RunTypes, Requested
  <2>3. at[1] >= heard
    BY <1>know, <1>ok DEF RunTypes
  <2>4. QED
    BY <1>goal, <1>ok, <2>1, <2>2, <2>3
<1>4. CASE FetchAnswered
  <2>1. /\ fetch = "read" /\ report' = fetched /\ fetchFailed' = FALSE /\ fetched' = Nothing /\ fetchAgain' = FALSE
        /\ fetch' = (IF fetchAgain THEN "sent" ELSE "none") /\ heard' = heard
    BY <1>4 DEF FetchAnswered, FetchEnds
  <2>2. RunTypes'
    BY <1>know, <2>1 DEF RunTypes, Requested
  <2>3. QED
    BY <1>goal, <1>ok, <2>1, <2>2
<1>5. CASE FetchFails
  <2>1. /\ fetchFailed' = TRUE /\ fetched' = Nothing /\ fetchAgain' = FALSE
        /\ fetch' = (IF fetchAgain THEN "sent" ELSE "none") /\ UNCHANGED <<heard, report>>
    BY <1>5 DEF FetchFails, FetchEnds
  <2>2. RunTypes'
    BY <1>know, <2>1 DEF RunTypes, Requested
  <2>3. QED
    BY <1>goal, <1>ok, <2>1, <2>2
<1>6. QED
  BY <1>1, <1>2, <1>3, <1>4, <1>5 DEF RunStep

LEMMA InvocationKept ==
  PageTypeOK /\ InvocationOK /\ InvocationStep => InvocationTypes' /\ InvocationOK' /\ viewed' >= viewed
<1> SUFFICES ASSUME PageTypeOK, InvocationOK, InvocationStep
             PROVE  InvocationTypes' /\ InvocationOK' /\ viewed' >= viewed
  OBVIOUS
<1>know. /\ at[1] \in Shown /\ Shown \subseteq Nat /\ Nothing \in Shown
         /\ open \subseteq [newest : BOOLEAN, read : Shown] /\ viewed \in Shown
  BY PageFacts DEF PageTypeOK, InvocationTypes
<1>at. at' = at
  BY DEF InvocationStep, LoadRunStatus, StatusRead, StatusAnswered, StatusFails
<1>ok. /\ viewed <= at[1]
       /\ \A a \in open : a.read <= at[1] /\ (a.newest /\ a.read # Nothing => viewed <= a.read)
       /\ \A a, b \in open : a.newest /\ b.newest => a = b
  BY DEF InvocationOK
<1>0. viewed >= viewed /\ Nothing <= at[1] /\ at[1] <= at[1]
  BY <1>know, \A n \in Nat : n >= n /\ 0 <= n /\ n <= n DEF Nothing
<1> HIDE DEF Nothing
<1>1. CASE LoadRunStatus
  <2> DEFINE new == [newest |-> TRUE, read |-> Nothing]
             old(a) == [a EXCEPT !.newest = FALSE]
  <2>1. open' = {old(a) : a \in open} \cup {new} /\ viewed' = viewed
    BY <1>1 DEF LoadRunStatus
  <2>2. new \in [newest : BOOLEAN, read : Shown] /\ new.newest = TRUE /\ new.read = Nothing
    BY <1>know
  <2>3. \A a \in open : /\ old(a) \in [newest : BOOLEAN, read : Shown]
                        /\ old(a).newest = FALSE /\ old(a).read = a.read
    BY <1>know
  <2> HIDE DEF new, old
  <2>4. \A b \in open' : b = new \/ \E a \in open : b = old(a)
    BY <2>1
  <2>5. QED
    BY <1>know, <1>at, <1>ok, <1>0, <2>1, <2>2, <2>3, <2>4 DEF InvocationTypes, InvocationOK
<1>2. ASSUME NEW ask \in open, StatusRead(ask)
      PROVE  InvocationTypes' /\ InvocationOK' /\ viewed' >= viewed
  <2> DEFINE new == [ask EXCEPT !.read = at[1]]
  <2>1. open' = (open \ {ask}) \cup {new} /\ viewed' = viewed
    BY <1>2 DEF StatusRead
  <2>2. new \in [newest : BOOLEAN, read : Shown] /\ new.newest = ask.newest /\ new.read = at[1]
    BY <1>know
  <2> HIDE DEF new
  <2>3. QED
    BY <1>know, <1>at, <1>ok, <1>0, <2>1, <2>2 DEF InvocationTypes, InvocationOK
<1>3. ASSUME NEW ask \in open, StatusAnswered(ask)
      PROVE  InvocationTypes' /\ InvocationOK' /\ viewed' >= viewed
  <2>1. /\ open' = open \ {ask} /\ viewed' = (IF ask.newest THEN ask.read ELSE viewed) /\ ask.read # Nothing
    BY <1>3 DEF StatusAnswered
  <2>2. CASE ask.newest
    <3>1. viewed' = ask.read /\ \A a \in open' : ~a.newest
      BY <1>ok, <2>1, <2>2
    <3>2. viewed' \in Shown /\ viewed' <= at[1] /\ viewed <= viewed'
      BY <1>know, <1>ok, <2>1, <2>2, <3>1
    <3>3. viewed' >= viewed
      BY <1>know, <3>2
    <3>4. QED
      BY <1>know, <1>at, <1>ok, <2>1, <3>1, <3>2, <3>3 DEF InvocationTypes, InvocationOK
  <2>3. CASE ~ask.newest
    BY <1>know, <1>at, <1>ok, <1>0, <2>1, <2>3 DEF InvocationTypes, InvocationOK
  <2>4. QED
    BY <2>2, <2>3
<1>4. ASSUME NEW ask \in open, StatusFails(ask)
      PROVE  InvocationTypes' /\ InvocationOK' /\ viewed' >= viewed
  <2>1. open' = open \ {ask} /\ viewed' = viewed
    BY <1>4 DEF StatusFails
  <2>2. QED
    BY <1>know, <1>at, <1>ok, <1>0, <2>1 DEF InvocationTypes, InvocationOK
<1>5. QED
  BY <1>1, <1>2, <1>3, <1>4 DEF InvocationStep

-----------------------------------------------------------------------------
(* RunPages: the theorems.                                                 *)

\* A run only goes on.
LEMMA ProgressKept ==
  ASSUME PagesInv, NEW r \in Runs, Progress(r) PROVE PagesInv'
<1>1. /\ at \in [Runs -> Shown] /\ at[r] < Over /\ at' = [at EXCEPT ![r] = @ + 1]
      /\ UNCHANGED <<listVars, runVars, invocationVars>>
  BY DEF PagesInv, PageTypeOK, Progress
<1>2. /\ at' \in [Runs -> Shown] /\ at[1] \in Nat /\ at'[1] \in Nat /\ at'[1] >= at[1]
  <2>1. \A n \in Shown : n < Over => n + 1 \in Shown /\ n \in Nat /\ n + 1 >= n /\ n >= n
    BY PageFacts DEF Shown
  <2>2. at[1] \in Shown /\ at'[1] = (IF r = 1 THEN at[1] + 1 ELSE at[1])
    BY <1>1, PageFacts
  <2>3. Shown \subseteq Nat
    BY PageFacts
  <2>4. at' \in [Runs -> Shown]
    BY <1>1, <2>1
  <2>5. at'[1] \in Nat
    BY <2>3, <2>4, PageFacts
  <2>6. at[1] \in Nat /\ at'[1] >= at[1]
    <3>1. at[1] \in Shown /\ (r = 1 => at[1] < Over)
      BY <1>1, PageFacts
    <3>2. QED
      <4>1. at[1] \in Nat /\ at[1] >= at[1]
        BY <2>1, <2>3, <3>1, \A n \in Nat : n >= n
      <4>2. r = 1 => at[1] + 1 >= at[1]
        BY <2>1, <3>1
      <4>3. QED
        BY <2>2, <4>1, <4>2
  <2>7. QED
    BY <2>4, <2>5, <2>6
<1>3. PageTypeOK'
  BY <1>1, <1>2 DEF PagesInv, PageTypeOK, ListTypes, RunTypes, InvocationTypes, SentAsks, listVars, runVars,
                    invocationVars
<1>4. ListOK'
  BY <1>1 DEF PagesInv, ListOK, AskOK, listVars
<1>5. RunOK'
  <2>1. heard \in Nat
    BY PageFacts DEF PagesInv, PageTypeOK, RunTypes
  <2>2. heard <= at'[1]
    BY <1>2, <2>1 DEF PagesInv, RunOK
  <2>3. QED
    BY <1>1, <2>2 DEF PagesInv, RunOK, EventsAreFetched, runVars
<1>6. InvocationOK'
  <2>1. viewed \in Nat /\ \A a \in open : a.read \in Nat
    BY PageFacts DEF PagesInv, PageTypeOK, InvocationTypes
  <2>2. viewed <= at'[1] /\ \A a \in open : a.read <= at'[1]
    BY <1>2, <2>1 DEF PagesInv, InvocationOK
  <2>3. QED
    BY <1>1, <2>2 DEF PagesInv, InvocationOK, invocationVars
<1>7. QED
  BY <1>3, <1>4, <1>5, <1>6 DEF PagesInv

LEMMA PagesBegin == PagesInit => PagesInv
<1> SUFFICES ASSUME PagesInit PROVE PagesInv
  OBVIOUS
<1>1. Nothing \in Shown /\ 0 \in 0..MaxChoices /\ Nothing = 0
  BY PageFacts, PageConstants DEF Nothing
<1>2. PageTypeOK
  BY <1>1 DEF PagesInit, PageTypeOK, ListTypes, RunTypes, InvocationTypes, Requested
<1>3. ListOK
  BY DEF PagesInit, ListOK, AskOK
<1>4. RunOK /\ InvocationOK
  BY PageFacts, <1>1 DEF PagesInit, RunOK, EventsAreFetched, InvocationOK
<1>5. QED
  BY <1>2, <1>3, <1>4 DEF PagesInv

LEMMA PagesKept == PagesInv /\ [PagesNext]_pageVars => PagesInv'
<1> SUFFICES ASSUME PagesInv, [PagesNext]_pageVars PROVE PagesInv'
  OBVIOUS
<1>1. ASSUME NEW r \in Runs, Progress(r) PROVE PagesInv'
  BY <1>1, ProgressKept
<1>2. CASE ListStep
  <2>1. ListTypes' /\ ListOK'
    BY <1>2, ListKept DEF PagesInv
  <2>2. UNCHANGED <<at, runVars, invocationVars>>
    BY <1>2 DEF ListStep, ServerReads, TimerRefreshes, EventRefreshes, Search, SwitchWorkspace, Choose,
                RefreshAnswered, RefreshFails, LoadMore, MoreAnswered, MoreFails
  <2>3. QED
    BY <2>1, <2>2 DEF PagesInv, PageTypeOK, RunTypes, RunOK, EventsAreFetched, InvocationTypes, InvocationOK,
                      runVars, invocationVars
<1>3. CASE RunStep
  <2>1. RunTypes' /\ RunOK'
    BY <1>3, RunKept DEF PagesInv
  <2>2. UNCHANGED <<at, listVars, invocationVars>>
    BY <1>3 DEF RunStep, PageHears, PageRefreshes, FetchReads, FetchAnswered, FetchFails
  <2>3. QED
    BY <2>1, <2>2 DEF PagesInv, PageTypeOK, ListTypes, ListOK, AskOK, InvocationTypes, InvocationOK,
                      listVars, invocationVars
<1>4. CASE InvocationStep
  <2>1. InvocationTypes' /\ InvocationOK'
    BY <1>4, InvocationKept DEF PagesInv
  <2>2. UNCHANGED <<at, listVars, runVars>>
    BY <1>4 DEF InvocationStep, LoadRunStatus, StatusRead, StatusAnswered, StatusFails
  <2>3. QED
    BY <2>1, <2>2 DEF PagesInv, PageTypeOK, ListTypes, ListOK, AskOK, RunTypes, RunOK, EventsAreFetched,
                      listVars, runVars
<1>5. CASE UNCHANGED pageVars
  BY <1>5 DEF PagesInv, PageTypeOK, ListTypes, ListOK, AskOK, RunTypes, RunOK, EventsAreFetched,
              InvocationTypes, InvocationOK, pageVars, listVars, runVars, invocationVars
<1>6. QED
  BY <1>1, <1>2, <1>3, <1>4, <1>5 DEF PagesNext

\* PagesInv always holds: the types of the pages' state (PageTypeOK among them),
\* the requests of the list, and what was read for the other two pages.
THEOREM PagesInvariance == PagesSpec => []PagesInv
BY PagesBegin, PagesKept, PTL DEF PagesSpec

\* Once its requests have ended, a run's page shows what the last event it heard
\* was about, or failed to (refreshPending in run.mjs).
THEOREM RunPagesFetchEvents == PagesSpec => []EventsAreFetched
<1>1. PagesInv => EventsAreFetched
  BY DEF PagesInv, RunOK
<1>2. QED
  BY <1>1, PagesInvariance, PTL

\* The list shows runs of its selection only, those that loadMore added late
\* apart, and the page of an invocation never goes back to an older state
\* (refreshGeneration in dashboard.mjs, requestVersion in invocation-ui.mjs).
THEOREM OvertakenAnswersAreDropped == PagesSpec => NoLateAnswer
<1>1. ASSUME PagesInv, PagesInv', PagesNext
      PROVE  /\ ~stray' => \A r \in Runs : shown'[r] # Nothing => RunSelection[r] = selection'
             /\ viewed' >= viewed
  <2>1. ~stray' => \A r \in Runs : shown'[r] # Nothing => RunSelection[r] = selection'
    BY <1>1 DEF PagesInv, ListOK
  <2>2. viewed \in Nat
    BY <1>1, PageFacts DEF PagesInv, PageTypeOK, InvocationTypes
  <2>3. viewed' >= viewed
    <3>1. CASE InvocationStep
      BY <1>1, <3>1, InvocationKept DEF PagesInv
    <3>2. CASE viewed' = viewed
      BY <2>2, <3>2
    <3>3. InvocationStep \/ viewed' = viewed
      BY <1>1 DEF PagesNext, Progress, ListStep, ServerReads, TimerRefreshes, EventRefreshes, Search,
                  SwitchWorkspace, Choose, RefreshAnswered, RefreshFails, LoadMore, MoreAnswered, MoreFails,
                  RunStep, PageHears, PageRefreshes, FetchReads, FetchAnswered, FetchFails, invocationVars
    <3>4. QED
      BY <3>1, <3>2, <3>3
  <2>4. QED
    BY <2>1, <2>3
<1>2. QED
  BY <1>1, PagesInvariance, PTL DEF PagesSpec, NoLateAnswer
=============================================================================
