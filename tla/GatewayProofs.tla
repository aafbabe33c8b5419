---------------------------- MODULE GatewayProofs ----------------------------
(***************************************************************************)
(* The gateway and its clients use the user service as UserService says it *)
(* is used, so that what holds of UserSpec holds behind the gateway; and   *)
(* the properties of the gateway itself, for any number of tabs, browsers, *)
(* programs, requests and faults.                                          *)
(*                                                                         *)
(* NoDeadCookie needs to know who can spend a cookie: a refresh token is   *)
(* in the hands of one browser at most (Carried, CookiesDiffer), a session *)
(* that has not reached its browser is in nobody's (Undelivered), and of   *)
(* the calls that revoke a token a tab makes RefreshToken only, because    *)
(* the gateway forwards no access token with Logout (TabLogout).  And a    *)
(* token that its call finds refused is spent for good (Refused): nothing  *)
(* brings a revoked or an expired row back.                                *)
(***************************************************************************)
EXTENDS Gateway, UserServiceProofs

-----------------------------------------------------------------------------
(* The inductive invariant *)

\* A cookie names a token that was handed out.
Cookies == \A b \in Browsers : jar[b] # None => tokens[jar[b]].state # "free"

CookiesDiffer == \A b, e \in Browsers : (jar[b] # None /\ jar[b] = jar[e]) => b = e

\* A token in a cookie is presented by the callers of that browser only.
Carried ==
  \A c \in Callers, b \in Browsers : (jar[b] # None /\ call[c].tok = jar[b]) => BrowserOf[c] = b

\* A session on its way to a client: nobody has its token.
Undelivered(c) ==
  call[c].new # None =>
    /\ tokens[call[c].new].state \in {"live", "expired"}
    /\ \A b \in Browsers : jar[b] # call[c].new
    /\ \A d \in Callers : call[d].tok # call[c].new
    /\ \A d \in Callers \ {c} : call[d].new # call[c].new

TabLogout == \A c \in Tabs : call[c].op = "Logout" => call[c].at = "done"

\* Who looks up and revokes tokens.
Spenders == \A c \in Callers : call[c].at \in {"gettok", "revoke"} => call[c].op \in {"RefreshToken", "Logout"}

\* The answers that are about a credential, and the rows that are worth nothing.
Refusals == {"Unauthenticated", "NotFound"}
Spent == {"expired", "revoked"}

\* RefusedTokenSpent, of one call.
Refused(c) ==
  (/\ call[c].op = "RefreshToken" /\ call[c].at = "done" /\ call[c].tok # None
   /\ call[c].code \in Refusals)
  => tokens[call[c].tok].state \in Spent

GatewayInv ==
  /\ UserInv /\ TypeOK /\ Cookies /\ CookiesDiffer /\ Carried
  /\ \A c \in Callers : Undelivered(c) /\ Refused(c)
  /\ TabLogout /\ Spenders /\ NoDeadCookie

-----------------------------------------------------------------------------
(* What the steps of a handler do, for its client *)

\* The handler of c keeps its request, and refuses a token that is spent only.
Outcome(c) ==
  /\ Continues(c)
  /\ call'[c].at # "idle"
  /\ call'[c].at \in {"gettok", "revoke"} => call[c].at = "gettok"
  /\ Refused(c)'

\* Tokens stay handed out and spent, are revoked by the handler at Revoke only,
\* and a new session has a new token.
TokensMove(c) ==
  /\ \A t \in Tokens : tokens[t].state # "free" => tokens'[t].state # "free"
  /\ \A t \in Tokens : tokens[t].state \in Spent => tokens'[t].state \in Spent
  /\ \A t \in Tokens : tokens'[t].state = "revoked" =>
        tokens[t].state = "revoked" \/ (call[c].at = "revoke" /\ t = call[c].tok)
  /\ \/ call'[c].new = call[c].new
     \/ \E s \in Tokens : call'[c].new = s /\ tokens[s].state = "free" /\ tokens'[s].state = "live"

\* An answer: it is no refusal, or it is none of a token that is worth something.
LEMMA AnswerOutcome ==
  ASSUME UserInv, NEW c \in Callers, NEW kind,
         \/ Ok(c)
         \/ /\ Fail(c, kind)
            /\ \/ kind \in {"AlreadyExists", "InvalidInput", "Internal"}
               \/ call[c].op # "RefreshToken" \/ call[c].tok = None
               \/ tokens'[call[c].tok].state \in Spent
  PROVE  Outcome(c) /\ call'[c].new = call[c].new
  <1>1. PICK code \in Codes :
            /\ call' = [call EXCEPT ![c] = Answer(@, code)]
            /\ \/ code \notin Refusals
               \/ call[c].op # "RefreshToken" \/ call[c].tok = None
               \/ tokens'[call[c].tok].state \in Spent
    BY CodeType DEF Ok, Fail, FromAppError, Codes, Refusals
  <1>2. Answers(c) /\ call'[c].code = code
    BY <1>1, AnswerMove DEF UserInv, UserTypeOK
  <1>3. QED
    BY <1>1, <1>2 DEF Outcome, Answers, Continues, Refused

\* A fault.
LEMMA TroubledOutcome ==
  ASSUME UserInv, NEW c \in Callers, Troubled(c)
  PROVE  Outcome(c) /\ call'[c].new = call[c].new
  BY TroubledFacts DEF Outcome, Answers, Refused, Refusals

\* The handler goes on.
LEMMA GoesOnOutcome ==
  ASSUME UserInv, NEW c \in Callers, Continues(c),
         call'[c].at \notin {"idle", "done", "gettok"},
         call'[c].at = "revoke" => call[c].at = "gettok"
  PROVE  Outcome(c)
  BY DEF Outcome, Refused

\* Steps that leave the refresh tokens alone.
LEMMA SameTokens ==
  ASSUME UNCHANGED tokens, NEW c \in Callers, call'[c].new = call[c].new
  PROVE  TokensMove(c)
  BY DEF TokensMove

\* The step that revokes one.
LEMMA TokenRevoked ==
  ASSUME UserInv, NEW c \in Callers, call[c].at = "revoke", call'[c].new = call[c].new,
         tokens' = [tokens EXCEPT ![call[c].tok].state = "revoked"]
  PROVE  TokensMove(c)
  <1>1. tokens \in [Tokens -> [state : RowState, user : Users \cup {None}]]
    BY DEF UserInv, UserTypeOK
  <1>2. ASSUME NEW t \in Tokens
        PROVE  tokens'[t].state = IF t = call[c].tok THEN "revoked" ELSE tokens[t].state
    BY <1>1
  <1>3. QED
    BY <1>2 DEF TokensMove, Spent

\* Every step of a handler.
LEMMA WorkOutcome == ASSUME UserInv, NEW c \in Callers, Work(c) PROVE Outcome(c) /\ TokensMove(c)
  <1> USE DEF UserInv
  <1>0. call \in [Callers -> CallRecord] /\ call[c] \in CallRecord
    BY DEF UserTypeOK
  <1>1. CASE CreateUser(c)
    <2>1. CASE Fail(c, "AlreadyExists") \/ Fail(c, "Internal")
      BY <1>1, <2>1, AnswerOutcome, SameTokens DEF CreateUser
    <2>2. ASSUME NEW u \in Users, Proceed(c, [call[c] EXCEPT !.user = u, !.at = "issue"])
          PROVE  Outcome(c) /\ TokensMove(c)
      <3>1. CASE Troubled(c) /\ Fault
        BY <1>1, <3>1, TroubledOutcome, SameTokens DEF CreateUser
      <3>2. CASE /\ call' = [call EXCEPT ![c] = [call[c] EXCEPT !.user = u, !.at = "issue"]]
                 /\ UNCHANGED faults
        <4>1. Continues(c) /\ call'[c].at = "issue" /\ call'[c].new = call[c].new
          BY <1>0, <3>2, GoesOn DEF Stages
        <4>2. QED
          BY <1>1, <3>2, <4>1, GoesOnOutcome, SameTokens DEF CreateUser
      <3>3. QED
        BY <2>2, <3>1, <3>2 DEF Proceed
    <2>3. QED
      BY <1>1, <2>1, <2>2 DEF CreateUser
  <1>2. CASE LookUp(c)
    <2>1. UNCHANGED <<tokens, faults>>
      BY <1>2 DEF LookUp, tables
    <2>2. CASE Fail(c, "Unauthenticated") \/ Fail(c, "Internal")
      <3>1. call[c].op # "RefreshToken"
        BY <1>2 DEF LookUp, Holding, Holds
      <3>2. QED
        BY <2>1, <2>2, <3>1, AnswerOutcome, SameTokens
    <2>3. ASSUME NEW u \in Users,
                 call' = [call EXCEPT ![c].user = u,
                            ![c].at = IF call[c].op = "OTPLogin" THEN "save" ELSE "issue"]
          PROVE  Outcome(c) /\ TokensMove(c)
      <3>1. PICK at \in {"save", "issue"} : at = IF call[c].op = "OTPLogin" THEN "save" ELSE "issue"
        OBVIOUS
      <3>2. Continues(c) /\ call'[c].at = at /\ call'[c].new = call[c].new
        BY <1>0, <2>3, <3>1, GoesOnTo DEF Stages
      <3>3. QED
        BY <2>1, <3>1, <3>2, GoesOnOutcome, SameTokens
    <2>4. QED
      BY <1>2, <2>2, <2>3 DEF LookUp, Holders
  <1>3. CASE SaveChallenge(c)
    <2>1. PICK x \in Challenges : Proceed(c, [call[c] EXCEPT !.chal = x, !.at = "publish"])
      BY <1>3 DEF SaveChallenge
    <2>2. CASE Troubled(c) /\ Fault
      BY <1>3, <2>2, TroubledOutcome, SameTokens DEF SaveChallenge
    <2>3. CASE /\ call' = [call EXCEPT ![c] = [call[c] EXCEPT !.chal = x, !.at = "publish"]]
               /\ UNCHANGED faults
      <3> DEFINE rec == [call[c] EXCEPT !.chal = x, !.at = "publish"]
      <3>1. /\ rec \in CallRecord /\ rec.at = "publish" /\ rec.op = call[c].op
            /\ rec.tok = call[c].tok /\ rec.new = call[c].new /\ rec.right = call[c].right
        BY <1>0, <2>1 DEF CallRecord, Stages
      <3> HIDE DEF rec
      <3>2. Moves(c) /\ call'[c] = rec
        BY <1>0, <2>3, <3>1, MoveFacts DEF rec
      <3>3. QED
        BY <1>3, <2>3, <3>1, <3>2, GoesOnOutcome, SameTokens DEF SaveChallenge, Continues
    <2>4. QED
      BY <2>1, <2>2, <2>3 DEF Proceed
  <1>4. CASE PublishOTP(c)
    <2>1. CASE Ok(c)
      BY <1>4, <2>1, AnswerOutcome, SameTokens DEF PublishOTP
    <2>2. CASE Fault /\ call' = [call EXCEPT ![c] = [Answer(@, "OK") EXCEPT !.muted = TRUE]]
      <3>1. Answers(c) /\ call'[c].code = "OK"
        BY <1>0, <2>2, MutedMove
      <3>2. QED
        BY <1>4, <3>1, SameTokens DEF Outcome, Answers, Refused, Refusals, PublishOTP
    <2>3. QED
      BY <1>4, <2>1, <2>2 DEF PublishOTP
  <1>5. CASE GetChallenge(c)
    <2>1. UNCHANGED <<tokens, faults>>
      BY <1>5 DEF GetChallenge, tables
    <2>2. CASE Fail(c, "NotFound") \/ Fail(c, "InvalidInput")
      <3>1. call[c].op # "RefreshToken"
        BY <1>5 DEF GetChallenge, Holding, Holds
      <3>2. QED
        BY <2>1, <2>2, <3>1, AnswerOutcome, SameTokens
    <2>3. CASE call' = [call EXCEPT ![c].user = challenges[call[c].chal].user, ![c].at = "delchal"]
      <3>1. Continues(c) /\ call'[c].at = "delchal" /\ call'[c].new = call[c].new
        <4>1. Moves(c)
          BY <1>5, GetChallengeQuiet DEF Quiet
        <4>2. QED
          BY <1>0, <2>3, <4>1 DEF Continues, CallRecord
      <3>2. QED
        BY <2>1, <3>1, GoesOnOutcome, SameTokens
    <2>4. QED
      BY <1>5, <2>2, <2>3 DEF GetChallenge
  <1>6. CASE DeleteChallenge(c)
    <2>1. CASE Fail(c, "InvalidInput")
      BY <1>6, <2>1, AnswerOutcome, SameTokens DEF DeleteChallenge
    <2>2. CASE Troubled(c) /\ Fault
      BY <1>6, <2>2, TroubledOutcome, SameTokens DEF DeleteChallenge
    <2>3. CASE call' = [call EXCEPT ![c] = [call[c] EXCEPT !.at = "getuser"]] /\ UNCHANGED faults
      <3>1. Continues(c) /\ call'[c].at = "getuser" /\ call'[c].new = call[c].new
        BY <1>0, <2>3, GoesOnAs DEF Stages
      <3>2. QED
        BY <1>6, <2>3, <3>1, GoesOnOutcome, SameTokens DEF DeleteChallenge
    <2>4. QED
      BY <1>6, <2>1, <2>2, <2>3 DEF DeleteChallenge, Proceed
  <1>7. CASE GetTok(c)
    <2>1. UNCHANGED <<tokens, faults>>
      BY <1>7 DEF GetTok, tables
    <2>2. CASE Ok(c)
      BY <2>1, <2>2, AnswerOutcome, SameTokens
    <2>5. CASE Fail(c, "Unauthenticated") /\ (call[c].tok # None => ~IsValid(call[c].tok))
      <3>1. ASSUME call[c].tok # None PROVE tokens'[call[c].tok].state \in Spent
        <4>1. call[c].tok \in Tokens /\ tokens[call[c].tok].state # "free"
          BY <1>0, <3>1 DEF CallRecord, Holding, Holds
        <4>2. tokens[call[c].tok].state \in RowState
          BY <4>1 DEF UserTypeOK
        <4>3. QED
          BY <2>1, <2>5, <3>1, <4>1, <4>2 DEF IsValid, RowState, Spent
      <3>2. QED
        BY <2>1, <2>5, <3>1, AnswerOutcome, SameTokens
    <2>3. CASE call' = [call EXCEPT ![c].user = tokens[call[c].tok].user, ![c].at = "revoke"]
      <3>1. Continues(c) /\ call'[c].at = "revoke" /\ call'[c].new = call[c].new
        <4>1. Moves(c)
          BY <1>7, GetTokQuiet DEF Quiet
        <4>2. QED
          BY <1>0, <2>3, <4>1 DEF Continues, CallRecord
      <3>2. call[c].at = "gettok"
        BY <1>7 DEF GetTok
      <3>3. QED
        BY <2>1, <3>1, <3>2, GoesOnOutcome, SameTokens
    <2>4. QED
      BY <1>7, <2>2, <2>3, <2>5 DEF GetTok
  <1>8. CASE Revoke(c)
    <2>1. ASSUME call'[c].new = call[c].new PROVE TokensMove(c)
      <3>1. \/ UNCHANGED tokens
            \/ /\ tokens' = [tokens EXCEPT ![call[c].tok].state = "revoked"]
               /\ call[c].at = "revoke"
        BY <1>8 DEF Revoke
      <3>2. QED
        BY <2>1, <3>1, SameTokens, TokenRevoked
    <2>2. CASE (Fail(c, "NotFound") \/ Ok(c)) /\ ~Revocable(call[c].tok) /\ UNCHANGED tokens
      <3>1. tokens'[call[c].tok].state \in Spent
        BY <2>2 DEF Revocable, Spent
      <3>2. QED
        BY <2>1, <2>2, <3>1, AnswerOutcome
    <2>3. CASE Troubled(c) /\ Fault
      BY <2>1, <2>3, TroubledOutcome
    <2>4. CASE call' = [call EXCEPT ![c] = [call[c] EXCEPT !.at = "getuser"]] /\ UNCHANGED faults
      <3>1. Continues(c) /\ call'[c].at = "getuser" /\ call'[c].new = call[c].new
        BY <1>0, <2>4, GoesOnAs DEF Stages
      <3>2. QED
        BY <2>1, <2>4, <3>1, GoesOnOutcome
    <2>5. CASE call' = [call EXCEPT ![c] = Answer(call[c], "OK")] /\ UNCHANGED faults
      BY <2>1, <2>5, AnswerOutcome DEF Ok
    <2>6. QED
      BY <1>8, <2>2, <2>3, <2>4, <2>5 DEF Revoke, Proceed
  <1>9. CASE GetByID(c)
    <2>1. UNCHANGED <<tokens, faults>>
      BY <1>9 DEF GetByID, tables
    <2>2. CASE Fail(c, "NotFound") \/ Ok(c)
      <3>1. ASSUME call[c].op = "RefreshToken", call[c].tok # None
            PROVE  tokens'[call[c].tok].state \in Spent
        <4>1. call[c].tok \in Tokens /\ Rotates(c, call[c].tok)
          BY <1>0, <1>9, <3>1 DEF CallRecord, GetByID, Rotates
        <4>2. tokens[call[c].tok].state = "revoked"
          BY <4>1 DEF TokensSpent, TokenSpent
        <4>3. QED
          BY <2>1, <4>2 DEF Spent
      <3>2. QED
        BY <2>1, <2>2, <3>1, AnswerOutcome, SameTokens
    <2>3. CASE call' = [call EXCEPT ![c].at = "issue"]
      <3>1. Continues(c) /\ call'[c].at = "issue" /\ call'[c].new = call[c].new
        BY <1>0, <2>3, GoesOnAs DEF Stages
      <3>2. QED
        BY <2>1, <3>1, GoesOnOutcome, SameTokens
    <2>4. QED
      BY <1>9, <2>2, <2>3 DEF GetByID
  <1>10. CASE IssueTokens(c)
    <2>1. PICK s \in Tokens :
              /\ tokens[s].state = "free"
              /\ tokens' = [tokens EXCEPT ![s] = Issued(call[c].user)]
              /\ Proceed(c, [Answer(call[c], "OK") EXCEPT !.new = s])
      BY <1>10 DEF IssueTokens
    <2>2. ASSUME call'[c].new \in {call[c].new, s} PROVE TokensMove(c)
      BY <2>1, <2>2 DEF TokensMove, UserTypeOK, Issued, Spent
    <2>3. CASE Troubled(c) /\ Fault
      BY <2>2, <2>3, TroubledOutcome
    <2>4. CASE call' = [call EXCEPT ![c] = [Answer(call[c], "OK") EXCEPT !.new = s]] /\ UNCHANGED faults
      <3> DEFINE old == Answer(call[c], "OK")
                 rec == [old EXCEPT !.new = s]
      <3>1. /\ old \in CallRecord /\ old.at = "done" /\ old.right = call[c].right /\ old.code = "OK"
            /\ old.op = call[c].op /\ old.tok = call[c].tok
        BY <1>0, AnswerFacts DEF Codes
      <3> HIDE DEF old
      <3>2. /\ rec \in CallRecord /\ rec.at = "done" /\ rec.right = call[c].right /\ rec.code = "OK"
            /\ rec.op = call[c].op /\ rec.tok = call[c].tok /\ rec.new = s
        BY <2>1, <3>1 DEF CallRecord
      <3>3. call' = [call EXCEPT ![c] = rec]
        BY <2>4 DEF old
      <3> HIDE DEF rec
      <3>4. Moves(c) /\ call'[c] = rec
        BY <1>0, <3>2, <3>3, MoveFacts
      <3>5. QED
        BY <2>2, <3>2, <3>4 DEF Outcome, Continues, Refused, Refusals
    <2>5. QED
      BY <2>1, <2>3, <2>4 DEF Proceed
  <1>11. CASE Break(c)
    BY <1>11, TroubledOutcome, SameTokens DEF Break, tables
  <1>12. CASE Panic(c)
    BY <1>12, AnswerOutcome, SameTokens DEF Panic, tables
  <1>13. QED
    BY <1>1, <1>2, <1>3, <1>4, <1>5, <1>6, <1>7, <1>8, <1>9, <1>10, <1>11, <1>12 DEF Work

-----------------------------------------------------------------------------
(* Requests *)

\* A request names no token but the client's own.
Names(r, t) == r.tok \in {t, None}

\* A request names the token its sender presents, or none.
LEMMA RequestToken ==
  ASSUME NEW t, NEW v, NEW r \in Requests(t, v)
  PROVE  Names(r, t)
  <1>1. \A op, f, i : Names(WithForm(op, f, i), t)
    BY DEF Names, WithForm, Blank
  <1>2. \A x, i : Names(WithCode(x, i), t)
    BY DEF Names, WithCode, Blank
  <1>3. \A op, w, i : Names(WithToken(op, t, w, i), t)
    BY DEF Names, WithToken, Blank
  <1>4. \A u, w, i : Names(WithTarget(u, w, i), t)
    BY DEF Names, WithTarget, Blank
  <1>5. \A q \in Registrations \cup PasswordLogins \cup OTPLogins : Names(q, t)
    BY <1>1 DEF Registrations, PasswordLogins, OTPLogins
  <1>6. \A q \in Confirmations \cup Guesses : Names(q, t)
    BY <1>2 DEF Confirmations, Guesses
  <1>7. \A q \in Refreshes(t) \cup Logouts(t, v) : Names(q, t)
    BY <1>3 DEF Refreshes, Logouts
  <1>8. \A q \in Profiles(v) : Names(q, t)
    BY <1>4 DEF Profiles
  <1>9. QED
    BY <1>5, <1>6, <1>7, <1>8 DEF Requests

\* A call that presents a refresh token and is answered at once is not refused:
\* the limiter turns it away, or it has no token after all.
LEMMA ArriveRefuses ==
  ASSUME UserInv, NEW c \in Callers, NEW r, WellFormed(r), Arrive(c, r)
  PROVE  Refused(c)'
  <1> SUFFICES ASSUME r.op = "RefreshToken", call'[c].at = "done" PROVE call'[c].code \notin Refusals
    BY ArriveFacts DEF Refused
  <1>1. Handler(r) \in CallRecord /\ Handler(r).at = "gettok"
    BY HandlerFacts DEF FirstStage
  <1>2. \/ call'[c] = Admitted(r)
        \/ \E code \in {"ResourceExhausted", "Internal"} : call'[c] = Answer(Handler(r), code)
    BY DEF Arrive, Check, UserInv, UserTypeOK
  <1>3. \/ call'[c] = Handler(r)
        \/ \E code \in {"ResourceExhausted", "Internal", "InvalidArgument"} :
              call'[c] = Answer(Handler(r), code)
    <2>1. Authenticated(r)
      BY DEF Authenticated, PublicMethods, Methods
    <2>2. Refusal(r) \in {"pass", "InvalidInput"}
      BY DEF Refusal, HashFails
    <2>3. FromAppError("InvalidInput") = "InvalidArgument"
      BY DEF FromAppError
    <2>4. Admitted(r) \in {Handler(r), Answer(Handler(r), "InvalidArgument")}
      BY <2>1, <2>2, <2>3 DEF Admitted
    <2>5. QED
      BY <1>2, <2>4
  <1>4. PICK code \in {"ResourceExhausted", "Internal", "InvalidArgument"} :
            call'[c] = Answer(Handler(r), code)
    BY <1>1, <1>3
  <1>5. call'[c].code = code
    BY <1>1, <1>4, AnswerFacts DEF Codes
  <1>6. QED
    BY <1>4, <1>5 DEF Refusals

-----------------------------------------------------------------------------
(* The gateway is a client of the user service *)

\* The requests that are sent know a token that was handed out.
LEMMA ClientOf ==
  ASSUME GatewayInv, NEW c \in Callers
  PROVE  /\ jar[BrowserOf[c]] \in Known \cup {None}
         /\ bearer[BrowserOf[c]] \in Users \cup {None}
  BY GatewayAssumption DEF GatewayInv, TypeOK, Cookies, Known

\* Every step is a step of the user service, or leaves it alone.
LEMMA GatewayUses ==
  ASSUME GatewayInv, [Next]_vars
  PROVE  [UserNext]_userVars
  <1>1. ASSUME NEW c \in Callers, NEW r \in Requests(jar[BrowserOf[c]], bearer[BrowserOf[c]]), Arrive(c, r)
        PROVE  UserNext
    BY <1>1, ClientOf DEF UserNext
  <1>2. ASSUME NEW c \in Callers, Leave(c) \/ Work(c) PROVE UserNext
    BY <1>2 DEF UserNext
  <1>3. CASE Elapse \/ Crash
    BY <1>3 DEF UserNext
  <1>4. ASSUME NEW c \in Tabs, Send(c) \/ Respond(c) \/ ResponseLost(c) PROVE UserNext
    BY <1>1, <1>2, <1>4, GatewayAssumption DEF Send, TabRequests, Respond, ResponseLost
  <1>5. ASSUME NEW d \in Callers \ Tabs, Call(d) \/ Return(d) PROVE UserNext
    BY <1>1, <1>2, <1>5 DEF Call, Return
  <1>6. CASE UNCHANGED vars
    BY <1>6 DEF vars
  <1>7. QED
    BY <1>2, <1>3, <1>4, <1>5, <1>6 DEF Next

\* At the start no browser has a cookie.
LEMMA GatewayInitInv == Init => GatewayInv
  <1> SUFFICES ASSUME Init PROVE GatewayInv
    OBVIOUS
  <1>1. UserInv
    BY UserInitInv DEF Init
  <1>2. \A c \in Callers : call[c].at = "idle" /\ call[c].op = "none" /\ call[c].tok = None
                           /\ call[c].new = None
    BY DEF Init, UserInit, Idle
  <1>3. TypeOK
    BY <1>1, GatewayAssumption DEF Init, TypeOK, UserInv
  <1>4. Cookies /\ CookiesDiffer /\ Carried /\ NoDeadCookie
    BY <1>3 DEF Init, Cookies, CookiesDiffer, Carried, NoDeadCookie
  <1>5. \A c \in Callers : Undelivered(c) /\ Refused(c)
    BY <1>2 DEF Undelivered, Refused
  <1>6. TabLogout /\ Spenders
    BY <1>2, GatewayAssumption DEF TabLogout, Spenders
  <1>7. QED
    BY <1>1, <1>3, <1>4, <1>5, <1>6 DEF GatewayInv

-----------------------------------------------------------------------------
(* The steps keep the invariant *)

\* All of it but the part of the user service.
ClientInv ==
  /\ Cookies /\ CookiesDiffer /\ Carried
  /\ \A c \in Callers : Undelivered(c) /\ Refused(c)
  /\ TabLogout /\ Spenders /\ NoDeadCookie

\* The types the invariant has to fall back on.
LEMMA GatewayTypes ==
  ASSUME GatewayInv, NEW c \in Callers
  PROVE  /\ call[c].tok \in Tokens \cup {None} /\ call[c].new \in Tokens \cup {None}
         /\ call[c].user \in Users \cup {None} /\ call[c].right \in BOOLEAN
         /\ BrowserOf[c] \in Browsers
         /\ call[c].tok # None => tokens[call[c].tok].state # "free"
         /\ call[c].new # None => tokens[call[c].new].state # "free"
  BY GatewayAssumption DEF GatewayInv, UserInv, UserTypeOK, CallRecord, Holding, Holds

\* A handler at work has neither answered nor gone.
LEMMA WorkRuns == ASSUME NEW c \in Callers, Work(c) PROVE call[c].at \notin {"idle", "done"}
  BY DEF Work, CreateUser, LookUp, SaveChallenge, PublishOTP, GetChallenge, DeleteChallenge,
         GetTok, Revoke, GetByID, IssueTokens, Break, Panic, Running

\* A handler of a browser with a tab is that of a tab.
LEMMA TabsOnly ==
  ASSUME NEW c \in Callers, NEW e \in Tabs, BrowserOf[e] = BrowserOf[c]
  PROVE  c \in Tabs
  BY GatewayAssumption

\* A handler works, and the browsers do not notice.
LEMMA WorkClients ==
  ASSUME GatewayInv, NEW c \in Callers, Work(c), UNCHANGED gatewayVars, UserInv'
  PROVE  ClientInv'
  <1> USE DEF GatewayInv
  <1>1. UNCHANGED <<jar, missed>>
    BY DEF gatewayVars
  <1>2. Outcome(c) /\ TokensMove(c)
    BY WorkOutcome
  <1>3. /\ \A d \in Callers : call'[d].op = call[d].op /\ call'[d].tok = call[d].tok
        /\ call'[c].right = call[c].right /\ call'[c].at # "idle"
        /\ \A d \in Callers \ {c} : call'[d] = call[d]
    BY <1>2 DEF Outcome, Continues, Moves
  <1>4. Cookies' /\ CookiesDiffer' /\ Carried'
    <2>1. Cookies'
      BY <1>1, <1>2 DEF Cookies, TokensMove, TypeOK
    <2>2. CookiesDiffer' /\ Carried'
      BY <1>1, <1>3 DEF CookiesDiffer, Carried
    <2>3. QED
      BY <2>1, <2>2
  <1>5. ASSUME NEW d \in Callers PROVE Undelivered(d)'
    <2>1. CASE /\ call'[d].new = call[d].new /\ call[d].new # None
               /\ \A e \in Callers \ {d} : \/ call'[e].new = call[e].new
                                           \/ tokens[call'[e].new].state = "free"
      <3>1. PICK t \in Tokens : t = call[d].new
        BY <2>1, GatewayTypes
      <3>2. /\ tokens[t].state \in {"live", "expired"} /\ t # None
            /\ \A b \in Browsers : jar[b] # t
            /\ \A e \in Callers : call[e].tok # t
            /\ \A e \in Callers \ {d} : call[e].new # t
        BY <2>1, <3>1 DEF Undelivered
      <3>3. tokens'[t].state \in RowState
        BY <3>1 DEF UserInv, UserTypeOK
      <3>4. tokens'[t].state \in {"live", "expired"}
        BY <1>2, <3>1, <3>2, <3>3 DEF TokensMove, RowState
      <3>5. \A e \in Callers \ {d} : call'[e].new # t
        BY <2>1, <3>2
      <3>6. QED
        BY <1>1, <1>3, <2>1, <3>1, <3>2, <3>4, <3>5 DEF Undelivered
    <2>2. CASE d = c /\ call'[c].new # call[c].new
      <3>1. PICK s \in Tokens : /\ call'[c].new = s /\ tokens[s].state = "free"
                                /\ tokens'[s].state = "live"
        BY <1>2, <2>2 DEF TokensMove
      <3>2. \A b \in Browsers : jar[b] # s
        BY <3>1, UserAssumption DEF Cookies
      <3>3. \A e \in Callers : call[e].tok # s /\ call[e].new # s
        BY <3>1, GatewayTypes, UserAssumption
      <3>4. QED
        BY <1>1, <1>3, <2>2, <3>1, <3>2, <3>3 DEF Undelivered
    <2>3. CASE call'[d].new = None
      BY <2>3 DEF Undelivered
    <2>4. QED
      BY <1>2, <1>3, <2>1, <2>2, <2>3 DEF TokensMove
  <1>6. ASSUME NEW d \in Callers PROVE Refused(d)'
    <2>1. CASE d = c
      BY <1>2, <2>1 DEF Outcome
    <2>2. CASE d # c
      BY <1>2, <1>3, <2>2, GatewayTypes DEF Refused, TokensMove
    <2>3. QED
      BY <2>1, <2>2
  <1>7. call[c].at \notin {"idle", "done"}
    BY WorkRuns
  <1>8. TabLogout'
    BY <1>3, <1>7, GatewayAssumption DEF TabLogout
  <1>9. Spenders'
    BY <1>2, <1>3 DEF Spenders, Outcome
  <1>10. NoDeadCookie'
    <2>1. ASSUME NEW b \in Browsers, jar[b] # None, tokens'[jar[b]].state = "revoked",
                 NEW e \in Tabs, BrowserOf[e] = b
          PROVE  \/ missed[b]
                 \/ \E d \in Tabs : /\ BrowserOf[d] = b /\ call'[d].at # "idle"
                                    /\ call'[d].op = "RefreshToken" /\ call'[d].tok = jar[b]
      <3>1. CASE tokens[jar[b]].state = "revoked"
        <4>1. \/ missed[b]
              \/ \E d \in Tabs : /\ BrowserOf[d] = b /\ call[d].at # "idle"
                                 /\ call[d].op = "RefreshToken" /\ call[d].tok = jar[b]
          BY <2>1, <3>1 DEF NoDeadCookie
        <4>2. QED
          BY <1>3, <4>1, GatewayAssumption
      <3>2. CASE call[c].at = "revoke" /\ jar[b] = call[c].tok
        <4>1. BrowserOf[c] = b
          BY <2>1, <3>2 DEF Carried
        <4>2. c \in Tabs
          BY <2>1, <4>1, TabsOnly
        <4>3. call[c].op = "RefreshToken"
          BY <3>2, <4>2 DEF Spenders, TabLogout
        <4>4. QED
          BY <1>3, <3>2, <4>1, <4>2, <4>3
      <3>3. QED
        BY <1>2, <2>1, <3>1, <3>2 DEF TokensMove, TypeOK
    <2>2. QED
      BY <1>1, <2>1 DEF NoDeadCookie
  <1>11. QED
    BY <1>4, <1>5, <1>6, <1>8, <1>9, <1>10 DEF ClientInv

\* Steps in which no call arrives, goes on or leaves, no token is handed out
\* and none is revoked: time, crashes, and nothing at all.
LEMMA CalmClients ==
  ASSUME GatewayInv, UNCHANGED <<jar, missed>>, UserTypeOK',
         \A t \in Tokens : tokens'[t].state = "free" <=> tokens[t].state = "free",
         \A t \in Tokens : tokens'[t].state = "revoked" => tokens[t].state = "revoked",
         \A c \in Callers : /\ call'[c].op = call[c].op /\ call'[c].tok = call[c].tok
                            /\ call'[c].new = call[c].new
                            /\ call'[c] = call[c] \/ (call'[c].at = "done" /\ call'[c].code \notin Refusals),
         \A t \in Tokens : tokens[t].state \in Spent => tokens'[t].state \in Spent
  PROVE  ClientInv'
  <1> USE DEF GatewayInv
  <1>1. Cookies' /\ CookiesDiffer' /\ Carried'
    <2>1. Cookies'
      BY DEF Cookies, TypeOK
    <2>2. CookiesDiffer' /\ Carried'
      BY DEF CookiesDiffer, Carried
    <2>3. QED
      BY <2>1, <2>2
  <1>2. ASSUME NEW c \in Callers PROVE Undelivered(c)'
    <2>1. CASE call[c].new = None
      BY <2>1 DEF Undelivered
    <2>2. CASE call[c].new # None
      <3>1. PICK t \in Tokens : t = call[c].new
        BY <2>2, GatewayTypes
      <3>2. tokens'[t].state \in RowState
        BY <3>1 DEF UserTypeOK
      <3>3. tokens'[t].state \in {"live", "expired"}
        BY <2>2, <3>1, <3>2 DEF Undelivered, RowState
      <3>4. QED
        BY <2>2, <3>1, <3>3 DEF Undelivered
    <2>3. QED
      BY <2>1, <2>2
  <1>3. \A c \in Callers : Refused(c)'
    BY GatewayTypes DEF Refused
  <1>4. TabLogout' /\ Spenders'
    BY GatewayAssumption DEF TabLogout, Spenders
  <1>5. NoDeadCookie'
    <2>1. ASSUME NEW b \in Browsers, jar[b] # None, tokens'[jar[b]].state = "revoked",
                 NEW e \in Tabs, BrowserOf[e] = b
          PROVE  \/ missed[b]
                 \/ \E d \in Tabs : /\ BrowserOf[d] = b /\ call'[d].at # "idle"
                                    /\ call'[d].op = "RefreshToken" /\ call'[d].tok = jar[b]
      <3>1. tokens[jar[b]].state = "revoked"
        BY <2>1 DEF TypeOK
      <3>2. \/ missed[b]
            \/ \E d \in Tabs : /\ BrowserOf[d] = b /\ call[d].at # "idle"
                               /\ call[d].op = "RefreshToken" /\ call[d].tok = jar[b]
        BY <2>1, <3>1 DEF NoDeadCookie
      <3>3. QED
        BY <3>2, GatewayAssumption
    <2>2. QED
      BY <2>1 DEF NoDeadCookie
  <1>6. QED
    BY <1>1, <1>2, <1>3, <1>4, <1>5 DEF ClientInv

\* What a client knows stays true when time passes.
LEMMA ElapseClients ==
  ASSUME GatewayInv, Elapse, UNCHANGED gatewayVars, UserInv'
  PROVE  ClientInv'
  <1>1. UNCHANGED <<jar, missed, call, faults>> /\ UserTypeOK'
    BY DEF Elapse, ChallengeExpires, TokenExpires, gatewayVars, UserInv
  <1>2. /\ \A t \in Tokens : tokens'[t].state = "free" <=> tokens[t].state = "free"
        /\ \A t \in Tokens : tokens'[t].state = "revoked" => tokens[t].state = "revoked"
        /\ \A t \in Tokens : tokens[t].state \in Spent => tokens'[t].state \in Spent
    <2>1. tokens \in [Tokens -> [state : RowState, user : Users \cup {None}]]
      BY DEF GatewayInv, UserInv, UserTypeOK
    <2>2. CASE UNCHANGED tokens
      BY <2>2
    <2>3. ASSUME NEW u \in Tokens, tokens[u].state = "live",
                 tokens' = [tokens EXCEPT ![u].state = "expired"]
          PROVE  /\ \A t \in Tokens : tokens'[t].state = "free" <=> tokens[t].state = "free"
                 /\ \A t \in Tokens : tokens'[t].state = "revoked" => tokens[t].state = "revoked"
                 /\ \A t \in Tokens : tokens[t].state \in Spent => tokens'[t].state \in Spent
      BY <2>1, <2>3 DEF Spent
    <2>4. QED
      BY <2>2, <2>3 DEF Elapse, ChallengeExpires, TokenExpires
  <1>3. QED
    BY <1>1, <1>2, CalmClients

\* A crash of the user service answers nobody.
LEMMA CrashClients ==
  ASSUME GatewayInv, Crash, UNCHANGED gatewayVars, UserInv'
  PROVE  ClientInv'
  <1>1. UNCHANGED <<jar, missed, tokens>> /\ UserTypeOK'
    BY DEF Crash, gatewayVars, tables, UserInv
  <1>2. \A c \in Callers : /\ call'[c].op = call[c].op /\ call'[c].tok = call[c].tok
                           /\ call'[c].new = call[c].new
                           /\ call'[c] = call[c] \/ (call'[c].at = "done" /\ call'[c].code \notin Refusals)
    BY CrashFacts DEF GatewayInv, Refusals
  <1>3. QED
    BY <1>1, <1>2, CalmClients

\* A call arrives, with the token in the cookie or none; Logout of a tab comes
\* without an access token.
LEMMA ArriveClients ==
  ASSUME GatewayInv, NEW c \in Callers,
         NEW r \in Requests(jar[BrowserOf[c]], bearer[BrowserOf[c]]), Arrive(c, r),
         c \in Tabs => (r.op = "Logout" => r.claims = None), UNCHANGED <<jar, missed>>
  PROVE  ClientInv'
  <1> USE DEF GatewayInv
  <1>1. WellFormed(r) /\ r.tok \in {jar[BrowserOf[c]], None}
    BY ClientOf, RequestFacts, RequestToken DEF Names
  <1>2. /\ Moves(c) /\ UNCHANGED <<tokens>>
        /\ call'[c].op = r.op /\ call'[c].tok = r.tok /\ call'[c].new = None
        /\ \/ call'[c].at = FirstStage(r.op) /\ Authenticated(r)
           \/ call'[c].at = "done"
    BY <1>1, ArriveFacts DEF tables
  <1>3. /\ \A d \in Callers \ {c} : call'[d] = call[d]
        /\ call[c].at = "idle"
    BY <1>2 DEF Moves, Arrive
  <1>4. Cookies' /\ CookiesDiffer' /\ Carried'
    <2>1. Cookies' /\ CookiesDiffer'
      BY <1>2 DEF Cookies, CookiesDiffer
    <2>2. ASSUME NEW d \in Callers, NEW b \in Browsers, jar[b] # None, call'[d].tok = jar[b]
          PROVE  BrowserOf[d] = b
      <3>1. CASE d = c
        BY <1>1, <1>2, <2>2, <3>1, GatewayTypes DEF CookiesDiffer
      <3>2. CASE d # c
        BY <1>3, <2>2, <3>2 DEF Carried
      <3>3. QED
        BY <3>1, <3>2
    <2>3. QED
      BY <2>1, <2>2 DEF Carried
  <1>5. ASSUME NEW d \in Callers PROVE Undelivered(d)'
    <2>1. CASE d = c
      BY <1>2, <2>1 DEF Undelivered
    <2>2. CASE d # c
      <3>1. call[d].new # None => call'[c].tok # call[d].new /\ call'[c].new # call[d].new
        BY <1>1, <1>2, GatewayTypes DEF Undelivered
      <3>2. QED
        BY <1>2, <1>3, <2>2, <3>1 DEF Undelivered
    <2>3. QED
      BY <2>1, <2>2
  <1>6. ASSUME NEW d \in Callers PROVE Refused(d)'
    <2>1. Refused(c)'
      BY <1>1, ArriveRefuses
    <2>2. CASE d # c
      BY <1>2, <1>3, <2>2 DEF Refused
    <2>3. QED
      BY <2>1, <2>2
  <1>7. r.op \in Methods
    BY <1>1 DEF WellFormed
  <1>8. TabLogout'
    <2>1. c \in Tabs /\ r.op = "Logout" => ~Authenticated(r)
      BY DEF Authenticated, ParseAccessToken, PublicMethods
    <2>2. QED
      BY <1>2, <1>3, <2>1, GatewayAssumption DEF TabLogout
  <1>9. Spenders'
    BY <1>2, <1>3, <1>7 DEF Spenders, FirstStage, Methods
  <1>10. NoDeadCookie'
    <2>1. \A d \in Tabs : call[d].at # "idle" => call'[d] = call[d]
      BY <1>3, GatewayAssumption
    <2>2. QED
      BY <1>2, <2>1 DEF NoDeadCookie
  <1>11. QED
    BY <1>4, <1>5, <1>6, <1>8, <1>9, <1>10 DEF ClientInv

\* An answer reaches its client, which replaces or clears its cookie, keeps it,
\* or is lost.
Delivery(c) ==
  \/ /\ jar'[BrowserOf[c]] \in {call[c].new, None}
     /\ \A b \in Browsers \ {BrowserOf[c]} : jar'[b] = jar[b] /\ missed'[b] = missed[b]
  \/ /\ UNCHANGED jar
     /\ c \in Tabs => call[c].op # "RefreshToken" \/ missed'[BrowserOf[c]]
     /\ \A b \in Browsers : missed'[b] = missed[b] \/ missed'[b]

\* The answer reaches the browser, or is lost, and the call is over.
LEMMA LeaveClients ==
  ASSUME GatewayInv, NEW c \in Callers, Leave(c), Delivery(c)
  PROVE  ClientInv'
  <1> USE DEF GatewayInv
  <1>1. /\ UNCHANGED <<tokens, faults>>
        /\ call'[c] = Idle /\ \A d \in Callers \ {c} : call'[d] = call[d]
    BY DEF Leave, tables, UserInv, UserTypeOK
  <1>2. call'[c].at = "idle" /\ call'[c].op = "none" /\ call'[c].tok = None /\ call'[c].new = None
    BY <1>1 DEF Idle
  <1>3. BrowserOf[c] \in Browsers /\ call[c].new \in Tokens \cup {None}
    BY GatewayTypes
  <1>4. \A b \in Browsers : jar'[b] = jar[b] \/ (b = BrowserOf[c] /\ jar'[b] \in {call[c].new, None})
    BY DEF Delivery
  <1>5. call[c].new # None =>
          /\ tokens[call[c].new].state \in {"live", "expired"}
          /\ \A b \in Browsers : jar[b] # call[c].new
          /\ \A d \in Callers : call[d].tok # call[c].new
          /\ \A d \in Callers \ {c} : call[d].new # call[c].new
    BY DEF Undelivered
  <1>6. Cookies'
    BY <1>1, <1>4, <1>5 DEF Cookies
  <1>7. CookiesDiffer'
    BY <1>4, <1>5 DEF CookiesDiffer
  <1>8. Carried'
    BY <1>1, <1>2, <1>4, <1>5 DEF Carried
  <1>9. ASSUME NEW d \in Callers PROVE Undelivered(d)'
    <2>1. CASE d = c
      BY <1>2, <2>1 DEF Undelivered
    <2>2. CASE d # c
      <3>1. call[d].new # None => \A b \in Browsers : jar'[b] # call[d].new
        BY <1>4, <1>5, <2>2 DEF Undelivered
      <3>2. QED
        BY <1>1, <1>2, <2>2, <3>1 DEF Undelivered
    <2>3. QED
      BY <2>1, <2>2
  <1>10. \A d \in Callers : Refused(d)'
    BY <1>1, <1>2 DEF Refused
  <1>11. TabLogout' /\ Spenders'
    BY <1>1, <1>2, GatewayAssumption DEF TabLogout, Spenders
  <1>12. NoDeadCookie'
    <2>1. ASSUME NEW b \in Browsers, jar'[b] # None, tokens[jar'[b]].state = "revoked",
                 NEW e \in Tabs, BrowserOf[e] = b
          PROVE  \/ missed'[b]
                 \/ \E d \in Tabs : /\ BrowserOf[d] = b /\ call'[d].at # "idle"
                                    /\ call'[d].op = "RefreshToken" /\ call'[d].tok = jar'[b]
      <3>1. jar'[b] = jar[b]
        BY <1>4, <1>5, <2>1
      <3>2. \/ missed[b]
            \/ \E d \in Tabs : /\ BrowserOf[d] = b /\ call[d].at # "idle"
                               /\ call[d].op = "RefreshToken" /\ call[d].tok = jar[b]
        BY <2>1, <3>1 DEF NoDeadCookie
      <3>3. CASE b # BrowserOf[c]
        BY <1>1, <3>1, <3>2, <3>3, GatewayAssumption DEF Delivery
      <3>4. CASE b = BrowserOf[c] /\ UNCHANGED jar
        <4>1. c \in Tabs /\ \/ missed'[b]
                            \/ call[c].op # "RefreshToken" /\ (missed[b] => missed'[b])
          BY <1>5, <2>1, <3>1, <3>4, TabsOnly DEF Delivery
        <4>2. QED
          BY <1>1, <3>1, <3>2, <3>4, <4>1, GatewayAssumption
      <3>5. QED
        BY <1>3, <1>5, <2>1, <3>1, <3>3, <3>4 DEF Delivery
    <2>2. QED
      BY <1>1, <2>1 DEF NoDeadCookie
  <1>13. QED
    BY <1>6, <1>7, <1>8, <1>9, <1>10, <1>11, <1>12 DEF ClientInv

\* The ways in which an answer reaches a browser or a program.
LEMMA Deliveries ==
  ASSUME GatewayInv, NEW c \in Callers,
         \/ c \in Tabs /\ (Respond(c) \/ ResponseLost(c))
         \/ c \notin Tabs /\ Return(c)
  PROVE  /\ Delivery(c)
         /\ jar' \in [Browsers -> Tokens \cup {None}]
         /\ bearer' \in [Browsers -> Users \cup {None}]
         /\ missed' \in [Browsers -> BOOLEAN]
  <1>1. /\ jar \in [Browsers -> Tokens \cup {None}]
        /\ bearer \in [Browsers -> Users \cup {None}]
        /\ missed \in [Browsers -> BOOLEAN]
    BY DEF GatewayInv, TypeOK
  <1>2. /\ BrowserOf[c] \in Browsers /\ call[c].new \in Tokens \cup {None}
        /\ call[c].user \in Users \cup {None}
    BY GatewayTypes
  <1>3. bearer' \in [Browsers -> Users \cup {None}]
    BY <1>1, <1>2 DEF Respond, ResponseLost, Return, BearerAfter
  <1>4. ASSUME NEW t \in {call[c].new, None}, SetCookie(c, t)
        PROVE  /\ Delivery(c)
               /\ jar' \in [Browsers -> Tokens \cup {None}]
               /\ missed' \in [Browsers -> BOOLEAN]
    BY <1>1, <1>2, <1>4 DEF SetCookie, Delivery
  <1>5. ASSUME KeepCookie, c \in Tabs => call[c].op # "RefreshToken"
        PROVE  /\ Delivery(c)
               /\ jar' \in [Browsers -> Tokens \cup {None}]
               /\ missed' \in [Browsers -> BOOLEAN]
    BY <1>1, <1>5 DEF KeepCookie, Delivery
  <1>6. ASSUME ResponseLost(c)
        PROVE  /\ Delivery(c)
               /\ jar' \in [Browsers -> Tokens \cup {None}]
               /\ missed' \in [Browsers -> BOOLEAN]
    <2>1. UNCHANGED jar /\ missed' = [missed EXCEPT ![BrowserOf[c]] = TRUE]
      BY <1>6 DEF ResponseLost
    <2>2. QED
      BY <1>1, <1>2, <2>1 DEF Delivery
  <1>7. CASE c \in Tabs /\ Respond(c)
    <2>1. \/ \E t \in {call[c].new, None} : SetCookie(c, t)
          \/ KeepCookie /\ call[c].op # "RefreshToken"
      BY <1>7 DEF Respond, CookieAfter
    <2>2. QED
      BY <1>3, <1>4, <1>5, <2>1
  <1>8. CASE c \notin Tabs /\ Return(c)
    <2>1. SetCookie(c, call[c].new) \/ KeepCookie
      BY <1>8 DEF Return
    <2>2. QED
      BY <1>3, <1>4, <1>5, <1>8, <2>1
  <1>9. QED
    BY <1>3, <1>6, <1>7, <1>8

\* Every step keeps the invariant.
LEMMA GatewayStep == GatewayInv /\ [Next]_vars => GatewayInv'
  <1> SUFFICES ASSUME GatewayInv, [Next]_vars PROVE GatewayInv'
    OBVIOUS
  <1>1. UserInv'
    BY GatewayUses, UserStep DEF GatewayInv
  <1>2. /\ jar \in [Browsers -> Tokens \cup {None}]
        /\ bearer \in [Browsers -> Users \cup {None}]
        /\ missed \in [Browsers -> BOOLEAN]
        /\ requests \in 0 .. MaxRequests
    BY DEF GatewayInv, TypeOK
  <1> DEFINE ClientsType == /\ jar' \in [Browsers -> Tokens \cup {None}]
                            /\ bearer' \in [Browsers -> Users \cup {None}]
                            /\ missed' \in [Browsers -> BOOLEAN]
                            /\ requests' \in 0 .. MaxRequests
  <1>3. UNCHANGED gatewayVars => ClientsType
    BY <1>2 DEF gatewayVars
  <1>4. ASSUME Count, UNCHANGED <<jar, bearer, missed>> PROVE ClientsType
    BY <1>2, <1>4, GatewayAssumption DEF Count
  <1>5. ASSUME NEW c \in Callers, Work(c), UNCHANGED gatewayVars PROVE ClientInv' /\ ClientsType
    BY <1>1, <1>3, <1>5, WorkClients
  <1>6. ASSUME Elapse \/ Crash, UNCHANGED gatewayVars PROVE ClientInv' /\ ClientsType
    BY <1>1, <1>3, <1>6, ElapseClients, CrashClients
  <1>7. ASSUME NEW c \in Tabs, Send(c) PROVE ClientInv' /\ ClientsType
    <2>1. c \in Callers
      BY GatewayAssumption
    <2>2. PICK r \in Requests(jar[BrowserOf[c]], bearer[BrowserOf[c]]) :
              Arrive(c, r) /\ (r.op = "Logout" => r.claims = None)
      BY <1>7 DEF Send, TabRequests
    <2>3. Count /\ UNCHANGED <<jar, bearer, missed>>
      BY <1>7 DEF Send
    <2>4. QED
      BY <1>4, <2>1, <2>2, <2>3, ArriveClients
  <1>8. ASSUME NEW c \in Callers \ Tabs, Call(c) PROVE ClientInv' /\ ClientsType
    <2>1. PICK r \in Requests(jar[BrowserOf[c]], bearer[BrowserOf[c]]) : Arrive(c, r)
      BY <1>8 DEF Call
    <2>2. Count /\ UNCHANGED <<jar, bearer, missed>>
      BY <1>8 DEF Call
    <2>3. QED
      BY <1>4, <2>1, <2>2, ArriveClients
  <1>9. ASSUME NEW c \in Callers,
               \/ c \in Tabs /\ (Respond(c) \/ ResponseLost(c))
               \/ c \notin Tabs /\ Return(c)
        PROVE  ClientInv' /\ ClientsType
    <2>1. Leave(c) /\ UNCHANGED requests
      BY <1>9 DEF Respond, ResponseLost, Return
    <2>2. Delivery(c)
      BY <1>9, Deliveries
    <2>3. ClientInv'
      BY <2>1, <2>2, LeaveClients
    <2>4. ClientsType
      BY <1>2, <1>9, <2>1, Deliveries
    <2>5. QED
      BY <2>3, <2>4
  <1>10. ASSUME UNCHANGED vars PROVE ClientInv' /\ ClientsType
    <2>1. UNCHANGED <<jar, missed, call, faults, tokens>> /\ UNCHANGED gatewayVars
      BY <1>10 DEF vars, userVars, gatewayVars
    <2>2. QED
      BY <1>1, <1>3, <2>1, CalmClients DEF UserInv
  <1>11. ClientInv' /\ ClientsType
    <2> HIDE DEF ClientsType
    <2>1. Tabs \subseteq Callers
      BY GatewayAssumption
    <2>2. CASE Next
      BY <1>5, <1>6, <1>7, <1>8, <1>9, <2>1, <2>2 DEF Next
    <2>3. QED
      BY <1>10, <2>2
  <1>12. TypeOK'
    BY <1>1, <1>11 DEF TypeOK, UserInv
  <1>13. QED
    BY <1>1, <1>11, <1>12 DEF GatewayInv, ClientInv

\* The inductive invariant holds in every reachable state.
THEOREM GatewayInvariance == Spec => []GatewayInv
  BY GatewayInitInv, GatewayStep, PTL DEF Spec

\* Behind the gateway the user service behaves as UserSpec says: every token a
\* client presents was handed out, and every step of the composition is a step
\* of the user service or leaves it alone.
THEOREM UsesUserService == Spec => UserSpec
  <1>1. GatewayInv /\ [Next]_vars => [UserNext]_userVars
    BY GatewayUses
  <1>2. Init => UserInit
    BY DEF Init
  <1>3. QED
    BY <1>1, <1>2, GatewayInvariance, PTL DEF Spec, UserSpec

\* The types of the user service and of the clients' cookies.
THEOREM TypeCorrect == Spec => []TypeOK
  <1>1. GatewayInv => TypeOK
    BY DEF GatewayInv
  <1>2. QED
    BY <1>1, GatewayInvariance, PTL

\* No browser keeps a revoked refresh token in its cookie, unless the answer
\* that replaces or clears it is on its way or was lost.
THEOREM CookiesStayAlive == Spec => []NoDeadCookie
  <1>1. GatewayInv => NoDeadCookie
    BY DEF GatewayInv
  <1>2. QED
    BY <1>1, GatewayInvariance, PTL

\* However calls that present a refresh token race each other, its expiry,
\* faults and crashes, 401 and 404 are answered for spent tokens only.
THEOREM RefusalsAreTrue == Spec => []RefusedTokenSpent
  <1>1. GatewayInv => RefusedTokenSpent
    <2>1. \A code \in Codes \cup {"none"} : HttpStatus(code) \in {401, 404} => code \in Refusals
      BY DEF HttpStatus, Codes, Refusals
    <2>2. ASSUME GatewayInv, NEW c \in Callers PROVE call[c].code \in Codes \cup {"none"}
      BY <2>2 DEF GatewayInv, UserInv, UserTypeOK, CallRecord
    <2>3. QED
      BY <2>1, <2>2 DEF GatewayInv, Refused, Spent, RefusedTokenSpent
  <1>2. QED
    BY <1>1, GatewayInvariance, PTL

\* Behind the gateway, too, a session belongs to the user whose credential it
\* was issued for, and a logout that was answered OK has revoked its token.
THEOREM SessionsOwned == Spec => []SessionOwner /\ []LogoutRevokes
  BY UsesUserService, SessionsAreOwned, LogoutIsFinal, PTL

\* Behind the gateway, too, a refresh token or a one-time password is redeemed
\* for one session at most: the user service implements OneTime for both.
THEOREM OneTimeCredentials == Spec => RotatesOnce /\ VerifiesOnce
  BY UsesUserService, RefreshTokensAreOneTime, PasswordsAreOneTime, PTL

=============================================================================
