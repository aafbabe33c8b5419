----------------------------- MODULE UserService -----------------------------
(***************************************************************************)
(* The user service: registration, login by password or one-time password, *)
(* rotation of refresh tokens, logout and profiles, as gRPC handlers that  *)
(* run at the same time over the users and refresh_tokens tables and the   *)
(* one-time passwords in Redis.  Each statement and each Redis command of  *)
(* a handler is a step of its own; it may fail, or take effect while its   *)
(* answer is lost, and the process may crash between any two steps.        *)
(*                                                                         *)
(* Secrets are abstracted to what the handlers tell apart: a refresh token *)
(* is the row it hashes to (None: a string with no row), a password or a   *)
(* code is right or wrong, an access token is the user in its claims       *)
(* (None: absent, forged or expired).                                      *)
(***************************************************************************)
EXTENDS Integers, FiniteSets

CONSTANTS
  Callers,     \* gRPC calls that can be in progress at the same time
  Users,       \* ids of the users table
  Admins,      \* the users whose row has the role admin
  Logins,      \* the strings clients use as phone numbers and email addresses
  Forms,       \* what can be registered: each an email and a phone number
  AdminForm,   \* those of a row the operator has created
  Tokens,      \* refresh tokens, with their rows in refresh_tokens
  Challenges,  \* one-time passwords, with their keys in Redis
  MaxFaults,   \* bound on the faults of a behaviour
  None

\* What a row holds: its email and its phone number, each in its column.
Entries == {"email", "phone"} \X Logins
Row(email, phone) == {<<"email", email>>, <<"phone", phone>>}

ASSUME UserAssumption ==
  /\ None \notin Users \cup Tokens \cup Challenges
  /\ Tokens \cap Challenges = {}
  /\ Admins \subseteq Users
  /\ AdminForm \in SUBSET Entries
  /\ Forms \subseteq {Row(e, p) : e \in Logins, p \in Logins}
  /\ MaxFaults \in Nat

VARIABLES
  users,       \* users: email and phone number of each row, {} without a row
  tokens,      \* refresh_tokens: state and owner of each row
  challenges,  \* Redis: state and owner of each one-time password
  outbox,      \* the one-time passwords published for delivery
  call,        \* the handlers
  faults       \* the faults so far

\* History: the sessions each refresh token, each one-time password has led to.
VARIABLES rotated, verified

tables == <<users, tokens, challenges, outbox>>
userVars == <<users, tokens, challenges, outbox, call, faults, rotated, verified>>

Methods == {"Register", "PasswordLogin", "OTPLogin", "VerifyOTP",
            "RefreshToken", "GetUser", "Logout"}
PublicMethods == Methods \ {"GetUser", "Logout"}

\* A request carries what its method reads; input tells a usable request from
\* one with a wrong secret, a missing field or a password of a refused length.
Blank == [op |-> "none", form |-> {}, tok |-> None, chal |-> None,
          target |-> None, claims |-> None, input |-> "right"]

\* A handler: the request, where it stands, the account it works for, the
\* session it has created, its answer, and whether it has ignored an error.
Idle == [op |-> "none", at |-> "idle", form |-> {}, tok |-> None, chal |-> None,
         user |-> None, new |-> None, right |-> TRUE, code |-> "none", muted |-> FALSE]

Stages == {"idle", "create", "lookup", "save", "publish", "getchal", "delchal",
           "gettok", "revoke", "getuser", "issue", "done"}
Codes == {"OK", "InvalidArgument", "NotFound", "AlreadyExists", "Unauthenticated",
          "PermissionDenied", "ResourceExhausted", "Internal", "Unavailable"}

Running(c) == call[c].at \notin {"idle", "done"}

UserInit ==
  /\ users = [u \in Users |-> IF u \in Admins THEN AdminForm ELSE {}]
  /\ tokens = [t \in Tokens |-> [state |-> "free", user |-> None]]
  /\ challenges = [x \in Challenges |-> [state |-> "free", user |-> None]]
  /\ outbox = {}
  /\ call = [c \in Callers |-> Idle]
  /\ faults = 0
  /\ rotated = [t \in Tokens |-> {}]
  /\ verified = [x \in Challenges |-> {}]

-----------------------------------------------------------------------------
(* Answers and faults *)

\* Mutant: the kind of an application error is handed on as it is.
FromAppErrorRaw(kind) == kind

\* Mutant: what is not known counts as a credential that was refused.
FromAppErrorRefuses(kind) ==
  CASE kind = "InvalidInput" -> "InvalidArgument"
    [] kind \in {"NotFound", "AlreadyExists", "PermissionDenied"} -> kind
    [] OTHER -> "Unauthenticated"

\* The gRPC code of an application error: what is not known is Internal.
FromAppError(kind) ==
  CASE kind = "InvalidInput" -> "InvalidArgument"
    [] kind \in {"NotFound", "AlreadyExists", "Unauthenticated", "PermissionDenied"} -> kind
    [] OTHER -> "Internal"

\* What is left of a handler when it has answered.
Answer(rec, code) ==
  [rec EXCEPT !.at = "done", !.code = code, !.form = {}, !.chal = None,
              !.user = IF code = "OK" THEN @ ELSE None]

Ok(c) == call' = [call EXCEPT ![c] = Answer(@, "OK")]
Fail(c, kind) == call' = [call EXCEPT ![c] = Answer(@, FromAppError(kind))]

Fault == faults < MaxFaults /\ faults' = faults + 1

\* Logout ignores what Revoke returns; everyone else hands an error on.
Troubled(c) ==
  call' = [call EXCEPT ![c] =
             IF @.op = "Logout" /\ @.at = "revoke"
             THEN [Answer(@, "OK") EXCEPT !.muted = TRUE]
             ELSE Answer(@, FromAppError("Internal"))]

\* A statement has taken effect: the handler goes on, or the answer is lost.
Proceed(c, rec) ==
  \/ call' = [call EXCEPT ![c] = rec] /\ UNCHANGED faults
  \/ Troubled(c) /\ Fault

-----------------------------------------------------------------------------
(* A call arrives: interceptors, then the checks of the handler *)

\* An access token that parses has claims: signed by us, and not expired.
ParseAccessToken(r) == r.claims # None

\* AuthInterceptor: a method that is not public needs a valid access token.
Authenticated(r) == r.op \in PublicMethods \/ ParseAccessToken(r)

\* bcrypt takes passwords of 72 bytes at most.
HashFails(r) == r.op = "Register" /\ r.input = "long"

\* A profile is for its owner and for admins.
MayRead(r) == r.claims = r.target \/ r.claims \in Admins

\* The checks a handler makes before it touches a table, and the error kind.
Refusal(r) ==
  CASE r.input = "missing" -> IF r.op = "Logout" THEN "none" ELSE "InvalidInput"
    [] r.op = "Register" /\ r.input = "short" -> "InvalidInput"
    [] HashFails(r) -> "Internal"
    [] r.op = "GetUser" /\ ~MayRead(r) -> "PermissionDenied"
    [] OTHER -> "pass"

FirstStage(op) ==
  CASE op = "Register" -> "create"
    [] op \in {"PasswordLogin", "OTPLogin"} -> "lookup"
    [] op = "VerifyOTP" -> "getchal"
    [] op = "GetUser" -> "getuser"
    [] OTHER -> "gettok"

Handler(r) ==
  [Idle EXCEPT !.op = r.op, !.at = FirstStage(r.op), !.form = r.form, !.tok = r.tok,
               !.chal = r.chal, !.user = r.target, !.right = (r.input = "right")]

\* What is left to do once the limiter has let the call pass: authentication,
\* then the checks of the handler, which then starts to work.
Admitted(r) ==
  LET h == Handler(r)
      kind == Refusal(r) IN
    IF ~Authenticated(r) THEN Answer(h, "Unauthenticated")
    ELSE IF kind = "pass" THEN h
    ELSE Answer(h, IF kind = "none" THEN "OK" ELSE FromAppError(kind))

\* The answers of the rate limiter; a broken one turns every call away.
Check == {"allowed", "exhausted", "broken"}

\* The interceptor chain: the rate limiter comes before authentication.
Arrive(c, r) ==
  /\ call[c].at = "idle"
  /\ \E verdict \in Check :
       /\ call' = [call EXCEPT ![c] =
                     CASE verdict = "allowed" -> Admitted(r)
                       [] verdict = "exhausted" -> Answer(Handler(r), "ResourceExhausted")
                       [] verdict = "broken" -> Answer(Handler(r), "Internal")]
       /\ IF verdict = "broken" THEN Fault ELSE UNCHANGED faults
  /\ UNCHANGED <<tables, rotated, verified>>

\* The client has its answer.
Leave(c) ==
  /\ call[c].at = "done"
  /\ call' = [call EXCEPT ![c] = Idle]
  /\ UNCHANGED <<tables, faults, rotated, verified>>

-----------------------------------------------------------------------------
(* The steps of the handlers *)

\* The id of a new row or key.
Fresh(rows) == CHOOSE i \in DOMAIN rows : rows[i].state = "free"

\* The rows that agree with the form in a column.
Holders(form) == {u \in Users : users[u] \cap form # {}}

\* userRepo.Create: a new row.
Insert(u, form) ==
  /\ users[u] = {}
  /\ users' = [users EXCEPT ![u] = form]

\* Values that PostgreSQL refuses: longer than their column, or with a NUL byte.
Unstorable == {}

\* Register: the row is inserted unless a value is refused, or the index on one
\* of the columns knows it; a refused value is an error like any other.
CreateUser(c) ==
  /\ call[c].at = "create"
  /\ \/ /\ call[c].form = Unstorable
        /\ Fail(c, "Internal")
        /\ UNCHANGED <<users, faults>>
     \/ /\ Holders(call[c].form) # {}
        /\ Fail(c, "AlreadyExists")
        /\ UNCHANGED <<users, faults>>
     \/ /\ call[c].form # Unstorable /\ Holders(call[c].form) = {}
        /\ \E u \in Users :
             /\ Insert(u, call[c].form)
             /\ Proceed(c, [call[c] EXCEPT !.user = u, !.at = "issue"])
  /\ UNCHANGED <<tokens, challenges, outbox, rotated, verified>>

ComparePassword(c) == call[c].right

\* userRepo.GetByEmailOrPhone, which takes the first row it finds.  A wrong
\* password and an unknown login are answered alike.
LookUp(c) ==
  /\ call[c].at = "lookup"
  /\ LET hits == Holders(call[c].form) IN
       \/ /\ call[c].form = Unstorable
          /\ Fail(c, "Internal")
       \/ /\ call[c].form # Unstorable
          /\ hits = {} \/ ~ComparePassword(c)
          /\ Fail(c, "Unauthenticated")
       \/ /\ ComparePassword(c)
          /\ \E u \in hits :
               call' = [call EXCEPT ![c].user = u,
                          ![c].at = IF call[c].op = "OTPLogin" THEN "save" ELSE "issue"]
  /\ UNCHANGED <<tables, faults, rotated, verified>>

\* otpRepo.SaveChallenge: a new one-time password in Redis.
SaveChallenge(c) ==
  /\ call[c].at = "save"
  /\ \E x \in Challenges :
       /\ x = Fresh(challenges) /\ challenges[x].state = "free"
       /\ challenges' = [challenges EXCEPT ![x] = [state |-> "stored", user |-> call[c].user]]
       /\ Proceed(c, [call[c] EXCEPT !.chal = x, !.at = "publish"])
  /\ UNCHANGED <<users, tokens, outbox, rotated, verified>>

PublishOTPRequested(x) == outbox' = outbox \cup {x}

\* The code is published for delivery; a failure is only logged.
PublishOTP(c) ==
  /\ call[c].at = "publish"
  /\ \/ /\ PublishOTPRequested(call[c].chal)
        /\ Ok(c)
        /\ UNCHANGED faults
     \/ /\ Fault
        /\ call' = [call EXCEPT ![c] = [Answer(@, "OK") EXCEPT !.muted = TRUE]]
        /\ UNCHANGED outbox
  /\ UNCHANGED <<users, tokens, challenges, rotated, verified>>

\* otpRepo.GetChallenge and the comparison of the codes.
GetChallenge(c) ==
  /\ call[c].at = "getchal"
  /\ LET x == call[c].chal
         stored == x # None /\ challenges[x].state = "stored" IN
       \/ ~stored /\ Fail(c, "NotFound")
       \/ stored /\ ~call[c].right /\ Fail(c, "InvalidInput")
       \/ /\ stored /\ call[c].right
          /\ call' = [call EXCEPT ![c].user = challenges[x].user, ![c].at = "delchal"]
  /\ UNCHANGED <<tables, faults, rotated, verified>>

\* Mutant: the count DEL returns is not looked at.
DeletedUnchecked(x) == TRUE

\* DEL counts the keys it has removed.
Deleted(x) == challenges[x].state = "stored"

\* otpRepo.DeleteChallenge: the count tells the one caller that removed the key.
DeleteChallenge(c) ==
  /\ call[c].at = "delchal"
  /\ LET x == call[c].chal IN
       \/ /\ ~Deleted(x)
          /\ Fail(c, "InvalidInput")
          /\ UNCHANGED <<challenges, faults>>
       \/ /\ Deleted(x)
          /\ challenges' = [challenges EXCEPT ![x].state = "gone"]
          /\ Proceed(c, [call[c] EXCEPT !.at = "getuser"])
  /\ UNCHANGED <<users, tokens, outbox, rotated, verified>>

\* RefreshToken.IsValid: neither revoked nor expired.
IsValid(t) == tokens[t].state = "live"

\* refreshTokenRepo.GetByTokenHash, and IsValid for a rotation.
GetTok(c) ==
  /\ call[c].at = "gettok"
  /\ LET t == call[c].tok
         rotating == call[c].op = "RefreshToken" IN
       \/ t = None /\ rotating /\ Fail(c, "Unauthenticated")
       \/ t = None /\ ~rotating /\ Ok(c)
       \/ t # None /\ rotating /\ ~IsValid(t) /\ Fail(c, "Unauthenticated")
       \/ /\ t # None
          /\ rotating => IsValid(t)
          /\ call' = [call EXCEPT ![c].user = tokens[t].user, ![c].at = "revoke"]
  /\ UNCHANGED <<tables, faults, rotated, verified>>

\* Mutants: the UPDATE has no condition on revoked_at, or one on expires_at.
RevocableAlways(t) == TRUE
RevocableLive(t) == tokens[t].state = "live"

\* The rows the UPDATE finds: not revoked, expired or not.
Revocable(t) == tokens[t].state # "revoked"

\* refreshTokenRepo.Revoke: one statement, of which one caller at most hears
\* that it has changed a row.
Revoke(c) ==
  /\ call[c].at = "revoke"
  /\ LET t == call[c].tok
         rotating == call[c].op = "RefreshToken" IN
       \/ /\ ~Revocable(t)
          /\ IF rotating THEN Fail(c, "NotFound") ELSE Ok(c)
          /\ UNCHANGED <<tokens, faults>>
       \/ /\ Revocable(t)
          /\ tokens' = [tokens EXCEPT ![t].state = "revoked"]
          /\ Proceed(c, IF rotating THEN [call[c] EXCEPT !.at = "getuser"]
                                    ELSE Answer(call[c], "OK"))
  /\ UNCHANGED <<users, challenges, outbox, rotated, verified>>

\* userRepo.GetByID: the profile asked for, or the account to issue tokens to.
GetByID(c) ==
  /\ call[c].at = "getuser"
  /\ LET found == call[c].user # None /\ users[call[c].user] # {} IN
       \/ ~found /\ Fail(c, "NotFound")
       \/ found /\ call[c].op = "GetUser" /\ Ok(c)
       \/ /\ found /\ call[c].op # "GetUser"
          /\ call' = [call EXCEPT ![c].at = "issue"]
  /\ UNCHANGED <<tables, faults, rotated, verified>>

\* Mutant: the row does not say whose token it is.
IssuedUnowned(u) == [state |-> "live", user |-> None]

\* The row of a new refresh token of the user u.
Issued(u) == [state |-> "live", user |-> u]

\* issueTokens: the row of a new refresh token; the access token has no state.
IssueTokens(c) ==
  /\ call[c].at = "issue"
  /\ \E t \in Tokens :
       /\ t = Fresh(tokens) /\ tokens[t].state = "free"
       /\ tokens' = [tokens EXCEPT ![t] = Issued(call[c].user)]
       /\ Proceed(c, [Answer(call[c], "OK") EXCEPT !.new = t])
       /\ rotated' = IF call[c].op = "RefreshToken"
                     THEN [rotated EXCEPT ![call[c].tok] = @ \cup {t}] ELSE rotated
       /\ verified' = IF call[c].op = "VerifyOTP"
                      THEN [verified EXCEPT ![call[c].chal] = @ \cup {t}] ELSE verified
  /\ UNCHANGED <<users, challenges, outbox>>

\* A statement or command fails and has no effect, ...
Break(c) ==
  /\ Running(c) /\ call[c].at # "publish"
  /\ Fault /\ Troubled(c)
  /\ UNCHANGED <<tables, rotated, verified>>

\* ... or the handler panics, which the interceptor answers.
Panic(c) ==
  /\ Running(c)
  /\ Fault /\ Fail(c, "Internal")
  /\ UNCHANGED <<tables, rotated, verified>>

Work(c) ==
  \/ CreateUser(c) \/ LookUp(c) \/ SaveChallenge(c) \/ PublishOTP(c)
  \/ GetChallenge(c) \/ DeleteChallenge(c) \/ GetTok(c) \/ Revoke(c)
  \/ GetByID(c) \/ IssueTokens(c) \/ Break(c) \/ Panic(c)

-----------------------------------------------------------------------------
(* Time and crashes *)

\* Redis removes a one-time password after otpTTL.
ChallengeExpires(x) ==
  /\ challenges[x].state = "stored"
  /\ challenges' = [challenges EXCEPT ![x].state = "gone"]
  /\ UNCHANGED <<users, tokens, outbox, call, faults, rotated, verified>>

\* A refresh token passes its expires_at.
TokenExpires(t) ==
  /\ tokens[t].state = "live"
  /\ tokens' = [tokens EXCEPT ![t].state = "expired"]
  /\ UNCHANGED <<users, challenges, outbox, call, faults, rotated, verified>>

\* The process dies: its clients see the connection go.
Crash ==
  /\ \E c \in Callers : Running(c)
  /\ Fault
  /\ call' = [c \in Callers |-> IF Running(c) THEN Answer(call[c], "Unavailable") ELSE call[c]]
  /\ UNCHANGED <<tables, rotated, verified>>

Elapse ==
  \/ \E x \in Challenges : ChallengeExpires(x)
  \/ \E t \in Tokens : TokenExpires(t)

-----------------------------------------------------------------------------
(* Requests *)

WithForm(op, f, i) == [Blank EXCEPT !.op = op, !.form = f, !.input = i]
WithCode(x, i) == [Blank EXCEPT !.op = "VerifyOTP", !.chal = x, !.input = i]
WithToken(op, t, w, i) == [Blank EXCEPT !.op = op, !.tok = t, !.claims = w, !.input = i]
WithTarget(u, w, i) == [Blank EXCEPT !.op = "GetUser", !.target = u, !.claims = w, !.input = i]

\* An identifier is looked for in both columns.
Contacts == {Row(l, l) : l \in Logins} \cup {Unstorable}

Registrations == {WithForm("Register", f, i) : f \in Forms \cup {Unstorable}, i \in {"right", "short", "long", "missing"}}
PasswordLogins == {WithForm("PasswordLogin", f, i) : f \in Contacts, i \in {"right", "wrong", "missing"}}
OTPLogins == {WithForm("OTPLogin", f, i) : f \in Contacts, i \in {"right", "missing"}}

\* A right code is one that has been delivered.
Confirmations == {WithCode(x, "right") : x \in outbox}
Guesses == {WithCode(x, i) : x \in {None} \cup {y \in Challenges : challenges[y].state # "free"},
                             i \in {"wrong", "missing"}}

Refreshes(t) == {WithToken("RefreshToken", t, None, i) : i \in {"right", "missing"}}
Profiles(v) == {WithTarget(u, w, i) : u \in Users, w \in {None, v}, i \in {"right", "missing"}}
Logouts(t, v) == {WithToken("Logout", t, w, i) : w \in {None, v}, i \in {"right", "missing"}}

\* What a client can ask for that knows the refresh token t and holds an
\* access token of the user v.
Requests(t, v) ==
  UNION {Registrations, PasswordLogins, OTPLogins, Confirmations, Guesses,
         Refreshes(t), Profiles(v), Logouts(t, v)}

IssuesTokens == {"Register", "PasswordLogin", "VerifyOTP", "RefreshToken"}

\* The bounded instance has a row, a token or a one-time password left for
\* every call in progress that may need one.
Room(r) ==
  LET Busy(ops) == Cardinality({c \in Callers : Running(c) /\ call[c].op \in ops})
      Left(rows) == Cardinality({i \in DOMAIN rows : rows[i].state = "free"}) IN
    /\ r.op = "Register" => \/ Holders(r.form) # {}
                            \/ Busy({r.op}) < Cardinality({u \in Users : users[u] = {}})
    /\ r.op = "OTPLogin" => Busy({r.op}) < Left(challenges)
    /\ r.op \in IssuesTokens => Busy(IssuesTokens) < Left(tokens)

\* The refresh tokens that have been handed out.
Known == {t \in Tokens : tokens[t].state # "free"}

UserNext ==
  \/ \E c \in Callers :
       \/ Work(c)
       \/ Leave(c)
       \/ \E t \in Known \cup {None}, v \in Users \cup {None} :
            \E r \in Requests(t, v) : Arrive(c, r)
  \/ Elapse
  \/ Crash

UserSpec == UserInit /\ [][UserNext]_userVars

-----------------------------------------------------------------------------
(* Properties *)

RowState == {"free", "live", "expired", "revoked"}

CallRecord == [op : Methods \cup {"none"}, at : Stages, form : SUBSET Entries,
               tok : Tokens \cup {None}, chal : Challenges \cup {None},
               user : Users \cup {None}, new : Tokens \cup {None}, right : BOOLEAN,
               code : Codes \cup {"none"}, muted : BOOLEAN]

\* Type invariant of the tables, of the handlers and of the history.
UserTypeOK ==
  /\ users \in [Users -> SUBSET Entries]
  /\ tokens \in [Tokens -> [state : RowState, user : Users \cup {None}]]
  /\ challenges \in [Challenges -> [state : {"free", "stored", "gone"}, user : Users \cup {None}]]
  /\ outbox \in SUBSET Challenges
  /\ call \in [Callers -> CallRecord]
  /\ faults \in 0..MaxFaults
  /\ rotated \in [Tokens -> SUBSET Tokens]
  /\ verified \in [Challenges -> SUBSET Tokens]

\* The handler that has revoked a token, or removed a one-time password, and
\* has not issued the new tokens yet.
Rotates(c, t) == call[c].op = "RefreshToken" /\ call[c].tok = t /\ call[c].at \in {"getuser", "issue"}
Verifies(c, x) == call[c].op = "VerifyOTP" /\ call[c].chal = x /\ call[c].at \in {"getuser", "issue"}

TokenPhase(t) ==
  CASE tokens[t].state = "free" -> "unknown"
    [] tokens[t].state \in {"live", "expired"} -> "open"
    [] OTHER -> IF rotated[t] # {} THEN "redeemed"
                ELSE IF \E c \in Callers : Rotates(c, t) THEN "won" ELSE "void"

ChallengePhase(x) ==
  CASE challenges[x].state = "free" -> "unknown"
    [] challenges[x].state = "stored" -> "open"
    [] OTHER -> IF verified[x] # {} THEN "redeemed"
                ELSE IF \E c \in Callers : Verifies(c, x) THEN "won" ELSE "void"

Rotation == INSTANCE OneTime WITH
  Items <- Tokens, Sessions <- Tokens,
  phase <- [t \in Tokens |-> TokenPhase(t)], heirs <- rotated

Verification == INSTANCE OneTime WITH
  Items <- Challenges, Sessions <- Tokens,
  phase <- [x \in Challenges |-> ChallengePhase(x)], heirs <- verified

\* However calls that present the same refresh token interleave, with each
\* other, with a logout, its expiry, failing statements and crashes: the token
\* leads to one new session at most, and to none once it has been revoked by
\* somebody else (user.go RefreshToken, "only one of the requests succeeds").
RotatesOnce == Rotation!Spec

\* The same of a one-time password: the count DEL returns lets one of several
\* concurrent VerifyOTP calls through, and nothing brings a code back.
VerifiesOnce == Verification!Spec

\* A session belongs to the user whose credential paid for it, although the
\* handler carries the user from a read made before the credential was spent.
SessionOwner ==
  /\ \A t \in Tokens : \A s \in rotated[t] : tokens[s].user = tokens[t].user
  /\ \A x \in Challenges : \A s \in verified[x] : tokens[s].user = challenges[x].user

\* Logout answered OK for a known token means that the token is revoked,
\* whoever revoked it, unless the error of its own statement was ignored.
LogoutRevokes ==
  \A c \in Callers :
    (/\ call[c].op = "Logout" /\ call[c].at = "done" /\ call[c].code = "OK"
     /\ call[c].tok # None /\ call[c].right /\ ~call[c].muted)
    => tokens[call[c].tok].state = "revoked"

=============================================================================
