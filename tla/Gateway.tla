------------------------------- MODULE Gateway -------------------------------
(***************************************************************************)
(* The API gateway in front of the user service.  A browser keeps the      *)
(* refresh token in a cookie that all of its tabs share, and the access    *)
(* token of its last login; the gateway turns a request of a tab into one  *)
(* gRPC call and the answer into an HTTP status and a new cookie.  Answers *)
(* reach the browser in any order and may be lost.  Clients of the gRPC    *)
(* port (the server enables reflection for them) call the user service     *)
(* directly and keep their tokens themselves.                              *)
(***************************************************************************)
EXTENDS UserService

CONSTANTS
  Browsers,     \* browsers, and programs that speak gRPC
  Tabs,         \* the callers that are tabs of browsers; the others are direct
  BrowserOf,    \* the browser or program of a caller
  MaxRequests,  \* bound on the requests of a behaviour
  MaxOpen       \* bound on the requests in progress at the same time

ASSUME GatewayAssumption ==
  /\ Tabs \subseteq Callers
  /\ BrowserOf \in [Callers -> Browsers]
  /\ \A c \in Tabs, d \in Callers \ Tabs : BrowserOf[c] # BrowserOf[d]
  /\ MaxRequests \in Nat /\ MaxOpen \in Nat

VARIABLES
  jar,       \* the refresh token in the cookie of each browser
  bearer,    \* the user of the access token each browser holds
  missed,    \* the browsers that lost an answer since their cookie was written
  requests   \* the requests so far

gatewayVars == <<jar, bearer, missed, requests>>
vars == <<userVars, gatewayVars>>

Init ==
  /\ UserInit
  /\ jar = [b \in Browsers |-> None]
  /\ bearer = [b \in Browsers |-> None]
  /\ missed = [b \in Browsers |-> FALSE]
  /\ requests = 0

\* A request within the bounds of the instance.
Count ==
  /\ requests < MaxRequests
  /\ Cardinality({c \in Callers : call[c].at # "idle"}) < MaxOpen
  /\ requests' = requests + 1

\* Writing the cookie of the browser of c.
SetCookie(c, t) ==
  /\ jar' = [jar EXCEPT ![BrowserOf[c]] = t]
  /\ missed' = [missed EXCEPT ![BrowserOf[c]] = FALSE]
KeepCookie == UNCHANGED <<jar, missed>>

-----------------------------------------------------------------------------
(* A tab sends a request *)

\* The requests the gateway passes on: the body binds and the cookie is there.
\* One that it answers by itself, or that the limiter of the auth routes turns
\* away, changes nothing; a limiter that fails lets the request through.
Binds(r) ==
  /\ r.input = "missing" => r.op \in {"Register", "GetUser"}
  /\ r.op \in {"RefreshToken", "Logout"} => r.tok # None

\* The Authorization header is forwarded by GetUser only.
TabRequests(b) ==
  {r \in Requests(jar[b], bearer[b]) : Binds(r) /\ (r.op = "Logout" => r.claims = None)}

Send(c) ==
  /\ Count
  /\ \E r \in TabRequests(BrowserOf[c]) : Room(r) /\ Arrive(c, r)
  /\ UNCHANGED <<jar, bearer, missed>>

-----------------------------------------------------------------------------
(* The answer to a tab *)

\* httperrors.Respond: what is not known is 500.
HttpStatus(code) ==
  CASE code = "OK" -> 200
    [] code = "NotFound" -> 404
    [] code = "AlreadyExists" -> 409
    [] code = "InvalidArgument" -> 400
    [] code = "Unauthenticated" -> 401
    [] code = "PermissionDenied" -> 403
    [] code = "ResourceExhausted" -> 429
    [] OTHER -> 500

\* Mutant: a failed RefreshToken clears the cookie only if the token was refused.
CookieAfterKept(c) ==
  LET rec == call[c] IN
    \/ rec.op \in IssuesTokens /\ rec.code = "OK" /\ SetCookie(c, rec.new)
    \/ rec.op = "RefreshToken" /\ rec.code = "Unauthenticated" /\ SetCookie(c, None)
    \/ rec.op = "Logout" /\ SetCookie(c, None)
    \/ /\ rec.op # "Logout" /\ rec.code \notin {"OK", "Unauthenticated"}
       /\ KeepCookie

\* respondWithAuth writes the cookie; Logout clears it, and so does a
\* RefreshToken that failed for whatever reason.
CookieAfter(c) ==
  LET rec == call[c] IN
    \/ rec.op \in IssuesTokens /\ rec.code = "OK" /\ SetCookie(c, rec.new)
    \/ rec.op = "RefreshToken" /\ rec.code # "OK" /\ SetCookie(c, None)
    \/ rec.op = "Logout" /\ SetCookie(c, None)
    \/ /\ rec.op \notin {"RefreshToken", "Logout"}
       /\ rec.op \in IssuesTokens => rec.code # "OK"
       /\ KeepCookie

\* The access token of the answer: its claims are the user and the role.
BearerAfter(c) ==
  bearer' = IF call[c].op \in IssuesTokens /\ call[c].code = "OK"
            THEN [bearer EXCEPT ![BrowserOf[c]] = call[c].user] ELSE bearer

Respond(c) ==
  /\ Leave(c)
  /\ CookieAfter(c)
  /\ BearerAfter(c)
  /\ UNCHANGED requests

\* The gateway dies, or the connection to the browser does.
ResponseLost(c) ==
  /\ Leave(c)
  /\ missed' = [missed EXCEPT ![BrowserOf[c]] = TRUE]
  /\ UNCHANGED <<jar, bearer, requests>>

-----------------------------------------------------------------------------
(* Direct clients *)

Call(d) ==
  /\ Count
  /\ \E r \in Requests(jar[BrowserOf[d]], bearer[BrowserOf[d]]) : Room(r) /\ Arrive(d, r)
  /\ UNCHANGED <<jar, bearer, missed>>

\* The client keeps the tokens it gets.
Return(d) ==
  /\ Leave(d)
  /\ IF call[d].op \in IssuesTokens /\ call[d].code = "OK"
     THEN SetCookie(d, call[d].new) ELSE KeepCookie
  /\ BearerAfter(d)
  /\ UNCHANGED requests

-----------------------------------------------------------------------------

Next ==
  \/ \E c \in Callers : Work(c) /\ UNCHANGED gatewayVars
  \/ Elapse /\ UNCHANGED gatewayVars
  \/ Crash /\ UNCHANGED gatewayVars
  \/ \E c \in Tabs : Send(c) \/ Respond(c) \/ ResponseLost(c)
  \/ \E d \in Callers \ Tabs : Call(d) \/ Return(d)

Spec == Init /\ [][Next]_vars

-----------------------------------------------------------------------------
(* Properties *)

\* Type invariant of the user service and of the gateway's clients.
TypeOK ==
  /\ UserTypeOK
  /\ jar \in [Browsers -> Tokens \cup {None}]
  /\ bearer \in [Browsers -> Users \cup {None}]
  /\ missed \in [Browsers -> BOOLEAN]
  /\ requests \in 0..MaxRequests

\* Tabs that refresh, log in and log out at the same time, with answers that
\* overtake each other, never leave a browser with a cookie that is spent: a
\* revoked token stays in the cookie only while the answer that will replace or
\* clear it is on its way, or because an answer was lost.
NoDeadCookie ==
  \A b \in Browsers :
    (jar[b] # None /\ tokens[jar[b]].state = "revoked" /\ \E c \in Tabs : BrowserOf[c] = b)
    => \/ missed[b]
       \/ \E c \in Tabs : /\ BrowserOf[c] = b /\ call[c].at # "idle"
                          /\ call[c].op = "RefreshToken" /\ call[c].tok = jar[b]

\* A client that is told 401 or 404 for its refresh token has lost nothing by
\* throwing it away: it lost the race for it or came late.  A failing database,
\* limiter or process never passes for a refusal, on the way through the error
\* kinds, the gRPC codes and the HTTP statuses (user.go RefreshToken).
RefusedTokenSpent ==
  \A c \in Callers :
    (/\ call[c].op = "RefreshToken" /\ call[c].at = "done" /\ call[c].tok # None
     /\ HttpStatus(call[c].code) \in {401, 404})
    => tokens[call[c].tok].state \in {"expired", "revoked"}

=============================================================================
