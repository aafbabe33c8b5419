------------------------- MODULE UserServiceProofs --------------------------
(***************************************************************************)
(* The safety properties of UserService for any number of calls, users,    *)
(* tokens, one-time passwords and faults.                                  *)
(*                                                                         *)
(* SessionOwner and the two refinements of OneTime are not inductive: what *)
(* a handler does when it issues tokens is right only because of what it   *)
(* has read and won before.  Holds says what a handler has at each of its  *)
(* stages, TokenSpent and ChallengeSpent that one handler at most is past  *)
(* the statement that spends a credential, and only while the credential   *)
(* has led nowhere.  Most steps touch no credential (Quiet); the others    *)
(* are taken one by one, each with the step of OneTime it is under the     *)
(* mappings Rotation and Verification.                                     *)
(***************************************************************************)
EXTENDS UserService, TLAPS

-----------------------------------------------------------------------------
(* Handlers and what is left of them *)

\* Only the handler of c moves.
Moves(c) ==
  /\ call' \in [Callers -> CallRecord]
  /\ \A d \in Callers \ {c} : call'[d] = call[d]

\* It moves and keeps its request: method, token and whether it is usable.
Continues(c) ==
  /\ Moves(c)
  /\ call'[c].op = call[c].op /\ call'[c].tok = call[c].tok /\ call'[c].right = call[c].right

\* It answers; what is left holds no one-time password.
Answers(c) ==
  /\ Continues(c)
  /\ call'[c].at = "done" /\ call'[c].chal = None /\ call'[c].new = call[c].new

\* The codes of application errors are gRPC codes.
LEMMA CodeType == ASSUME NEW kind PROVE FromAppError(kind) \in Codes
  BY DEF FromAppError, Codes

\* Answering.
LEMMA AnswerFacts ==
  ASSUME NEW rec \in CallRecord, NEW code \in Codes
  PROVE  /\ Answer(rec, code) \in CallRecord
         /\ Answer(rec, code).at = "done" /\ Answer(rec, code).op = rec.op
         /\ Answer(rec, code).tok = rec.tok /\ Answer(rec, code).chal = None
         /\ Answer(rec, code).right = rec.right /\ Answer(rec, code).code = code
         /\ Answer(rec, code).new = rec.new /\ Answer(rec, code).muted = rec.muted
  <1>1. Answer(rec, code) \in CallRecord
    BY DEF CallRecord, Answer, Stages
  <1>2. /\ Answer(rec, code).at = "done" /\ Answer(rec, code).op = rec.op
        /\ Answer(rec, code).tok = rec.tok /\ Answer(rec, code).chal = None
    BY DEF CallRecord, Answer
  <1>3. /\ Answer(rec, code).right = rec.right /\ Answer(rec, code).code = code
        /\ Answer(rec, code).new = rec.new /\ Answer(rec, code).muted = rec.muted
    BY DEF CallRecord, Answer
  <1>4. QED
    BY <1>1, <1>2, <1>3

\* One handler gets a new record.
LEMMA MoveFacts ==
  ASSUME call \in [Callers -> CallRecord], NEW c \in Callers, NEW rec \in CallRecord,
         call' = [call EXCEPT ![c] = rec]
  PROVE  Moves(c) /\ call'[c] = rec
  BY DEF Moves

\* A handler that answers with a code.
LEMMA AnswerMove ==
  ASSUME call \in [Callers -> CallRecord], NEW c \in Callers, NEW code \in Codes,
         call' = [call EXCEPT ![c] = Answer(@, code)]
  PROVE  Answers(c) /\ call'[c].code = code /\ call'[c].muted = call[c].muted
  <1>1. call[c] \in CallRecord /\ Answer(call[c], code) \in CallRecord
    BY AnswerFacts
  <1>2. Moves(c) /\ call'[c] = Answer(call[c], code)
    BY <1>1, MoveFacts
  <1>3. QED
    BY <1>1, <1>2, AnswerFacts DEF Answers, Continues

\* A handler that answers OK although something failed.
LEMMA MutedMove ==
  ASSUME call \in [Callers -> CallRecord], NEW c \in Callers,
         call' = [call EXCEPT ![c] = [Answer(@, "OK") EXCEPT !.muted = TRUE]]
  PROVE  Answers(c) /\ call'[c].code = "OK" /\ call'[c].muted
  <1> DEFINE rec == Answer(call[c], "OK")
             mute == [rec EXCEPT !.muted = TRUE]
  <1>1. call[c] \in CallRecord /\ "OK" \in Codes
    BY DEF Codes
  <1>2. /\ rec \in CallRecord /\ rec.at = "done" /\ rec.op = call[c].op /\ rec.tok = call[c].tok
        /\ rec.chal = None /\ rec.right = call[c].right /\ rec.code = "OK" /\ rec.new = call[c].new
    BY <1>1, AnswerFacts
  <1> HIDE DEF rec
  <1>3. /\ mute \in CallRecord /\ mute.at = "done" /\ mute.op = call[c].op /\ mute.tok = call[c].tok
        /\ mute.chal = None /\ mute.right = call[c].right /\ mute.code = "OK" /\ mute.new = call[c].new
        /\ mute.muted
    BY <1>2 DEF CallRecord
  <1>4. call' = [call EXCEPT ![c] = mute]
    BY DEF rec
  <1> HIDE DEF mute
  <1>5. Moves(c) /\ call'[c] = mute
    BY <1>3, <1>4, MoveFacts
  <1>6. QED
    BY <1>3, <1>5 DEF Answers, Continues

\* A handler that answers, in one of the ways there are.
LEMMA Ends ==
  ASSUME call \in [Callers -> CallRecord], NEW c \in Callers, NEW kind,
         Ok(c) \/ Fail(c, kind) \/ Troubled(c)
  PROVE  Answers(c)
  <1>1. CASE Ok(c)
    BY <1>1, AnswerMove DEF Ok, Codes
  <1>2. CASE Fail(c, kind)
    BY <1>2, AnswerMove, CodeType DEF Fail
  <1>3. CASE Troubled(c) /\ call[c].op = "Logout" /\ call[c].at = "revoke"
    BY <1>3, MutedMove DEF Troubled
  <1>4. CASE Troubled(c) /\ ~(call[c].op = "Logout" /\ call[c].at = "revoke")
    BY <1>4, AnswerMove, CodeType DEF Troubled
  <1>5. QED
    BY <1>1, <1>2, <1>3, <1>4

\* A handler goes on to another stage, with an account.
LEMMA GoesOn ==
  ASSUME call \in [Callers -> CallRecord], NEW c \in Callers,
         NEW at \in Stages, NEW user \in Users \cup {None},
         call' = [call EXCEPT ![c] = [call[c] EXCEPT !.user = user, !.at = at]]
  PROVE  /\ Continues(c)
         /\ call'[c].at = at /\ call'[c].user = user
         /\ call'[c].chal = call[c].chal /\ call'[c].new = call[c].new
  <1> DEFINE rec == [call[c] EXCEPT !.user = user, !.at = at]
  <1>1. /\ rec \in CallRecord /\ rec.at = at /\ rec.user = user /\ rec.op = call[c].op
        /\ rec.tok = call[c].tok /\ rec.right = call[c].right /\ rec.chal = call[c].chal
        /\ rec.new = call[c].new
    BY DEF CallRecord
  <1> HIDE DEF rec
  <1>2. Moves(c) /\ call'[c] = rec
    BY <1>1, MoveFacts DEF rec
  <1>3. QED
    BY <1>1, <1>2 DEF Continues

\* The same, with the two fields of the record assigned.
LEMMA GoesOnTo ==
  ASSUME call \in [Callers -> CallRecord], NEW c \in Callers,
         NEW at \in Stages, NEW user \in Users \cup {None},
         call' = [call EXCEPT ![c].user = user, ![c].at = at]
  PROVE  /\ Continues(c)
         /\ call'[c].at = at /\ call'[c].user = user
         /\ call'[c].chal = call[c].chal /\ call'[c].new = call[c].new
  <1>1. call' = [call EXCEPT ![c] = [call[c] EXCEPT !.user = user, !.at = at]]
    BY DEF CallRecord
  <1>2. QED
    BY <1>1, GoesOn

\* The same, with the account it has already.
LEMMA GoesOnAs ==
  ASSUME call \in [Callers -> CallRecord], NEW c \in Callers, NEW at \in Stages,
         \/ call' = [call EXCEPT ![c].at = at]
         \/ call' = [call EXCEPT ![c] = [call[c] EXCEPT !.at = at]]
  PROVE  /\ Continues(c)
         /\ call'[c].at = at /\ call'[c].user = call[c].user
         /\ call'[c].chal = call[c].chal /\ call'[c].new = call[c].new
  <1> DEFINE rec == [call[c] EXCEPT !.at = at]
  <1>1. /\ rec \in CallRecord /\ rec.at = at /\ rec.user = call[c].user /\ rec.op = call[c].op
        /\ rec.tok = call[c].tok /\ rec.right = call[c].right /\ rec.chal = call[c].chal
        /\ rec.new = call[c].new
    BY DEF CallRecord
  <1>2. call' = [call EXCEPT ![c] = rec]
    OBVIOUS
  <1> HIDE DEF rec
  <1>3. Moves(c) /\ call'[c] = rec
    BY <1>1, <1>2, MoveFacts
  <1>4. QED
    BY <1>1, <1>3 DEF Continues

-----------------------------------------------------------------------------
(* The inductive invariant *)

\* What a handler holds at each of its stages.  It has read the account from
\* the credential it presents, and credentials that it names exist.
Holds(c) ==
  /\ call[c].at = "create" => call[c].op = "Register"
  /\ call[c].at = "lookup" => call[c].op \in {"PasswordLogin", "OTPLogin"}
  /\ call[c].at \in {"getchal", "delchal"} => call[c].op = "VerifyOTP"
  /\ call[c].at \in {"save", "publish"} => call[c].op = "OTPLogin"
  /\ call[c].at \in {"getuser", "issue"} => call[c].op # "Logout"
  /\ call[c].at \in {"publish", "delchal"} => call[c].chal # None
  /\ call[c].at = "revoke" => call[c].tok # None
  /\ call[c].tok # None => tokens[call[c].tok].state # "free"
  /\ call[c].new # None => tokens[call[c].new].state # "free"
  /\ call[c].chal # None => challenges[call[c].chal].state # "free"
  /\ (call[c].op = "RefreshToken" /\ call[c].at \in {"revoke", "getuser", "issue"})
     => call[c].tok # None /\ call[c].user = tokens[call[c].tok].user
  /\ (call[c].op = "VerifyOTP" /\ call[c].at \in {"delchal", "getuser", "issue"})
     => call[c].chal # None /\ call[c].user = challenges[call[c].chal].user

\* A refresh token that can still be revoked has led nowhere, and one that is
\* revoked is in the hands of one handler at most, before it has led anywhere.
TokenSpent(t) ==
  /\ tokens[t].state # "revoked" => rotated[t] = {} /\ \A c \in Callers : ~Rotates(c, t)
  /\ \A c \in Callers : Rotates(c, t) => rotated[t] = {}
  /\ \A c, d \in Callers : Rotates(c, t) /\ Rotates(d, t) => c = d
  /\ \A s \in rotated[t] : tokens[s].state # "free"

\* The same of one-time passwords.
ChallengeSpent(x) ==
  /\ challenges[x].state # "gone" => verified[x] = {} /\ \A c \in Callers : ~Verifies(c, x)
  /\ \A c \in Callers : Verifies(c, x) => verified[x] = {}
  /\ \A c, d \in Callers : Verifies(c, x) /\ Verifies(d, x) => c = d
  /\ \A s \in verified[x] : tokens[s].state # "free"

\* Only one-time passwords that were stored are delivered.
Delivered == \A x \in outbox : challenges[x].state # "free"

Holding == \A c \in Callers : Holds(c)
TokensSpent == \A t \in Tokens : TokenSpent(t)
ChallengesSpent == \A x \in Challenges : ChallengeSpent(x)

UserInv ==
  /\ UserTypeOK /\ Delivered /\ Holding
  /\ TokensSpent /\ ChallengesSpent /\ SessionOwner /\ LogoutRevokes

\* Rows are never freed, change their owner or come back from being spent.
RowsStay ==
  /\ \A t \in Tokens : tokens[t].state # "free" =>
        tokens'[t].state # "free" /\ tokens'[t].user = tokens[t].user
  /\ \A t \in Tokens : tokens[t].state = "revoked" => tokens'[t].state = "revoked"
  /\ \A x \in Challenges : challenges[x].state # "free" =>
        challenges'[x].state # "free" /\ challenges'[x].user = challenges[x].user

\* No call and no token at the start.
LEMMA UserInitInv == UserInit => UserInv
  <1> SUFFICES ASSUME UserInit PROVE UserInv
    OBVIOUS
  <1> USE UserAssumption
  <1>1. Idle \in CallRecord
    BY DEF Idle, CallRecord, Stages
  <1>2. UserTypeOK
    BY <1>1 DEF UserInit, UserTypeOK, RowState
  <1>3. \A c \in Callers : call[c].at = "idle" /\ call[c].op = "none" /\ call[c].tok = None
                          /\ call[c].chal = None /\ call[c].new = None
    BY DEF UserInit, Idle
  <1>4. Delivered /\ Holding
    BY <1>3 DEF Delivered, Holding, Holds, UserInit
  <1>5. TokensSpent /\ ChallengesSpent /\ SessionOwner /\ LogoutRevokes
    BY <1>3 DEF TokensSpent, TokenSpent, ChallengesSpent, ChallengeSpent, Rotates, Verifies,
                SessionOwner, LogoutRevokes, UserInit
  <1>6. QED
    BY <1>2, <1>4, <1>5 DEF UserInv

\* A handler that does not move keeps what it holds, and so does one that
\* answers.
LEMMA HoldsStays ==
  ASSUME UserTypeOK, RowsStay, NEW d \in Callers, Holds(d), call'[d] = call[d] \/ Answers(d)
  PROVE  Holds(d)'
  BY DEF UserTypeOK, RowsStay, Holds, Answers, Continues, CallRecord

\* No handler of c wins a credential in this step.
WinsNothing(c) ==
  /\ \A t \in Tokens : Rotates(c, t)' => Rotates(c, t)
  /\ \A x \in Challenges : Verifies(c, x)' => Verifies(c, x)

\* LogoutRevokes, of one call.
LogoutDone(c) ==
  (/\ call[c].op = "Logout" /\ call[c].at = "done" /\ call[c].code = "OK"
   /\ call[c].tok # None /\ call[c].right /\ ~call[c].muted)
  => tokens[call[c].tok].state = "revoked"

\* The tables keep their types.
TablesType ==
  /\ users' \in [Users -> SUBSET Entries]
  /\ outbox' \in SUBSET Challenges
  /\ faults' \in 0 .. MaxFaults

\* A step that touches no credential.
Quiet(c) ==
  /\ Moves(c) /\ Holds(c)' /\ WinsNothing(c) /\ LogoutDone(c)'
  /\ TablesType /\ Delivered'
  /\ UNCHANGED <<tokens, challenges, rotated, verified>>

\* A handler that answers wins nothing.
LEMMA AnswersWinNothing == ASSUME NEW c \in Callers, Answers(c) PROVE WinsNothing(c)
  BY DEF Answers, WinsNothing, Rotates, Verifies

\* The bound on faults holds.
LEMMA FaultType ==
  ASSUME UserTypeOK, Fault \/ UNCHANGED faults
  PROVE  faults' \in 0 .. MaxFaults
  BY UserAssumption DEF UserTypeOK, Fault

\* A handler answers and nothing else happens to credentials.
LEMMA QuietAnswer ==
  ASSUME UserInv, NEW c \in Callers, Answers(c), LogoutDone(c)', TablesType, Delivered',
         UNCHANGED <<tokens, challenges, rotated, verified>>
  PROVE  Quiet(c)
  <1>1. RowsStay
    BY DEF RowsStay
  <1>2. Holds(c)'
    BY <1>1, HoldsStays DEF UserInv, Holding
  <1>3. QED
    BY <1>2, AnswersWinNothing DEF Quiet, Answers, Continues

\* Troubles of a step other than the Revoke of Logout end with an error.
LEMMA TroubledFacts ==
  ASSUME UserInv, NEW c \in Callers, Troubled(c)
  PROVE  /\ Answers(c) /\ call'[c].code \in {"OK", "Internal"}
         /\ call[c].op = "Logout" => call'[c].muted \/ call'[c].code = "Internal"
  <1>1. CASE call[c].op = "Logout" /\ call[c].at = "revoke"
    BY <1>1, MutedMove, Ends DEF Troubled, UserInv, UserTypeOK
  <1>2. CASE ~(call[c].op = "Logout" /\ call[c].at = "revoke")
    <2>1. FromAppError("Internal") = "Internal"
      BY DEF FromAppError
    <2>2. call' = [call EXCEPT ![c] = Answer(@, "Internal")]
      BY <1>2, <2>1 DEF Troubled
    <2>3. QED
      BY <2>2, AnswerMove DEF Codes, UserInv, UserTypeOK
  <1>3. QED
    BY <1>1, <1>2

\* An error is not OK.
LEMMA FailFacts ==
  ASSUME UserInv, NEW c \in Callers, NEW kind, Fail(c, kind)
  PROVE  Answers(c) /\ call'[c].code # "OK"
  <1>1. FromAppError(kind) \in Codes /\ FromAppError(kind) # "OK"
    BY DEF FromAppError, Codes
  <1>2. QED
    BY <1>1, AnswerMove DEF Fail, UserInv, UserTypeOK

\* A step that fails, with no effect.
LEMMA QuietTrouble ==
  ASSUME UserInv, NEW c \in Callers, Troubled(c), TablesType, Delivered',
         UNCHANGED <<tokens, challenges, rotated, verified>>
  PROVE  Quiet(c)
  BY TroubledFacts, QuietAnswer DEF LogoutDone, Answers, Continues

\* A handler fails and leaves the credentials alone.
LEMMA QuietFail ==
  ASSUME UserInv, NEW c \in Callers, NEW kind, Fail(c, kind), TablesType, Delivered',
         UNCHANGED <<tokens, challenges, rotated, verified>>
  PROVE  Quiet(c)
  BY FailFacts, QuietAnswer DEF LogoutDone, Answers, Continues

-----------------------------------------------------------------------------
(* Steps that touch no credential *)

\* Nothing happens to the tables.
LEMMA TablesUntouched ==
  ASSUME UserInv, UNCHANGED tables, Fault \/ UNCHANGED faults
  PROVE  TablesType /\ Delivered'
  BY FaultType DEF UserInv, UserTypeOK, TablesType, Delivered, tables

\* Register.
LEMMA CreateUserQuiet == ASSUME UserInv, NEW c \in Callers, CreateUser(c) PROVE Quiet(c)
  <1> USE DEF UserInv
  <1>1. Delivered' /\ UNCHANGED <<tokens, challenges, rotated, verified>>
    BY DEF CreateUser, Delivered
  <1>2. CASE (Fail(c, "AlreadyExists") \/ Fail(c, "Internal")) /\ UNCHANGED <<users, faults>>
    BY <1>1, <1>2, QuietFail DEF CreateUser, TablesType, UserTypeOK
  <1>3. ASSUME NEW u \in Users, Insert(u, call[c].form),
               Proceed(c, [call[c] EXCEPT !.user = u, !.at = "issue"])
        PROVE  Quiet(c)
    <2>1. TablesType
      <3>1. call[c].form \in SUBSET Entries
        BY DEF UserTypeOK, CallRecord
      <3>2. QED
        BY <1>3, <3>1, FaultType DEF Insert, Proceed, CreateUser, TablesType, UserTypeOK
    <2>2. CASE Troubled(c)
      BY <1>1, <2>1, <2>2, QuietTrouble
    <2>3. CASE call' = [call EXCEPT ![c] = [call[c] EXCEPT !.user = u, !.at = "issue"]]
      <3>1. /\ Continues(c) /\ call'[c].at = "issue"
            /\ call'[c].chal = call[c].chal /\ call'[c].new = call[c].new
        BY <2>3, GoesOn DEF UserTypeOK, Stages
      <3>2. call[c].op = "Register" /\ Holds(c)
        BY DEF CreateUser, Holding, Holds
      <3>3. Holds(c)' /\ WinsNothing(c) /\ LogoutDone(c)'
        BY <1>1, <3>1, <3>2 DEF Holds, WinsNothing, Rotates, Verifies, LogoutDone, Continues
      <3>4. QED
        BY <1>1, <2>1, <3>1, <3>3 DEF Quiet, Continues
    <2>4. QED
      BY <1>3, <2>2, <2>3 DEF Proceed
  <1>4. QED
    BY <1>2, <1>3 DEF CreateUser

\* The logins by password or one-time password.
LEMMA LookUpQuiet == ASSUME UserInv, NEW c \in Callers, LookUp(c) PROVE Quiet(c)
  <1> USE DEF UserInv
  <1>1. TablesType /\ Delivered' /\ UNCHANGED <<tokens, challenges, rotated, verified>>
    BY TablesUntouched DEF LookUp, tables
  <1>2. CASE Fail(c, "Unauthenticated") \/ Fail(c, "Internal")
    BY <1>1, <1>2, QuietFail
  <1>3. ASSUME NEW u \in Holders(call[c].form),
               call' = [call EXCEPT ![c].user = u,
                          ![c].at = IF call[c].op = "OTPLogin" THEN "save" ELSE "issue"]
        PROVE  Quiet(c)
    <2> DEFINE next == IF call[c].op = "OTPLogin" THEN "save" ELSE "issue"
    <2>2. u \in Users /\ next \in Stages
      BY <1>3 DEF Holders, Stages
    <2>3. /\ Continues(c) /\ call'[c].at = next
          /\ call'[c].chal = call[c].chal /\ call'[c].new = call[c].new
      BY <1>3, <2>2, GoesOnTo DEF UserTypeOK
    <2>4. call[c].op \in {"PasswordLogin", "OTPLogin"} /\ Holds(c)
      BY DEF LookUp, Holding, Holds
    <2>5. Holds(c)' /\ WinsNothing(c) /\ LogoutDone(c)'
      BY <1>1, <2>3, <2>4 DEF Holds, WinsNothing, Rotates, Verifies, LogoutDone, Continues
    <2>6. QED
      BY <1>1, <2>3, <2>5 DEF Quiet, Continues
  <1>4. QED
    BY <1>2, <1>3 DEF LookUp

\* Publication of a code.
LEMMA PublishOTPQuiet == ASSUME UserInv, NEW c \in Callers, PublishOTP(c) PROVE Quiet(c)
  <1> USE DEF UserInv
  <1>1. call[c].op = "OTPLogin" /\ call[c].chal # None /\ challenges[call[c].chal].state # "free"
    BY DEF PublishOTP, Holding, Holds
  <1>2. call[c].chal \in Challenges
    BY <1>1 DEF UserTypeOK, CallRecord
  <1>3. outbox' = outbox \/ outbox' = outbox \cup {call[c].chal}
    BY DEF PublishOTP, PublishOTPRequested
  <1>4. UNCHANGED <<users, tokens, challenges, rotated, verified>>
    BY DEF PublishOTP
  <1>5. TablesType
    BY <1>2, <1>3, <1>4, FaultType DEF PublishOTP, TablesType, UserTypeOK
  <1>6. Delivered'
    BY <1>1, <1>3, <1>4 DEF Delivered
  <1>7. Answers(c)
    BY Ends, MutedMove DEF PublishOTP, UserTypeOK
  <1>8. LogoutDone(c)'
    BY <1>1, <1>7 DEF LogoutDone, Answers, Continues
  <1>9. QED
    BY <1>4, <1>5, <1>6, <1>7, <1>8, QuietAnswer

\* The first half of VerifyOTP.
LEMMA GetChallengeQuiet == ASSUME UserInv, NEW c \in Callers, GetChallenge(c) PROVE Quiet(c)
  <1> USE DEF UserInv
  <1>1. TablesType /\ Delivered' /\ UNCHANGED <<tokens, challenges, rotated, verified>>
    BY TablesUntouched DEF GetChallenge, tables
  <1>2. CASE \E kind : Fail(c, kind)
    BY <1>1, <1>2, QuietFail
  <1>3. CASE /\ call[c].chal # None
             /\ call' = [call EXCEPT ![c].user = challenges[call[c].chal].user, ![c].at = "delchal"]
    <2>1. PICK u \in Users \cup {None} : u = challenges[call[c].chal].user
      BY <1>3 DEF UserTypeOK, CallRecord
    <2>0. call \in [Callers -> CallRecord] /\ u \in Users \cup {None}
      BY <2>1 DEF UserTypeOK
    <2>2. /\ call' = [call EXCEPT ![c] = [call[c] EXCEPT !.user = u, !.at = "delchal"]]
          /\ "delchal" \in Stages
      BY <1>3, <2>1 DEF Stages
    <2>3. /\ Continues(c) /\ call'[c].at = "delchal" /\ call'[c].user = u
          /\ call'[c].chal = call[c].chal /\ call'[c].new = call[c].new
      BY <2>0, <2>2, GoesOn, Zenon
    <2>4. call[c].op = "VerifyOTP" /\ Holds(c)
      BY DEF GetChallenge, Holding, Holds
    <2>5. Holds(c)' /\ WinsNothing(c) /\ LogoutDone(c)'
      BY <1>1, <1>3, <2>1, <2>3, <2>4 DEF Holds, WinsNothing, Rotates, Verifies, LogoutDone, Continues
    <2>6. QED
      BY <1>1, <2>3, <2>5 DEF Quiet, Continues
  <1>4. QED
    BY <1>2, <1>3 DEF GetChallenge

\* The token of RefreshToken and Logout is looked up.
LEMMA GetTokQuiet == ASSUME UserInv, NEW c \in Callers, GetTok(c) PROVE Quiet(c)
  <1> USE DEF UserInv
  <1>1. TablesType /\ Delivered' /\ UNCHANGED <<tokens, challenges, rotated, verified>>
    BY TablesUntouched DEF GetTok, tables
  <1>2. CASE \E kind : Fail(c, kind)
    BY <1>1, <1>2, QuietFail
  <1>3. CASE call[c].tok = None /\ Ok(c)
    <2>1. Answers(c)
      BY <1>3, Ends DEF UserTypeOK
    <2>2. LogoutDone(c)'
      BY <1>3, <2>1 DEF LogoutDone, Answers, Continues
    <2>3. QED
      BY <1>1, <2>1, <2>2, QuietAnswer
  <1>4. CASE /\ call[c].tok # None
             /\ call' = [call EXCEPT ![c].user = tokens[call[c].tok].user, ![c].at = "revoke"]
    <2>1. PICK u \in Users \cup {None} : u = tokens[call[c].tok].user
      BY <1>4 DEF UserTypeOK, CallRecord
    <2>0. call \in [Callers -> CallRecord] /\ u \in Users \cup {None}
      BY <2>1 DEF UserTypeOK
    <2>2. /\ call' = [call EXCEPT ![c] = [call[c] EXCEPT !.user = u, !.at = "revoke"]]
          /\ "revoke" \in Stages
      BY <1>4, <2>1 DEF Stages
    <2>3. /\ Continues(c) /\ call'[c].at = "revoke" /\ call'[c].user = u
          /\ call'[c].chal = call[c].chal /\ call'[c].new = call[c].new
      BY <2>0, <2>2, GoesOn, Zenon
    <2>4. Holds(c)
      BY DEF Holding
    <2>5. Holds(c)' /\ WinsNothing(c) /\ LogoutDone(c)'
      BY <1>1, <1>4, <2>1, <2>3, <2>4 DEF Holds, WinsNothing, Rotates, Verifies, LogoutDone, Continues
    <2>6. QED
      BY <1>1, <2>3, <2>5 DEF Quiet, Continues
  <1>5. QED
    BY <1>2, <1>3, <1>4 DEF GetTok

\* The account is looked up.
LEMMA GetByIDQuiet == ASSUME UserInv, NEW c \in Callers, GetByID(c) PROVE Quiet(c)
  <1> USE DEF UserInv
  <1>1. TablesType /\ Delivered' /\ UNCHANGED <<tokens, challenges, rotated, verified>>
    BY TablesUntouched DEF GetByID, tables
  <1>2. CASE Fail(c, "NotFound")
    BY <1>1, <1>2, QuietFail
  <1>3. CASE call[c].op = "GetUser" /\ Ok(c)
    <2>1. Answers(c)
      BY <1>3, Ends DEF UserTypeOK
    <2>2. LogoutDone(c)'
      BY <1>3, <2>1 DEF LogoutDone, Answers, Continues
    <2>3. QED
      BY <1>1, <2>1, <2>2, QuietAnswer
  <1>4. CASE call' = [call EXCEPT ![c].at = "issue"]
    <2>3. /\ Continues(c) /\ call'[c].at = "issue" /\ call'[c].user = call[c].user
          /\ call'[c].chal = call[c].chal /\ call'[c].new = call[c].new
      BY <1>4, GoesOnAs DEF UserTypeOK, Stages
    <2>4. call[c].at = "getuser" /\ Holds(c)
      BY DEF GetByID, Holding
    <2>5. Holds(c)' /\ WinsNothing(c) /\ LogoutDone(c)'
      BY <1>1, <2>3, <2>4 DEF Holds, WinsNothing, Rotates, Verifies, LogoutDone, Continues
    <2>6. QED
      BY <1>1, <2>3, <2>5 DEF Quiet, Continues
  <1>5. QED
    BY <1>2, <1>3, <1>4 DEF GetByID

\* A statement that fails, and a panic.
LEMMA BreakQuiet == ASSUME UserInv, NEW c \in Callers, Break(c) \/ Panic(c) PROVE Quiet(c)
  BY TablesUntouched, QuietTrouble, QuietFail DEF Break, Panic, tables

-----------------------------------------------------------------------------
(* A call arrives, and leaves *)

\* A request names credentials that exist.
WellFormed(r) ==
  /\ r.op \in Methods
  /\ r.form \in SUBSET Entries
  /\ r.tok \in Known \cup {None}
  /\ r.chal \in {x \in Challenges : challenges[x].state # "free"} \cup {None}
  /\ r.target \in Users \cup {None}

\* What a client can send.
LEMMA RequestFacts ==
  ASSUME UserInv, NEW t \in Known \cup {None}, NEW v \in Users \cup {None},
         NEW r \in Requests(t, v)
  PROVE  WellFormed(r)
  <1> DEFINE Inputs == {"right", "short", "long", "wrong", "missing"}
             Stored == {y \in Challenges : challenges[y].state # "free"}
  <1>1. ASSUME NEW op \in Methods, NEW f \in SUBSET Entries, NEW i \in Inputs
        PROVE  WellFormed(WithForm(op, f, i))
    BY DEF WellFormed, WithForm, Blank
  <1>2. ASSUME NEW x \in {None} \cup Stored, NEW i \in Inputs
        PROVE  WellFormed(WithCode(x, i))
    BY DEF WellFormed, WithCode, Blank, Methods
  <1>3. ASSUME NEW op \in Methods, NEW w \in {None, v}, NEW i \in Inputs
        PROVE  WellFormed(WithToken(op, t, w, i))
    BY DEF WellFormed, WithToken, Blank
  <1>4. ASSUME NEW u \in Users, NEW w \in {None, v}, NEW i \in Inputs
        PROVE  WellFormed(WithTarget(u, w, i))
    BY DEF WellFormed, WithTarget, Blank, Methods
  <1>5. /\ Contacts \subseteq SUBSET Entries /\ Forms \cup {Unstorable} \subseteq SUBSET Entries
    <2>1. \A e, p \in Logins : Row(e, p) \in SUBSET Entries
      BY DEF Row, Entries
    <2>2. QED
      BY <2>1, UserAssumption DEF Contacts, Unstorable
  <1>6. outbox \subseteq Stored
    BY DEF UserInv, Delivered, UserTypeOK
  <1>7. \A q \in Registrations : WellFormed(q)
    BY <1>1, <1>5 DEF Registrations, Methods
  <1>8. \A q \in PasswordLogins \cup OTPLogins : WellFormed(q)
    BY <1>1, <1>5 DEF PasswordLogins, OTPLogins, Methods
  <1>9. \A q \in Confirmations \cup Guesses : WellFormed(q)
    BY <1>2, <1>6 DEF Confirmations, Guesses
  <1>10. \A q \in Refreshes(t) \cup Logouts(t, v) : WellFormed(q)
    BY <1>3 DEF Refreshes, Logouts, Methods
  <1>11. \A q \in Profiles(v) : WellFormed(q)
    BY <1>4 DEF Profiles
  <1>12. QED
    BY <1>7, <1>8, <1>9, <1>10, <1>11 DEF Requests

\* A handler as it starts.
LEMMA HandlerFacts ==
  ASSUME NEW r, WellFormed(r)
  PROVE  /\ Handler(r) \in CallRecord
         /\ Handler(r).op = r.op /\ Handler(r).tok = r.tok /\ Handler(r).chal = r.chal
         /\ Handler(r).at = FirstStage(r.op) /\ Handler(r).new = None
         /\ Handler(r).right = (r.input = "right")
  <1>1. FirstStage(r.op) \in Stages
    BY DEF FirstStage, Stages
  <1>2. /\ r.op \in Methods /\ r.form \in SUBSET Entries /\ r.tok \in Tokens \cup {None}
        /\ r.chal \in Challenges \cup {None} /\ r.target \in Users \cup {None}
    BY DEF WellFormed, Known
  <1> DEFINE rec(op, at, form, tok, chal, user, right) ==
        [Idle EXCEPT !.op = op, !.at = at, !.form = form, !.tok = tok,
                     !.chal = chal, !.user = user, !.right = right]
  <1>3. ASSUME NEW op \in Methods, NEW at \in Stages, NEW form \in SUBSET Entries,
               NEW tok \in Tokens \cup {None}, NEW chal \in Challenges \cup {None},
               NEW user \in Users \cup {None}, NEW right \in BOOLEAN,
               NEW h, h = rec(op, at, form, tok, chal, user, right)
        PROVE  /\ h \in CallRecord
               /\ h.op = op /\ h.tok = tok /\ h.chal = chal
               /\ h.at = at /\ h.new = None /\ h.right = right
    BY <1>3 DEF Idle, CallRecord
  <1>4. PICK usable \in BOOLEAN : usable = (r.input = "right")
    OBVIOUS
  <1>5. Handler(r) = rec(r.op, FirstStage(r.op), r.form, r.tok, r.chal, r.target, usable)
    BY <1>4 DEF Handler
  <1> HIDE DEF rec
  <1>6. /\ Handler(r) \in CallRecord
        /\ Handler(r).op = r.op /\ Handler(r).tok = r.tok /\ Handler(r).chal = r.chal
        /\ Handler(r).at = FirstStage(r.op) /\ Handler(r).new = None
        /\ Handler(r).right = usable
    BY <1>1, <1>2, <1>3, <1>5
  <1>7. QED
    BY <1>4, <1>6

\* What the interceptors and the first checks leave: a handler at its first
\* stage, or an answer.
LEMMA AdmittedFacts ==
  ASSUME NEW r, WellFormed(r), NEW rec,
         \/ rec = Admitted(r)
         \/ rec = Answer(Handler(r), "ResourceExhausted")
         \/ rec = Answer(Handler(r), "Internal")
  PROVE  /\ rec \in CallRecord
         /\ rec.op = r.op /\ rec.tok = r.tok /\ rec.new = None
         /\ rec.right = (r.input = "right")
         /\ rec.chal \in {r.chal, None}
         /\ \/ rec.at = FirstStage(r.op) /\ rec.chal = r.chal /\ Authenticated(r)
            \/ /\ rec.at = "done"
               /\ (rec.op = "Logout" /\ rec.code = "OK") => r.input = "missing"
  <1>1. /\ Handler(r) \in CallRecord
        /\ Handler(r).op = r.op /\ Handler(r).tok = r.tok /\ Handler(r).chal = r.chal
        /\ Handler(r).at = FirstStage(r.op) /\ Handler(r).new = None
        /\ Handler(r).right = (r.input = "right")
    BY HandlerFacts
  <1>2. CASE rec = Handler(r) /\ Authenticated(r)
    BY <1>1, <1>2
  <1>3. ASSUME NEW code \in Codes, rec = Answer(Handler(r), code),
               (r.op = "Logout" /\ code = "OK") => r.input = "missing"
        PROVE  /\ rec \in CallRecord
               /\ rec.op = r.op /\ rec.tok = r.tok /\ rec.new = None
               /\ rec.right = (r.input = "right")
               /\ rec.chal = None /\ rec.at = "done"
               /\ (rec.op = "Logout" /\ rec.code = "OK") => r.input = "missing"
    BY <1>1, <1>3, AnswerFacts
  <1>4. CASE rec = Admitted(r)
    <2>1. Refusal(r) = "none" => r.input = "missing"
      BY DEF Refusal, HashFails, MayRead
    <2>2. FromAppError(Refusal(r)) \in Codes /\ FromAppError(Refusal(r)) # "OK"
      BY DEF FromAppError, Codes
    <2>3. CASE ~Authenticated(r)
      <3>1. rec = Answer(Handler(r), "Unauthenticated")
        BY <1>4, <2>3 DEF Admitted
      <3>2. QED
        BY <1>3, <3>1 DEF Codes
    <2>4. CASE Authenticated(r) /\ Refusal(r) = "pass"
      BY <1>2, <1>4, <2>4 DEF Admitted
    <2>5. CASE Authenticated(r) /\ Refusal(r) = "none"
      <3>1. rec = Answer(Handler(r), "OK")
        BY <1>4, <2>5 DEF Admitted
      <3>2. QED
        BY <1>3, <2>1, <2>5, <3>1 DEF Codes
    <2>6. CASE Authenticated(r) /\ Refusal(r) \notin {"pass", "none"}
      <3>1. rec = Answer(Handler(r), FromAppError(Refusal(r)))
        BY <1>4, <2>6 DEF Admitted
      <3>2. QED
        BY <1>3, <2>2, <3>1
    <2>7. QED
      BY <2>3, <2>4, <2>5, <2>6
  <1>5. CASE rec # Admitted(r)
    <2>1. \E code \in Codes : code # "OK" /\ rec = Answer(Handler(r), code)
      BY <1>5 DEF Codes
    <2>2. QED
      BY <1>3, <2>1
  <1>6. QED
    BY <1>4, <1>5

\* A call arrives.
LEMMA ArriveFacts ==
  ASSUME UserInv, NEW c \in Callers, NEW r, WellFormed(r), Arrive(c, r)
  PROVE  /\ Moves(c)
         /\ call'[c].op = r.op /\ call'[c].tok = r.tok /\ call'[c].new = None
         /\ call'[c].right = (r.input = "right")
         /\ call'[c].chal \in {r.chal, None}
         /\ \/ call'[c].at = FirstStage(r.op) /\ call'[c].chal = r.chal /\ Authenticated(r)
            \/ /\ call'[c].at = "done"
               /\ (call'[c].op = "Logout" /\ call'[c].code = "OK") => r.input = "missing"
         /\ UNCHANGED tables
         /\ Fault \/ UNCHANGED faults
  <1>1. PICK verdict \in Check :
            /\ call' = [call EXCEPT ![c] =
                          CASE verdict = "allowed" -> Admitted(r)
                            [] verdict = "exhausted" -> Answer(Handler(r), "ResourceExhausted")
                            [] verdict = "broken" -> Answer(Handler(r), "Internal")]
            /\ IF verdict = "broken" THEN Fault ELSE UNCHANGED faults
    BY DEF Arrive
  <1>2. PICK rec : /\ call' = [call EXCEPT ![c] = rec]
                   /\ \/ rec = Admitted(r)
                      \/ rec = Answer(Handler(r), "ResourceExhausted")
                      \/ rec = Answer(Handler(r), "Internal")
    <2>1. CASE verdict = "allowed"
      BY <1>1, <2>1
    <2>2. CASE verdict = "exhausted"
      BY <1>1, <2>2
    <2>3. CASE verdict = "broken"
      BY <1>1, <2>3
    <2>4. QED
      BY <1>1, <2>1, <2>2, <2>3 DEF Check
  <1>3. rec \in CallRecord
    BY <1>2, AdmittedFacts
  <1>4. Moves(c) /\ call'[c] = rec
    BY <1>2, <1>3, MoveFacts DEF UserInv, UserTypeOK
  <1>5. UNCHANGED tables /\ (Fault \/ UNCHANGED faults)
    BY <1>1 DEF Arrive
  <1>6. QED
    BY <1>2, <1>4, <1>5, AdmittedFacts

\* A request arrives, is refused or passes the checks, and no credential is touched.
LEMMA ArriveQuiet ==
  ASSUME UserInv, NEW c \in Callers, NEW t \in Known \cup {None}, NEW v \in Users \cup {None},
         NEW r \in Requests(t, v), Arrive(c, r)
  PROVE  Quiet(c)
  <1>1. WellFormed(r)
    BY RequestFacts
  <1>2. /\ Moves(c)
        /\ call'[c].op = r.op /\ call'[c].tok = r.tok /\ call'[c].new = None
        /\ call'[c].right = (r.input = "right")
        /\ call'[c].chal \in {r.chal, None}
        /\ \/ call'[c].at = FirstStage(r.op)
           \/ /\ call'[c].at = "done"
              /\ (call'[c].op = "Logout" /\ call'[c].code = "OK") => r.input = "missing"
    BY <1>1, ArriveFacts
  <1>3. TablesType /\ Delivered' /\ UNCHANGED <<tokens, challenges, rotated, verified>>
    BY <1>1, ArriveFacts, TablesUntouched DEF Arrive, tables
  <1>4. /\ r.tok # None => tokens[r.tok].state # "free"
        /\ r.chal # None => challenges[r.chal].state # "free"
    BY <1>1 DEF WellFormed, Known
  <1>5. r.op \in Methods
    BY <1>1 DEF WellFormed
  <1>6. Holds(c)'
    BY <1>2, <1>3, <1>4, <1>5 DEF Holds, FirstStage, Methods
  <1>7. WinsNothing(c)
    BY <1>2, <1>5 DEF WinsNothing, Rotates, Verifies, FirstStage, Methods
  <1>8. LogoutDone(c)'
    BY <1>2, <1>5 DEF LogoutDone, FirstStage, Methods
  <1>9. QED
    BY <1>2, <1>3, <1>6, <1>7, <1>8 DEF Quiet

\* The client has its answer.
LEMMA LeaveQuiet == ASSUME UserInv, NEW c \in Callers, Leave(c) PROVE Quiet(c)
  <1>1. Idle \in CallRecord
    BY DEF Idle, CallRecord, Stages
  <1>2. Moves(c) /\ call'[c] = Idle
    BY <1>1, MoveFacts DEF Leave, UserInv, UserTypeOK
  <1>3. TablesType /\ Delivered' /\ UNCHANGED <<tokens, challenges, rotated, verified>>
    BY TablesUntouched DEF Leave, tables
  <1>4. Holds(c)' /\ WinsNothing(c) /\ LogoutDone(c)'
    BY <1>2 DEF Holds, WinsNothing, Rotates, Verifies, LogoutDone, Idle
  <1>5. QED
    BY <1>2, <1>3, <1>4 DEF Quiet

-----------------------------------------------------------------------------
(* What steps do to the two kinds of credentials, and the steps of OneTime   *)
(* they are                                                                  *)

\* Credentials can only be lost: nobody wins one, none is handed out.
RotationFades ==
  /\ UNCHANGED rotated
  /\ \A t \in Tokens : tokens'[t].state = "free" <=> tokens[t].state = "free"
  /\ \A t \in Tokens : tokens[t].state = "revoked" => tokens'[t].state = "revoked"
  /\ \A c \in Callers, t \in Tokens : Rotates(c, t)' => Rotates(c, t)

VerificationFades ==
  /\ UNCHANGED verified
  /\ \A x \in Challenges : challenges'[x].state = "free" <=> challenges[x].state = "free"
  /\ \A x \in Challenges : challenges[x].state = "gone" => challenges'[x].state = "gone"
  /\ \A c \in Callers, x \in Challenges : Verifies(c, x)' => Verifies(c, x)

TokenTypes ==
  /\ \A t \in Tokens : tokens[t].state \in RowState
  /\ \A x \in Challenges : challenges[x].state \in {"free", "stored", "gone"}

\* Losing is a Void step, for none, one or several credentials.
LEMMA RotationFading ==
  ASSUME TokensSpent, RotationFades, TokenTypes, TokenTypes'
  PROVE  \E S \in SUBSET Tokens : Rotation!Void(S)
  <1> DEFINE S == {t \in Tokens : TokenPhase(t) # TokenPhase(t)'}
  <1>1. ASSUME NEW t \in Tokens, TokenPhase(t) # TokenPhase(t)'
        PROVE  TokenPhase(t) \in {"open", "won"} /\ TokenPhase(t)' = "void"
    BY <1>1 DEF TokensSpent, TokenSpent, RotationFades, TokenTypes, RowState, TokenPhase
  <1>2. Rotation!Void(S)
    BY <1>1 DEF Rotation!Void, RotationFades
  <1>3. QED
    BY <1>2

\* One-time passwords that are lost become void.
LEMMA VerificationFading ==
  ASSUME ChallengesSpent, VerificationFades, TokenTypes, TokenTypes'
  PROVE  \E S \in SUBSET Challenges : Verification!Void(S)
  <1> DEFINE S == {x \in Challenges : ChallengePhase(x) # ChallengePhase(x)'}
  <1>1. ASSUME NEW x \in Challenges, ChallengePhase(x) # ChallengePhase(x)'
        PROVE  ChallengePhase(x) \in {"open", "won"} /\ ChallengePhase(x)' = "void"
    BY <1>1 DEF ChallengesSpent, ChallengeSpent, VerificationFades, TokenTypes, ChallengePhase
  <1>2. Verification!Void(S)
    BY <1>1 DEF Verification!Void, VerificationFades
  <1>3. QED
    BY <1>2

\* What has been spent stays spent.
LEMMA SpentStays ==
  ASSUME UserTypeOK, RowsStay
  PROVE  /\ TokensSpent /\ RotationFades => TokensSpent'
         /\ ChallengesSpent /\ VerificationFades => ChallengesSpent'
  <1>1. TokensSpent /\ RotationFades => TokensSpent'
    BY DEF UserTypeOK, RowsStay, TokensSpent, TokenSpent, RotationFades
  <1>2. ChallengesSpent /\ VerificationFades => ChallengesSpent'
    BY DEF UserTypeOK, RowsStay, ChallengesSpent, ChallengeSpent, VerificationFades
  <1>3. QED
    BY <1>1, <1>2

\* Sessions keep their owners.
LEMMA OwnersStay ==
  ASSUME UserInv, RowsStay, UNCHANGED <<rotated, verified>>
  PROVE  SessionOwner'
  BY DEF UserInv, UserTypeOK, RowsStay, TokensSpent, TokenSpent, ChallengesSpent, ChallengeSpent,
         SessionOwner

\* The parts make up the invariant.
LEMMA Assemble ==
  ASSUME UserInv, NEW c \in Callers, Moves(c), Holds(c)', LogoutDone(c)',
         RowsStay, UserTypeOK', Delivered', TokensSpent', ChallengesSpent', SessionOwner'
  PROVE  UserInv'
  <1>1. Holding'
    <2>1. \A d \in Callers \ {c} : Holds(d)'
      BY HoldsStays DEF UserInv, Holding, Moves
    <2>2. QED
      BY <2>1 DEF Holding
  <1>2. LogoutRevokes'
    <2>1. ASSUME NEW d \in Callers \ {c} PROVE LogoutDone(d)'
      BY DEF UserInv, LogoutRevokes, LogoutDone, Moves, RowsStay, UserTypeOK, CallRecord
    <2>2. QED
      BY <2>1 DEF LogoutRevokes, LogoutDone
  <1>3. QED
    BY <1>1, <1>2 DEF UserInv

\* A credential step of OneTime, seen from one of the two mappings.
RotationStep == [Rotation!Next]_(Rotation!vars)
VerificationStep == [Verification!Next]_(Verification!vars)

\* The part of the types that the refinements need.
LEMMA TypesOf == UserTypeOK => TokenTypes
  BY DEF UserTypeOK, TokenTypes

\* A step that only loses credentials is a step of the abstract specification.
LEMMA FadingSteps ==
  ASSUME UserInv, UserTypeOK'
  PROVE  (RotationFades => RotationStep) /\ (VerificationFades => VerificationStep)
  <1>1. TokenTypes /\ TokenTypes'
    BY TypesOf, UserTypeOK, UserTypeOK' DEF UserInv, UserTypeOK, TokenTypes
  <1>2. RotationFades => RotationStep
    BY <1>1, RotationFading DEF UserInv, RotationStep, Rotation!Next
  <1>3. VerificationFades => VerificationStep
    BY <1>1, VerificationFading DEF UserInv, VerificationStep, Verification!Next
  <1>4. QED
    BY <1>2, <1>3

\* Steps that touch no credential keep the invariant, and lose credentials at
\* most.
LEMMA QuietStep ==
  ASSUME UserInv, NEW c \in Callers, Quiet(c)
  PROVE  UserInv' /\ RotationStep /\ VerificationStep
  <1>1. RowsStay
    BY DEF Quiet, RowsStay
  <1>2. RotationFades /\ VerificationFades
    BY DEF Quiet, RotationFades, VerificationFades, WinsNothing, Moves, Rotates, Verifies
  <1>3. UserTypeOK'
    BY DEF Quiet, UserInv, UserTypeOK, TablesType, Moves
  <1>4. TokensSpent' /\ ChallengesSpent' /\ SessionOwner'
    BY <1>1, <1>2, SpentStays, OwnersStay DEF UserInv, Quiet
  <1>5. UserInv'
    BY <1>1, <1>3, <1>4, Assemble DEF Quiet
  <1>6. QED
    BY <1>2, <1>3, <1>5, FadingSteps

-----------------------------------------------------------------------------
(* One-time passwords *)

\* A statement has taken effect, and the handler answers with an error, or
\* ignores it.
LEMMA TroubledEnd ==
  ASSUME UserInv, NEW c \in Callers, Troubled(c), RowsStay
  PROVE  Moves(c) /\ Holds(c)' /\ WinsNothing(c) /\ LogoutDone(c)'
  <1>1. /\ Answers(c)
        /\ call[c].op = "Logout" => call'[c].muted \/ call'[c].code = "Internal"
    BY TroubledFacts
  <1>2. Holds(c)'
    BY <1>1, HoldsStays DEF UserInv, Holding
  <1>3. LogoutDone(c)'
    BY <1>1 DEF LogoutDone, Answers, Continues
  <1>4. QED
    BY <1>1, <1>2, <1>3, AnswersWinNothing DEF Answers, Continues

\* A new one-time password.
LEMMA SaveChallengeStep ==
  ASSUME UserInv, NEW c \in Callers, SaveChallenge(c)
  PROVE  UserInv' /\ RotationStep /\ VerificationStep
  <1> USE DEF UserInv
  <1>1. PICK x \in Challenges :
            /\ challenges[x].state = "free"
            /\ challenges' = [challenges EXCEPT ![x] = [state |-> "stored", user |-> call[c].user]]
            /\ Proceed(c, [call[c] EXCEPT !.chal = x, !.at = "publish"])
    BY DEF SaveChallenge
  <1>2. UNCHANGED <<users, tokens, outbox, rotated, verified>>
    BY DEF SaveChallenge
  <1>3. RowsStay
    BY <1>1, <1>2 DEF RowsStay, UserTypeOK
  <1>4. Moves(c) /\ Holds(c)' /\ WinsNothing(c) /\ LogoutDone(c)'
    <2>1. CASE Troubled(c)
      BY <1>3, <2>1, TroubledEnd
    <2>2. CASE call' = [call EXCEPT ![c] = [call[c] EXCEPT !.chal = x, !.at = "publish"]]
      <3> DEFINE rec == [call[c] EXCEPT !.chal = x, !.at = "publish"]
      <3>1. /\ rec \in CallRecord /\ rec.at = "publish" /\ rec.chal = x /\ rec.op = call[c].op
            /\ rec.tok = call[c].tok /\ rec.new = call[c].new
        <4>1. x \in Challenges /\ call[c] \in CallRecord
          BY <1>1 DEF UserTypeOK
        <4>2. QED
          BY <4>1 DEF CallRecord, Stages
      <3> HIDE DEF rec
      <3>2. Moves(c) /\ call'[c] = rec
        BY <2>2, <3>1, MoveFacts DEF UserTypeOK, rec
      <3>3. call[c].op = "OTPLogin" /\ Holds(c)
        BY DEF SaveChallenge, Holding, Holds
      <3>4. challenges'[x].state = "stored" /\ x # None
        BY <1>1, UserAssumption DEF UserTypeOK
      <3>5. QED
        BY <1>2, <3>1, <3>2, <3>3, <3>4 DEF Holds, WinsNothing, Rotates, Verifies, LogoutDone
    <2>3. QED
      BY <1>1, <2>1, <2>2 DEF Proceed
  <1>5. UserTypeOK'
    <2>1. call[c].user \in Users \cup {None}
      BY DEF UserTypeOK, CallRecord
    <2>2. faults' \in 0 .. MaxFaults
      BY <1>1, FaultType DEF Proceed
    <2>3. QED
      BY <1>1, <1>2, <1>4, <2>1, <2>2 DEF UserTypeOK, Moves
  <1>6. RotationFades
    BY <1>2, <1>4 DEF RotationFades, WinsNothing, Moves, Rotates
  <1>7. \A d \in Callers, y \in Challenges : Verifies(d, y)' => Verifies(d, y)
    BY <1>4 DEF WinsNothing, Moves, Verifies
  <1>8. /\ challenges'[x].state = "stored"
        /\ \A y \in Challenges \ {x} : challenges'[y] = challenges[y]
    BY <1>1 DEF UserTypeOK
  <1>9. ChallengesSpent'
    BY <1>1, <1>2, <1>3, <1>7, <1>8
       DEF ChallengesSpent, ChallengeSpent, RowsStay, UserTypeOK
  <1>10. TokensSpent' /\ SessionOwner'
    BY <1>2, <1>3, <1>6, SpentStays, OwnersStay
  <1>11. Delivered'
    BY <1>2, <1>3 DEF Delivered, RowsStay, UserTypeOK
  <1>12. UserInv'
    BY <1>3, <1>4, <1>5, <1>9, <1>10, <1>11, Assemble
  <1>13. Verification!Issue(x)
    <2>1. ChallengePhase(x) = "unknown" /\ ChallengePhase(x)' = "open"
      BY <1>1, <1>8 DEF ChallengePhase
    <2>2. ASSUME NEW y \in Challenges \ {x} PROVE ChallengePhase(y)' = ChallengePhase(y)
      <3>1. challenges'[y] = challenges[y] /\ verified'[y] = verified[y]
        BY <1>2, <1>8
      <3>2. \A d \in Callers : Verifies(d, y)' <=> Verifies(d, y)
        BY <1>4, <1>7 DEF Verifies, Moves, SaveChallenge
      <3>3. QED
        BY <3>1, <3>2 DEF ChallengePhase
    <2>3. QED
      BY <1>2, <2>1, <2>2 DEF Verification!Issue, Verification!Move
  <1>14. QED
    BY <1>5, <1>6, <1>12, <1>13, FadingSteps DEF VerificationStep, Verification!Next

\* VerifyOTP removes the key: whoever has removed it has won.
LEMMA DeleteChallengeStep ==
  ASSUME UserInv, NEW c \in Callers, DeleteChallenge(c)
  PROVE  UserInv' /\ RotationStep /\ VerificationStep
  <1> USE DEF UserInv
  <1>1. call[c].op = "VerifyOTP" /\ Holds(c) /\ call[c].at = "delchal"
    BY DEF DeleteChallenge, Holding, Holds
  <1>2. PICK x \in Challenges : /\ x = call[c].chal
                               /\ challenges[x].state # "free" /\ call[c].user = challenges[x].user
    BY <1>1 DEF Holds, UserTypeOK, CallRecord
  <1>3. CASE ~Deleted(x) /\ Fail(c, "InvalidInput") /\ UNCHANGED <<challenges, faults>>
    <2>1. TablesType /\ Delivered'
      BY <1>3, TablesUntouched DEF DeleteChallenge, tables
    <2>2. Quiet(c)
      BY <1>3, <2>1, QuietFail DEF DeleteChallenge
    <2>3. QED
      BY <2>2, QuietStep
  <1>4. CASE /\ Deleted(x)
             /\ challenges' = [challenges EXCEPT ![x].state = "gone"]
             /\ Proceed(c, [call[c] EXCEPT !.at = "getuser"])
    <2>1. UNCHANGED <<users, tokens, outbox, rotated, verified>>
      BY DEF DeleteChallenge
    <2>2. /\ challenges'[x].state = "gone" /\ challenges'[x].user = challenges[x].user
          /\ \A y \in Challenges \ {x} : challenges'[y] = challenges[y]
          /\ challenges[x].state = "stored"
      BY <1>2, <1>4 DEF UserTypeOK, Deleted
    <2>3. RowsStay
      BY <1>2, <2>1, <2>2 DEF RowsStay
    <2>4. Delivered'
      BY <2>1, <2>3 DEF Delivered, RowsStay, UserTypeOK
    <2>5. challenges' \in [Challenges -> [state : {"free", "stored", "gone"}, user : Users \cup {None}]]
      BY <1>2, <1>4 DEF UserTypeOK
    <2>6. faults' \in 0 .. MaxFaults
      BY <1>4, FaultType DEF Proceed
    <2>7. CASE Troubled(c)
      <3>1. Moves(c) /\ Holds(c)' /\ WinsNothing(c) /\ LogoutDone(c)'
        BY <2>3, <2>7, TroubledEnd
      <3>2. RotationFades
        BY <2>1, <3>1 DEF RotationFades, WinsNothing, Moves, Rotates
      <3>3. VerificationFades
        BY <1>2, <2>1, <2>2, <3>1 DEF VerificationFades, WinsNothing, Moves, Verifies
      <3>4. UserTypeOK'
        BY <2>1, <2>5, <2>6, <3>1 DEF UserTypeOK, Moves
      <3>5. TokensSpent' /\ ChallengesSpent' /\ SessionOwner'
        BY <2>1, <2>3, <3>2, <3>3, SpentStays, OwnersStay
      <3>6. UserInv'
        BY <2>3, <2>4, <3>1, <3>4, <3>5, Assemble
      <3>7. QED
        BY <3>2, <3>3, <3>4, <3>6, FadingSteps
    <2>8. CASE call' = [call EXCEPT ![c] = [call[c] EXCEPT !.at = "getuser"]]
      <3>1. /\ Continues(c) /\ call'[c].at = "getuser" /\ call'[c].user = call[c].user
            /\ call'[c].chal = call[c].chal /\ call'[c].new = call[c].new
        BY <2>8, GoesOnAs DEF UserTypeOK, Stages
      <3>2. Moves(c) /\ Holds(c)' /\ LogoutDone(c)'
        BY <1>1, <1>2, <2>1, <2>2, <3>1 DEF Holds, LogoutDone, Continues
      <3>3. \A t \in Tokens, d \in Callers : Rotates(d, t)' <=> Rotates(d, t)
        BY <1>1, <3>1 DEF Rotates, Continues, Moves
      <3>4. \A y \in Challenges, d \in Callers :
               Verifies(d, y)' <=> (Verifies(d, y) \/ (d = c /\ y = x))
        BY <1>1, <1>2, <3>1 DEF Verifies, Continues, Moves
      <3>5. RotationFades
        BY <2>1, <3>3 DEF RotationFades
      <3>6. UserTypeOK'
        BY <2>1, <2>5, <2>6, <3>2 DEF UserTypeOK, Moves
      <3>7. ChallengesSpent'
        BY <1>2, <2>1, <2>2, <3>4 DEF ChallengesSpent, ChallengeSpent
      <3>8. TokensSpent' /\ SessionOwner'
        BY <2>1, <2>3, <3>5, SpentStays, OwnersStay
      <3>9. UserInv'
        BY <2>3, <2>4, <3>2, <3>6, <3>7, <3>8, Assemble
      <3>10. Verification!Win(x)
        <4>1. ChallengePhase(x) = "open"
          BY <2>2 DEF ChallengePhase
        <4>2. ChallengePhase(x)' = "won"
          <5>1. verified'[x] = {}
            BY <1>2, <2>1, <2>2 DEF ChallengesSpent, ChallengeSpent
          <5>2. Verifies(c, x)'
            BY <1>2, <3>4
          <5>3. QED
            BY <2>2, <5>1, <5>2 DEF ChallengePhase
        <4>3. ASSUME NEW y \in Challenges \ {x} PROVE ChallengePhase(y)' = ChallengePhase(y)
          BY <2>1, <2>2, <3>4 DEF ChallengePhase
        <4>4. QED
          BY <1>2, <2>1, <4>1, <4>2, <4>3 DEF Verification!Win, Verification!Move
      <3>11. QED
        BY <1>2, <3>5, <3>6, <3>9, <3>10, FadingSteps DEF VerificationStep, Verification!Next
    <2>9. QED
      BY <1>4, <2>7, <2>8 DEF Proceed
  <1>5. QED
    BY <1>2, <1>3, <1>4 DEF DeleteChallenge

-----------------------------------------------------------------------------
(* Refresh tokens *)

\* Revoke: the UPDATE that changed the row has won it, for RefreshToken.
LEMMA RevokeStep ==
  ASSUME UserInv, NEW c \in Callers, Revoke(c)
  PROVE  UserInv' /\ RotationStep /\ VerificationStep
  <1> USE DEF UserInv
  <1>1. Holds(c) /\ call[c].at = "revoke"
    BY DEF Revoke, Holding
  <1>2. PICK t \in Tokens : t = call[c].tok /\ tokens[t].state # "free"
    BY <1>1 DEF Holds, UserTypeOK, CallRecord
  <1>3. CASE ~Revocable(t) /\ UNCHANGED <<tokens, faults>>
    <2>1. TablesType /\ Delivered' /\ UNCHANGED <<tokens, challenges, rotated, verified>>
      BY <1>3, TablesUntouched DEF Revoke, tables
    <2>2. CASE Fail(c, "NotFound")
      BY <2>1, <2>2, QuietFail, QuietStep
    <2>3. CASE Ok(c)
      <3>1. Answers(c)
        BY <2>3, Ends DEF UserTypeOK
      <3>2. LogoutDone(c)'
        BY <1>2, <1>3, <2>1, <3>1 DEF LogoutDone, Answers, Continues, Revocable
      <3>3. QED
        BY <2>1, <3>1, <3>2, QuietAnswer, QuietStep
    <2>4. QED
      BY <1>2, <1>3, <2>2, <2>3 DEF Revoke
  <1>4. CASE /\ Revocable(t)
             /\ tokens' = [tokens EXCEPT ![t].state = "revoked"]
             /\ Proceed(c, IF call[c].op = "RefreshToken" THEN [call[c] EXCEPT !.at = "getuser"]
                                                         ELSE Answer(call[c], "OK"))
    <2>1. UNCHANGED <<users, challenges, outbox, rotated, verified>>
      BY DEF Revoke
    <2>2. /\ tokens'[t].state = "revoked" /\ tokens'[t].user = tokens[t].user
          /\ \A u \in Tokens \ {t} : tokens'[u] = tokens[u]
          /\ tokens[t].state \in {"live", "expired"}
      BY <1>2, <1>4 DEF UserTypeOK, Revocable, RowState
    <2>3. RowsStay
      BY <1>2, <2>1, <2>2 DEF RowsStay
    <2>4. Delivered'
      BY <2>1 DEF Delivered
    <2>5. tokens' \in [Tokens -> [state : RowState, user : Users \cup {None}]]
      BY <1>2, <1>4 DEF UserTypeOK, RowState
    <2>6. faults' \in 0 .. MaxFaults
      BY <1>4, FaultType DEF Proceed
    <2>7. ASSUME Moves(c), Holds(c)', WinsNothing(c), LogoutDone(c)'
          PROVE  UserInv' /\ RotationStep /\ VerificationStep
      <3>1. RotationFades
        BY <1>2, <2>1, <2>2, <2>7 DEF RotationFades, WinsNothing, Moves, Rotates
      <3>2. VerificationFades
        BY <2>1, <2>7 DEF VerificationFades, WinsNothing, Moves, Verifies
      <3>3. UserTypeOK'
        BY <2>1, <2>5, <2>6, <2>7 DEF UserTypeOK, Moves
      <3>4. TokensSpent' /\ ChallengesSpent' /\ SessionOwner'
        BY <2>1, <2>3, <3>1, <3>2, SpentStays, OwnersStay
      <3>5. UserInv'
        BY <2>3, <2>4, <2>7, <3>3, <3>4, Assemble
      <3>6. QED
        BY <3>1, <3>2, <3>3, <3>5, FadingSteps
    <2>8. CASE Troubled(c)
      BY <2>3, <2>7, <2>8, TroubledEnd
    <2>9. CASE call[c].op # "RefreshToken" /\ call' = [call EXCEPT ![c] = Answer(call[c], "OK")]
      <3>1. Answers(c)
        BY <2>9, AnswerMove DEF UserTypeOK, Codes
      <3>2. Holds(c)'
        BY <2>3, <3>1, HoldsStays DEF Holding
      <3>3. LogoutDone(c)'
        BY <1>2, <2>2, <3>1 DEF LogoutDone, Answers, Continues
      <3>4. QED
        BY <2>7, <3>1, <3>2, <3>3, AnswersWinNothing DEF Answers, Continues
    <2>10. CASE /\ call[c].op = "RefreshToken"
                /\ call' = [call EXCEPT ![c] = [call[c] EXCEPT !.at = "getuser"]]
      <3>1. /\ Continues(c) /\ call'[c].at = "getuser" /\ call'[c].user = call[c].user
            /\ call'[c].chal = call[c].chal /\ call'[c].new = call[c].new
        BY <2>10, GoesOnAs DEF UserTypeOK, Stages
      <3>2. Moves(c) /\ Holds(c)' /\ LogoutDone(c)'
        BY <1>1, <1>2, <2>1, <2>2, <2>3, <2>10, <3>1
           DEF Holds, LogoutDone, Continues, RowsStay, UserTypeOK, CallRecord
      <3>3. \A u \in Tokens, d \in Callers :
               Rotates(d, u)' <=> (Rotates(d, u) \/ (d = c /\ u = t))
        BY <1>1, <1>2, <2>10, <3>1 DEF Rotates, Continues, Moves
      <3>4. \A x \in Challenges, d \in Callers : Verifies(d, x)' <=> Verifies(d, x)
        BY <2>10, <3>1 DEF Verifies, Continues, Moves
      <3>5. VerificationFades
        BY <2>1, <3>4 DEF VerificationFades
      <3>6. UserTypeOK'
        BY <2>1, <2>5, <2>6, <3>2 DEF UserTypeOK, Moves
      <3>7. TokensSpent'
        BY <1>2, <2>1, <2>2, <2>3, <3>3 DEF TokensSpent, TokenSpent, RowsStay, UserTypeOK
      <3>8. ChallengesSpent' /\ SessionOwner'
        BY <2>1, <2>3, <3>5, SpentStays, OwnersStay
      <3>9. UserInv'
        BY <2>3, <2>4, <3>2, <3>6, <3>7, <3>8, Assemble
      <3>10. Rotation!Win(t)
        <4>1. TokenPhase(t) = "open"
          BY <2>2 DEF TokenPhase
        <4>2. TokenPhase(t)' = "won"
          <5>1. rotated'[t] = {}
            BY <1>2, <2>1, <2>2 DEF TokensSpent, TokenSpent
          <5>2. Rotates(c, t)'
            BY <1>2, <3>3
          <5>3. QED
            BY <2>2, <5>1, <5>2 DEF TokenPhase
        <4>3. ASSUME NEW u \in Tokens \ {t} PROVE TokenPhase(u)' = TokenPhase(u)
          BY <2>1, <2>2, <3>3 DEF TokenPhase
        <4>4. QED
          BY <1>2, <2>1, <4>1, <4>2, <4>3 DEF Rotation!Win, Rotation!Move
      <3>11. QED
        BY <1>2, <3>5, <3>6, <3>9, <3>10, FadingSteps DEF RotationStep, Rotation!Next
    <2>11. QED
      BY <1>4, <2>8, <2>9, <2>10 DEF Proceed
  <1>5. QED
    BY <1>2, <1>3, <1>4 DEF Revoke

\* A new session, bought with a refresh token, a one-time password or a
\* password.
LEMMA IssueTokensStep ==
  ASSUME UserInv, NEW c \in Callers, IssueTokens(c)
  PROVE  UserInv' /\ RotationStep /\ VerificationStep
  <1> USE DEF UserInv
  <1>1. PICK s \in Tokens :
            /\ tokens[s].state = "free"
            /\ tokens' = [tokens EXCEPT ![s] = Issued(call[c].user)]
            /\ Proceed(c, [Answer(call[c], "OK") EXCEPT !.new = s])
            /\ rotated' = IF call[c].op = "RefreshToken"
                          THEN [rotated EXCEPT ![call[c].tok] = @ \cup {s}] ELSE rotated
            /\ verified' = IF call[c].op = "VerifyOTP"
                           THEN [verified EXCEPT ![call[c].chal] = @ \cup {s}] ELSE verified
    BY DEF IssueTokens
  <1>2. UNCHANGED <<users, challenges, outbox>>
    BY DEF IssueTokens
  <1>3. /\ tokens'[s].state = "live" /\ tokens'[s].user = call[c].user
        /\ \A u \in Tokens \ {s} : tokens'[u] = tokens[u]
        /\ tokens' \in [Tokens -> [state : RowState, user : Users \cup {None}]]
    <2>1. call[c].user \in Users \cup {None}
      BY DEF UserTypeOK, CallRecord
    <2>2. QED
      BY <1>1, <2>1 DEF UserTypeOK, Issued, RowState
  <1>4. RowsStay /\ Delivered'
    BY <1>1, <1>2, <1>3 DEF RowsStay, Delivered
  <1>5. Holds(c) /\ call[c].at = "issue" /\ call[c].op # "Logout" /\ s # None
    BY <1>1, UserAssumption DEF IssueTokens, Holding, Holds
  <1>6. /\ Moves(c) /\ call'[c].at = "done" /\ call'[c].chal = None
        /\ call'[c].op = call[c].op /\ call'[c].tok = call[c].tok
        /\ call'[c].new \in {call[c].new, s}
    <2>1. CASE Troubled(c)
      BY <2>1, TroubledFacts DEF Answers, Continues
    <2>2. CASE call' = [call EXCEPT ![c] = [Answer(call[c], "OK") EXCEPT !.new = s]]
      <3> DEFINE old == Answer(call[c], "OK")
                 rec == [old EXCEPT !.new = s]
      <3>1. /\ old \in CallRecord /\ old.at = "done" /\ old.chal = None
            /\ old.op = call[c].op /\ old.tok = call[c].tok
        BY AnswerFacts DEF UserTypeOK, Codes
      <3> HIDE DEF old
      <3>2. /\ rec \in CallRecord /\ rec.at = "done" /\ rec.chal = None
            /\ rec.op = call[c].op /\ rec.tok = call[c].tok /\ rec.new = s
        BY <1>1, <3>1 DEF CallRecord
      <3>3. call' = [call EXCEPT ![c] = rec]
        BY <2>2 DEF old
      <3> HIDE DEF rec
      <3>4. Moves(c) /\ call'[c] = rec
        BY <3>2, <3>3, MoveFacts DEF UserTypeOK
      <3>5. QED
        BY <3>2, <3>4
    <2>3. QED
      BY <1>1, <2>1, <2>2 DEF Proceed
  <1>7. Holds(c)' /\ LogoutDone(c)'
    <2>1. call[c].tok \in Tokens \cup {None} /\ call[c].new \in Tokens \cup {None}
      BY DEF UserTypeOK, CallRecord
    <2>2. QED
      BY <1>3, <1>4, <1>5, <1>6, <2>1 DEF Holds, LogoutDone, RowsStay
  <1>8. /\ \A d \in Callers, u \in Tokens : Rotates(d, u)' <=> (Rotates(d, u) /\ d # c)
        /\ \A d \in Callers, x \in Challenges : Verifies(d, x)' <=> (Verifies(d, x) /\ d # c)
    BY <1>6 DEF Rotates, Verifies, Moves
  <1>9. /\ \A u \in Tokens : s \notin rotated[u]
        /\ \A x \in Challenges : s \notin verified[x]
        /\ rotated[s] = {} /\ \A d \in Callers : ~Rotates(d, s)
    BY <1>1 DEF TokensSpent, TokenSpent, ChallengesSpent, ChallengeSpent
  <1>10. faults' \in 0 .. MaxFaults
    BY <1>1, FaultType DEF Proceed
  <1>11. ASSUME rotated' \in [Tokens -> SUBSET Tokens], verified' \in [Challenges -> SUBSET Tokens]
         PROVE  UserTypeOK'
    BY <1>2, <1>3, <1>6, <1>10, <1>11 DEF UserTypeOK, Moves
  <1>12. TokenPhase(s) = "unknown" /\ TokenPhase(s)' = "open"
    BY <1>1, <1>3 DEF TokenPhase
  <1>13. CASE call[c].op = "RefreshToken"
    <2>1. PICK t \in Tokens : /\ t = call[c].tok /\ call[c].user = tokens[t].user
                              /\ tokens[t].state # "free"
      BY <1>5, <1>13 DEF Holds, UserTypeOK, CallRecord
    <2>2. Rotates(c, t)
      BY <1>5, <1>13, <2>1 DEF Rotates
    <2>3. tokens[t].state = "revoked" /\ rotated[t] = {} /\ t # s
      BY <1>1, <2>1, <2>2 DEF TokensSpent, TokenSpent
    <2>4. rotated' = [rotated EXCEPT ![t] = {s}] /\ verified' = verified
      BY <1>1, <1>13, <2>1, <2>3 DEF UserTypeOK
    <2>5. UserTypeOK'
      <3>1. rotated \in [Tokens -> SUBSET Tokens] /\ verified \in [Challenges -> SUBSET Tokens]
        BY DEF UserTypeOK
      <3>2. {s} \in SUBSET Tokens
        BY <1>1
      <3>3. rotated' \in [Tokens -> SUBSET Tokens] /\ verified' \in [Challenges -> SUBSET Tokens]
        BY <2>4, <3>1, <3>2
      <3>4. QED
        BY <1>11, <3>3
    <2>6. VerificationFades
      BY <1>2, <1>8, <2>4 DEF VerificationFades
    <2>7. ChallengesSpent'
      BY <1>4, <2>6, SpentStays
    <2>8. rotated'[t] = {s} /\ \A u \in Tokens \ {t} : rotated'[u] = rotated[u]
      BY <2>1, <2>4 DEF UserTypeOK
    <2>9. TokensSpent'
      <3>1. ASSUME NEW u \in Tokens PROVE TokenSpent(u)'
        <4>1. CASE u = t
          <5>1. \A d \in Callers : ~Rotates(d, t)'
            BY <1>8, <2>1, <2>2 DEF TokensSpent, TokenSpent
          <5>2. QED
            BY <1>3, <2>3, <2>8, <4>1, <5>1 DEF TokenSpent
        <4>2. CASE u # t
          BY <1>1, <1>3, <1>4, <1>8, <1>9, <2>8, <4>2
             DEF TokensSpent, TokenSpent, RowsStay, UserTypeOK
        <4>3. QED
          BY <4>1, <4>2
      <3>2. QED
        BY <3>1 DEF TokensSpent
    <2>10. SessionOwner'
      <3>1. \A u \in Tokens : \A r \in rotated'[u] : tokens'[r].user = tokens'[u].user
        <4>1. ASSUME NEW u \in Tokens \ {t}, NEW r \in rotated'[u]
              PROVE  tokens'[r].user = tokens'[u].user
          <5>1. r \in Tokens \ {s} /\ r \in rotated[u] /\ u # s
            BY <1>9, <2>8, <4>1 DEF UserTypeOK
          <5>2. QED
            BY <1>3, <5>1 DEF SessionOwner
        <4>2. tokens'[s].user = tokens'[t].user
          BY <1>3, <2>1, <2>3
        <4>3. QED
          BY <2>8, <4>1, <4>2
      <3>2. \A x \in Challenges : \A r \in verified'[x] : tokens'[r].user = challenges'[x].user
        BY <1>2, <1>3, <1>9, <2>4 DEF SessionOwner, UserTypeOK
      <3>3. QED
        BY <3>1, <3>2 DEF SessionOwner
    <2>11. UserInv'
      BY <1>4, <1>6, <1>7, <2>5, <2>7, <2>9, <2>10, Assemble
    <2>12. Rotation!Redeem(t, s)
      <3>1. TokenPhase(t) = "won" /\ TokenPhase(t)' = "redeemed"
        BY <1>3, <2>1, <2>2, <2>3, <2>8 DEF TokenPhase
      <3>2. ASSUME NEW u \in Tokens \ {s, t} PROVE TokenPhase(u)' = TokenPhase(u)
        <4>1. tokens'[u] = tokens[u] /\ rotated'[u] = rotated[u]
          BY <1>3, <2>8
        <4>2. ~Rotates(c, u)
          BY <2>1 DEF Rotates
        <4>3. QED
          BY <1>8, <4>1, <4>2 DEF TokenPhase
      <3>3. QED
        BY <1>1, <1>9, <1>12, <2>1, <2>3, <2>4, <3>1, <3>2 DEF Rotation!Redeem
    <2>13. QED
      BY <1>1, <2>1, <2>5, <2>6, <2>11, <2>12, FadingSteps DEF RotationStep, Rotation!Next
  <1>14. ASSUME call[c].op # "RefreshToken" PROVE TokensSpent' /\ RotationStep
    <2>1. rotated' = rotated
      BY <1>1, <1>14
    <2>2. TokensSpent'
      <3>1. ASSUME NEW u \in Tokens PROVE TokenSpent(u)'
        BY <1>1, <1>3, <1>4, <1>8, <1>9, <2>1 DEF TokensSpent, TokenSpent, RowsStay, UserTypeOK
      <3>2. QED
        BY <3>1 DEF TokensSpent
    <2>3. Rotation!Issue(s)
      <3>1. ASSUME NEW u \in Tokens \ {s} PROVE TokenPhase(u)' = TokenPhase(u)
        <4>1. ~Rotates(c, u)
          BY <1>14 DEF Rotates
        <4>2. QED
          BY <1>3, <1>8, <2>1, <4>1 DEF TokenPhase
      <3>2. QED
        BY <1>1, <1>12, <2>1, <3>1 DEF Rotation!Issue, Rotation!Move
    <2>4. QED
      BY <1>1, <2>2, <2>3 DEF RotationStep, Rotation!Next
  <1>15. CASE call[c].op = "VerifyOTP"
    <2>1. PICK x \in Challenges : /\ x = call[c].chal /\ call[c].user = challenges[x].user
                                  /\ challenges[x].state # "free"
      BY <1>5, <1>15 DEF Holds, UserTypeOK, CallRecord
    <2>2. Verifies(c, x)
      BY <1>5, <1>15, <2>1 DEF Verifies
    <2>3. challenges[x].state = "gone" /\ verified[x] = {}
      BY <2>1, <2>2 DEF ChallengesSpent, ChallengeSpent
    <2>4. verified' = [verified EXCEPT ![x] = {s}] /\ rotated' = rotated
      BY <1>1, <1>15, <2>1, <2>3 DEF UserTypeOK
    <2>5. UserTypeOK'
      <3>1. rotated \in [Tokens -> SUBSET Tokens] /\ verified \in [Challenges -> SUBSET Tokens]
        BY DEF UserTypeOK
      <3>2. {s} \in SUBSET Tokens
        BY <1>1
      <3>3. rotated' \in [Tokens -> SUBSET Tokens] /\ verified' \in [Challenges -> SUBSET Tokens]
        BY <2>4, <3>1, <3>2
      <3>4. QED
        BY <1>11, <3>3
    <2>6. verified'[x] = {s} /\ \A y \in Challenges \ {x} : verified'[y] = verified[y]
      BY <2>1, <2>4 DEF UserTypeOK
    <2>7. \A d \in Callers : ~Verifies(d, x)'
      BY <1>8, <2>1, <2>2 DEF ChallengesSpent, ChallengeSpent
    <2>8. ChallengesSpent'
      <3>1. ASSUME NEW y \in Challenges PROVE ChallengeSpent(y)'
        <4>1. CASE y = x
          BY <1>2, <1>3, <2>3, <2>6, <2>7, <4>1 DEF ChallengeSpent
        <4>2. CASE y # x
          BY <1>2, <1>4, <1>8, <1>9, <2>6, <4>2
             DEF ChallengesSpent, ChallengeSpent, RowsStay, UserTypeOK
        <4>3. QED
          BY <4>1, <4>2
      <3>2. QED
        BY <3>1 DEF ChallengesSpent
    <2>9. SessionOwner'
      <3>1. \A u \in Tokens : \A r \in rotated'[u] : tokens'[r].user = tokens'[u].user
        <4>1. ASSUME NEW u \in Tokens, NEW r \in rotated'[u]
              PROVE  tokens'[r].user = tokens'[u].user
          <5>1. r \in Tokens \ {s} /\ r \in rotated[u] /\ u # s
            BY <1>9, <2>4, <4>1 DEF UserTypeOK
          <5>2. QED
            BY <1>3, <5>1 DEF SessionOwner
        <4>2. QED
          BY <4>1
      <3>2. ASSUME NEW y \in Challenges, NEW r \in verified'[y]
            PROVE  tokens'[r].user = challenges'[y].user
        <4>1. CASE y = x
          BY <1>2, <1>3, <2>1, <2>6, <3>2, <4>1
        <4>2. CASE y # x
          BY <1>2, <1>3, <1>9, <2>6, <3>2, <4>2 DEF SessionOwner, UserTypeOK
        <4>3. QED
          BY <4>1, <4>2
      <3>3. QED
        BY <3>1, <3>2 DEF SessionOwner
    <2>10. UserInv'
      BY <1>4, <1>6, <1>7, <1>14, <1>15, <2>5, <2>8, <2>9, Assemble
    <2>11. Verification!Redeem(x, s)
      <3>1. ChallengePhase(x) = "won" /\ ChallengePhase(x)' = "redeemed"
        BY <1>2, <2>1, <2>2, <2>3, <2>6 DEF ChallengePhase
      <3>2. ASSUME NEW y \in Challenges \ {x} PROVE ChallengePhase(y)' = ChallengePhase(y)
        <4>1. ~Verifies(c, y)
          BY <2>1 DEF Verifies
        <4>2. QED
          BY <1>2, <1>8, <2>6, <4>1 DEF ChallengePhase
      <3>3. s \notin Challenges
        BY <1>1, UserAssumption
      <3>4. QED
        BY <1>1, <1>9, <2>1, <2>4, <3>1, <3>2, <3>3 DEF Verification!Redeem
    <2>12. QED
      BY <1>1, <1>14, <1>15, <2>1, <2>10, <2>11 DEF VerificationStep, Verification!Next
  <1>16. CASE call[c].op \notin {"RefreshToken", "VerifyOTP"}
    <2>1. rotated' = rotated /\ verified' = verified
      BY <1>1, <1>16
    <2>2. UserTypeOK'
      BY <1>11, <2>1 DEF UserTypeOK
    <2>3. VerificationFades
      BY <1>2, <1>8, <2>1 DEF VerificationFades
    <2>4. ChallengesSpent' /\ SessionOwner'
      BY <1>4, <2>1, <2>3, SpentStays, OwnersStay
    <2>5. UserInv'
      BY <1>4, <1>6, <1>7, <1>14, <1>16, <2>2, <2>4, Assemble
    <2>6. QED
      BY <1>14, <1>16, <2>2, <2>3, <2>5, FadingSteps
  <1>17. QED
    BY <1>13, <1>15, <1>16

-----------------------------------------------------------------------------
(* Time, crashes and the whole *)

\* A step that moves no handler forward and hands out nothing.
LEMMA LossStep ==
  ASSUME UserInv, UserTypeOK', RowsStay, UNCHANGED <<outbox, rotated, verified>>,
         RotationFades, VerificationFades, Holding', LogoutRevokes'
  PROVE  UserInv' /\ RotationStep /\ VerificationStep
  <1>1. TokensSpent' /\ ChallengesSpent' /\ SessionOwner'
    BY SpentStays, OwnersStay DEF UserInv
  <1>2. Delivered'
    BY DEF UserInv, UserTypeOK, Delivered, RowsStay
  <1>3. QED
    BY <1>1, <1>2, FadingSteps DEF UserInv

\* The handlers stand still and keep what they hold.
LEMMA StandStill ==
  ASSUME UserInv, RowsStay, UNCHANGED call
  PROVE  Holding' /\ LogoutRevokes'
  <1>1. Holding'
    BY HoldsStays DEF UserInv, Holding
  <1>2. LogoutRevokes'
    BY DEF UserInv, LogoutRevokes, RowsStay, UserTypeOK, CallRecord
  <1>3. QED
    BY <1>1, <1>2

\* A one-time password expires.
LEMMA ChallengeExpiresStep ==
  ASSUME UserInv, NEW x \in Challenges, ChallengeExpires(x)
  PROVE  UserInv' /\ RotationStep /\ VerificationStep
  <1> USE DEF UserInv
  <1>1. /\ UNCHANGED <<users, tokens, outbox, call, faults, rotated, verified>>
        /\ challenges[x].state = "stored"
        /\ challenges' = [challenges EXCEPT ![x].state = "gone"]
    BY DEF ChallengeExpires
  <1>2. /\ challenges'[x].state = "gone" /\ challenges'[x].user = challenges[x].user
        /\ \A y \in Challenges \ {x} : challenges'[y] = challenges[y]
    BY <1>1 DEF UserTypeOK
  <1>3. RowsStay /\ RotationFades /\ VerificationFades
    BY <1>1, <1>2 DEF RowsStay, RotationFades, VerificationFades, Rotates, Verifies
  <1>4. UserTypeOK'
    BY <1>1 DEF UserTypeOK
  <1>5. QED
    BY <1>1, <1>3, <1>4, StandStill, LossStep

\* A refresh token expires.
LEMMA TokenExpiresStep ==
  ASSUME UserInv, NEW t \in Tokens, TokenExpires(t)
  PROVE  UserInv' /\ RotationStep /\ VerificationStep
  <1> USE DEF UserInv
  <1>1. /\ UNCHANGED <<users, challenges, outbox, call, faults, rotated, verified>>
        /\ tokens[t].state = "live"
        /\ tokens' = [tokens EXCEPT ![t].state = "expired"]
    BY DEF TokenExpires
  <1>2. /\ tokens'[t].state = "expired" /\ tokens'[t].user = tokens[t].user
        /\ \A u \in Tokens \ {t} : tokens'[u] = tokens[u]
    BY <1>1 DEF UserTypeOK
  <1>3. RowsStay /\ RotationFades /\ VerificationFades
    BY <1>1, <1>2 DEF RowsStay, RotationFades, VerificationFades, Rotates, Verifies
  <1>4. UserTypeOK'
    BY <1>1 DEF UserTypeOK, RowState
  <1>5. QED
    BY <1>1, <1>3, <1>4, StandStill, LossStep

\* A crash ends the handlers that are under way.
LEMMA CrashFacts ==
  ASSUME UserInv, Crash, NEW c \in Callers
  PROVE  /\ call'[c] \in CallRecord
         /\ call'[c].op = call[c].op /\ call'[c].tok = call[c].tok /\ call'[c].new = call[c].new
         /\ \/ call'[c] = call[c]
            \/ call'[c].at = "done" /\ call'[c].chal = None /\ call'[c].code = "Unavailable"
  <1>1. call'[c] = IF Running(c) THEN Answer(call[c], "Unavailable") ELSE call[c]
    BY DEF Crash
  <1>2. call[c] \in CallRecord /\ "Unavailable" \in Codes
    BY DEF UserInv, UserTypeOK, Codes
  <1>3. CASE Running(c)
    <2>1. call'[c] = Answer(call[c], "Unavailable")
      BY <1>1, <1>3
    <2>2. QED
      BY <1>2, <2>1, AnswerFacts
  <1>4. CASE ~Running(c)
    BY <1>1, <1>2, <1>4
  <1>5. QED
    BY <1>3, <1>4

\* With the handlers go the credentials they have won.
LEMMA CrashStep ==
  ASSUME UserInv, Crash
  PROVE  UserInv' /\ RotationStep /\ VerificationStep
  <1> USE DEF UserInv
  <1>1. UNCHANGED <<users, tokens, challenges, outbox, rotated, verified>>
    BY DEF Crash, tables
  <1>2. RowsStay
    BY <1>1 DEF RowsStay
  <1>3. RotationFades /\ VerificationFades
    <2>1. \A c \in Callers, t \in Tokens : Rotates(c, t)' => Rotates(c, t)
      BY CrashFacts DEF Rotates
    <2>2. \A c \in Callers, x \in Challenges : Verifies(c, x)' => Verifies(c, x)
      BY CrashFacts DEF Verifies
    <2>3. QED
      BY <1>1, <2>1, <2>2 DEF RotationFades, VerificationFades
  <1>4. UserTypeOK'
    <2>1. call' = [c \in Callers |-> call'[c]] /\ \A c \in Callers : call'[c] \in CallRecord
      BY CrashFacts DEF Crash
    <2>2. call' \in [Callers -> CallRecord]
      BY <2>1
    <2>3. faults' \in 0 .. MaxFaults
      BY FaultType DEF Crash
    <2>4. QED
      BY <1>1, <2>2, <2>3 DEF UserTypeOK
  <1>5. Holding'
    <2>1. ASSUME NEW c \in Callers PROVE Holds(c)'
      <3>1. CASE call'[c] = call[c]
        BY <1>2, <3>1, HoldsStays DEF Holding
      <3>2. CASE call'[c].at = "done" /\ call'[c].chal = None
        BY <1>1, <3>2, CrashFacts DEF Holding, Holds
      <3>3. QED
        BY <3>1, <3>2, CrashFacts
    <2>2. QED
      BY <2>1 DEF Holding
  <1>6. LogoutRevokes'
    BY <1>1, CrashFacts DEF LogoutRevokes
  <1>7. QED
    BY <1>1, <1>2, <1>3, <1>4, <1>5, <1>6, LossStep

\* Every step keeps the invariant, and is a step of OneTime or leaves the
\* credentials alone, under both mappings.
LEMMA UserStep ==
  ASSUME UserInv, [UserNext]_userVars
  PROVE  UserInv' /\ RotationStep /\ VerificationStep
  <1>1. ASSUME NEW c \in Callers, Work(c) PROVE UserInv' /\ RotationStep /\ VerificationStep
    <2>1. CASE SaveChallenge(c)
      BY <2>1, SaveChallengeStep
    <2>2. CASE DeleteChallenge(c)
      BY <2>2, DeleteChallengeStep
    <2>3. CASE Revoke(c)
      BY <2>3, RevokeStep
    <2>4. CASE IssueTokens(c)
      BY <2>4, IssueTokensStep
    <2>5. CASE CreateUser(c) \/ LookUp(c) \/ PublishOTP(c)
      BY <2>5, CreateUserQuiet, LookUpQuiet, PublishOTPQuiet, QuietStep
    <2>6. CASE GetChallenge(c) \/ GetTok(c) \/ GetByID(c) \/ Break(c) \/ Panic(c)
      BY <2>6, GetChallengeQuiet, GetTokQuiet, GetByIDQuiet, BreakQuiet, QuietStep
    <2>7. QED
      BY <1>1, <2>1, <2>2, <2>3, <2>4, <2>5, <2>6 DEF Work
  <1>2. ASSUME NEW c \in Callers, Leave(c) PROVE UserInv' /\ RotationStep /\ VerificationStep
    BY <1>2, LeaveQuiet, QuietStep
  <1>3. ASSUME NEW c \in Callers, NEW t \in Known \cup {None}, NEW v \in Users \cup {None},
               NEW r \in Requests(t, v), Arrive(c, r)
        PROVE  UserInv' /\ RotationStep /\ VerificationStep
    BY <1>3, ArriveQuiet, QuietStep
  <1>4. CASE Elapse
    BY <1>4, ChallengeExpiresStep, TokenExpiresStep DEF Elapse
  <1>5. CASE Crash
    BY <1>5, CrashStep
  <1>6. CASE UNCHANGED userVars
    <2>1. UNCHANGED <<users, tokens, challenges, outbox, call, faults, rotated, verified>>
      BY <1>6 DEF userVars
    <2>2. RowsStay /\ RotationFades /\ VerificationFades
      BY <2>1 DEF RowsStay, RotationFades, VerificationFades, Rotates, Verifies
    <2>3. UserTypeOK'
      BY <2>1 DEF UserInv, UserTypeOK
    <2>4. QED
      BY <2>1, <2>2, <2>3, StandStill, LossStep
  <1>7. QED
    BY <1>1, <1>2, <1>3, <1>4, <1>5, <1>6 DEF UserNext

\* The inductive invariant holds in every reachable state.
THEOREM UserInvariance == UserSpec => []UserInv
  <1>1. UserInv /\ [UserNext]_userVars => UserInv'
    BY UserStep
  <1>2. QED
    BY <1>1, UserInitInv, PTL DEF UserSpec

\* The tables, the handlers and the history keep their types.
THEOREM UserTypeCorrect == UserSpec => []UserTypeOK
  <1>1. UserInv => UserTypeOK
    BY DEF UserInv
  <1>2. QED
    BY <1>1, UserInvariance, PTL

\* A session belongs to the user whose refresh token or one-time password paid
\* for it: RefreshToken and VerifyOTP carry the account they read before they
\* spend the credential, and it is still the credential's.
THEOREM SessionsAreOwned == UserSpec => []SessionOwner
  <1>1. UserInv => SessionOwner
    BY DEF UserInv
  <1>2. QED
    BY <1>1, UserInvariance, PTL

\* A Logout that answered OK has left its token revoked, or has ignored an
\* error of its own Revoke.
THEOREM LogoutIsFinal == UserSpec => []LogoutRevokes
  <1>1. UserInv => LogoutRevokes
    BY DEF UserInv
  <1>2. QED
    BY <1>1, UserInvariance, PTL

\* No credential has been handed out at the start.
LEMMA OneTimeInit == UserInit => Rotation!Init /\ Verification!Init
  BY DEF UserInit, Rotation!Init, Verification!Init, TokenPhase, ChallengePhase

\* Refresh tokens implement OneTime: each leads to one session at most.
THEOREM RefreshTokensAreOneTime == UserSpec => RotatesOnce
  <1>1. UserInv /\ [UserNext]_userVars => RotationStep
    BY UserStep
  <1>2. QED
    BY <1>1, UserInvariance, OneTimeInit, PTL DEF UserSpec, RotatesOnce, Rotation!Spec, RotationStep

\* One-time passwords implement OneTime: each leads to one session at most.
THEOREM PasswordsAreOneTime == UserSpec => VerifiesOnce
  <1>1. UserInv /\ [UserNext]_userVars => VerificationStep
    BY UserStep
  <1>2. QED
    BY <1>1, UserInvariance, OneTimeInit, PTL
       DEF UserSpec, VerifiesOnce, Verification!Spec, VerificationStep

=============================================================================
