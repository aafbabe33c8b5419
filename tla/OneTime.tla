------------------------------- MODULE OneTime -------------------------------
(***************************************************************************)
(* What a credential that may be used once promises.  A credential is      *)
(* handed out, then one user of it wins it, and the winner gets one        *)
(* session at most.  A credential can also go without leading to anything: *)
(* it expires, is withdrawn, or its winner fails.  Nothing comes after.    *)
(*                                                                         *)
(* The user service implements this specification twice: with the one-time *)
(* passwords and with the refresh tokens (UserService).                    *)
(***************************************************************************)
CONSTANTS Items, Sessions

VARIABLES phase,  \* how far each credential has got
          heirs   \* the sessions a credential has led to

vars == <<phase, heirs>>

Phases == {"unknown", "open", "won", "redeemed", "void"}

Init ==
  /\ phase = [i \in Items |-> "unknown"]
  /\ heirs = [i \in Items |-> {}]

Move(i, from, to) ==
  /\ phase[i] = from
  /\ phase' = [phase EXCEPT ![i] = to]

\* The credential is handed out.
Issue(i) == Move(i, "unknown", "open") /\ UNCHANGED heirs

\* One user of it takes it away from all others.
Win(i) == Move(i, "open", "won") /\ UNCHANGED heirs

\* The winner gets a session no other credential has led to; the session can
\* itself be a credential that is handed out with it.
Redeem(i, s) ==
  /\ phase[i] = "won"
  /\ s \in Items => phase[s] = "unknown"
  /\ \A j \in Items : s \notin heirs[j]
  /\ phase' = [j \in Items |-> IF j = i THEN "redeemed" ELSE IF j = s THEN "open" ELSE phase[j]]
  /\ heirs' = [heirs EXCEPT ![i] = {s}]

\* Credentials end without a session; a crash ends several at once.
Void(S) ==
  /\ \A i \in S : phase[i] \in {"open", "won"}
  /\ phase' = [i \in Items |-> IF i \in S THEN "void" ELSE phase[i]]
  /\ UNCHANGED heirs

Next ==
  \/ \E i \in Items :
        \/ Issue(i)
        \/ Win(i)
        \/ \E s \in Sessions : Redeem(i, s)
  \/ \E S \in SUBSET Items : Void(S)

Spec == Init /\ [][Next]_vars

=============================================================================
