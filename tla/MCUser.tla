------------------------------- MODULE MCUser -------------------------------
(* What a user keeps beside the wallet, in one run: `part` chooses the log of  *)
(* the encrypted copy, its key or the ways to sign in; the others stay as they *)
(* begin.  Without an erase a push asks of the key only whether there is one.  *)
(* One device pulls: what it pulls nobody else reads.                          *)
EXTENDS SyncStore, TLC

CONSTANTS d1, d2, i1, i2, i3, i4, i5, u1, u2, e1, e2, t1

VARIABLES part, user, session, link, reset, denied, signing

authVars == <<user, session, link, reset, denied, signing>>

Auth == INSTANCE Sessions WITH
          User <- {u1, u2}, First <- u1, Email <- {e1, e2}, Mine <- e1, Session <- 1..4, Token <- {t1},
          Request <- 1..3, Null <- Nobody, req <- signing

AllInit ==
    /\ part \in {"log", "key", "signin"}
    /\ Init /\ Auth!Init
    /\ part # "signin" => link = Auth!NoLink /\ reset[t1] = Auth!NoToken

OnLog(A) == part = "log" /\ A /\ UNCHANGED <<part, authVars>>
OnKey(A) == part = "key" /\ A /\ UNCHANGED <<part, authVars>>

AllNext ==
    \/ \E d \in Device : \/ OnLog(PutNewKey(d)) \/ OnLog(StartPush(d)) \/ OnLog(PushStep(d))
                         \/ OnLog(PushFails(d)) \/ OnLog(d = d1 /\ Changes(d))
                         \/ OnKey(GetKey(d)) \/ OnKey(PutNewKey(d)) \/ OnKey(ReplaceKey(d))
    \/ part = "signin" /\ Auth!Next /\ UNCHANGED <<part, vars>>

AllSpec == AllInit /\ [][AllNext]_<<part, vars, authVars>>

\* Sessions: a sign-in has one live session however often its token is redeemed, a new
\* password and a deletion end those before, and no link to a deleted user is left
\* (auth/handlers.go:295-435, users/delete.go:113-171).
SignInsKept == part = "signin" => Auth!TypeOK /\ Auth!OneLivePerSignIn /\ Auth!OldSessionsEnd /\ Auth!LinksFollow

\* Sessions: no request that starts after the deletion signs in the deleted user
\* (users/delete.go:108-112).
CannotSignInAgain == Auth!CannotSignInAgain

Perms == Permutations({i1, i2, i3}) \cup Permutations({i4, i5})
=============================================================================
