------------------------------ MODULE Sessions ------------------------------
(***************************************************************************)
(* Signing in and what ends it (internal/auth/handlers.go, auth.go, and    *)
(* ChangePassword, UpdateMe and DeleteAccount of internal/users): rows of  *)
(* users, sessions, reset tokens and the link to a Google account, and the *)
(* users whose access tokens the process refuses.                          *)
(*                                                                         *)
(* A statement is an action, except where its wait for a row is a state    *)
(* others can see: RotateSession holds the old row before it has inserted  *)
(* the new one, and a statement over all sessions of a user has found its  *)
(* rows before it has them.  What a transaction wrote counts when it       *)
(* commits; its locks are read off the requests.                           *)
(***************************************************************************)
EXTENDS Integers, FiniteSets, FiniteSetsExt

CONSTANTS User, First,   \* the user who is there at the start
          Email, Mine,   \* addresses; hers, also of her Google account
          Session,       \* 1..n, taken in turn
          Token,         \* password reset tokens
          Request,       \* 1..n, each is one request
          Null

VARIABLES user, session, link, reset, denied, req

vars == <<user, session, link, reset, denied, req>>

NoUser == [here |-> FALSE, email |-> Null, password |-> FALSE, verified |-> FALSE, mailed |-> FALSE,
           anonymous |-> FALSE, era |-> 0, revived |-> FALSE]
NoSession == [state |-> "none", user |-> Null, root |-> Null, era |-> 0, raced |-> FALSE]
NoLink == [user |-> Null, raced |-> FALSE]
NoToken == [state |-> "none", user |-> Null]
Idle == [kind |-> Null, pc |-> "idle", user |-> Null, row |-> Null, era |-> 0, found |-> {}, drops |-> {}]
Done == [Idle EXCEPT !.pc = "done"]

\* Requests are numbered as they come.
Unused(r) == req[r].pc = "idle" /\ (\A q \in Request : q < r => req[q].pc # "idle")
Begin(r, kind, pc, u, row) ==
    /\ Unused(r)
    /\ req' = [req EXCEPT ![r] = [@ EXCEPT !.kind = kind, !.pc = pc, !.user = u, !.row = row]]
At(r, kind, pc) == req[r].kind = kind /\ req[r].pc = pc
Goto(r, pc) == req' = [req EXCEPT ![r].pc = pc]
End(r) == req' = [req EXCEPT ![r] = Done]

WithEmail(e) == {u \in User : user[u].here /\ user[u].email = e}
Alive(u) == {s \in Session : session[s].user = u /\ session[s].state = "live"}

-----------------------------------------------------------------------------
(* Row locks.                                                              *)

\* FOR UPDATE, which foreign keys wait for too
Linking(u) == {q \in Request : At(q, "google", "linking") /\ req[q].user = u}
HoldsUser(u) == Linking(u) \cup {q \in Request : req[q].kind = "reset" /\ req[q].user = u
                                                  /\ req[q].pc \in {"marking", "marked", "revoking"}}
HoldsSession(s) == {q \in Request : (req[q].pc = "rotating" /\ req[q].row = s)
                                     \/ (At(q, "delete", "erased") /\ s \in req[q].found)}
HoldsDrop(x) == {q \in Request : x \in req[q].drops}

\* The requests whose locks r waits for.
WaitsFor(r) ==
    LET q == req[r]
    IN  CASE q.kind = "reset" /\ q.pc = "reset" -> HoldsUser(q.user)
          [] q.kind = "reset" /\ q.pc = "marking" -> HoldsDrop(q.row)
          [] q.pc \in {"revoking", "erasing"} -> UNION {HoldsSession(s) : s \in q.found}
          [] At(r, "delete", "erased") -> HoldsUser(q.user)
          [] OTHER -> {}

\* A statement over all of u's sessions has found its rows and not them that come now.
Revoking(u) == {q \in Request : req[q].user = u /\ req[q].pc \in {"revoking", "erasing", "erased"}} # {}

-----------------------------------------------------------------------------
(* Signing in.                                                             *)

NewSession(u, root, era, raced) ==
    [state |-> "live", user |-> u, root |-> root, era |-> era,
     raced |-> raced \/ era # user[u].era \/ Revoking(u)]

Free == {s \in Session : session[s].state = "none"}

GetUserByEmailForLogin(r, e) ==
    \E u \in WithEmail(e) :
        /\ user[u].password /\ user[u].verified
        /\ Unused(r)
        /\ req' = [req EXCEPT ![r] = [Idle EXCEPT !.kind = "login", !.pc = "write", !.user = u, !.era = user[u].era]]
        /\ UNCHANGED <<user, session, link, reset, denied>>

\* The session is inserted after what was checked, in a statement of its own.
WriteSession(r) ==
    /\ req[r].pc = "write" /\ Linking(req[r].user) = {}
    /\ Free # {}
    /\ session' = [session EXCEPT ![Min(Free)] = NewSession(req[r].user, Min(Free), req[r].era, FALSE)]
    /\ End(r)
    /\ UNCHANGED <<user, link, reset, denied>>

SignedIn(r, u) == req' = [req EXCEPT ![r] = [Idle EXCEPT !.kind = "google", !.pc = "write", !.user = u, !.era = user[u].era]]

GetOAuthIdentityForUpdate(r) ==
    /\ Unused(r) /\ HoldsDrop("link") = {}
    /\ IF link # NoLink /\ ~user[link.user].anonymous
         THEN HoldsUser(link.user) = {} /\ SignedIn(r, link.user)
         ELSE Begin(r, "google", "linkless", Null, Null)
    /\ UNCHANGED <<user, session, link, reset, denied>>

GetUserByEmailForUpdate(r) ==
    /\ At(r, "google", "linkless")
    /\ IF WithEmail(Mine) = {} THEN Goto(r, "unknown")
       ELSE \E u \in WithEmail(Mine) :
              /\ HoldsUser(u) = {}
              /\ req' = [req EXCEPT ![r].pc = "linking", ![r].user = u]
    /\ UNCHANGED <<user, session, link, reset, denied>>

\* The unique index on the addresses waits for a row that is being inserted.
Claimed(e) == e = Mine /\ {q \in Request : At(q, "google", "linking") /\ ~user[req[q].user].here} # {}
Unclaimed(e) == WithEmail(e) = {} /\ ~Claimed(e)

\* An address taken meanwhile fails the request.

CreateOAuthUser(r) ==
    /\ At(r, "google", "unknown")
    /\ \/ WithEmail(Mine) # {} /\ End(r)
       \/ /\ Unclaimed(Mine)
          /\ \E u \in User : ~user[u].here /\ req' = [req EXCEPT ![r].pc = "linking", ![r].user = u]
    /\ UNCHANGED <<user, session, link, reset, denied>>

\* A deletion has found no link and will not see the one that comes now.
Unlinked(u) == {q \in Request : req[q].user = u /\ req[q].pc \in {"unlinked", "erasing", "erased"}}

\* A link made meanwhile fails the request.
CreateOAuthIdentity(r) ==
    /\ At(r, "google", "linking") /\ HoldsDrop("link") = {}
    /\ LET u == req[r].user
       IN  IF link # NoLink THEN End(r) /\ UNCHANGED <<user, link>>
           ELSE /\ link' = [user |-> u, raced |-> Unlinked(u) # {}]
                /\ user' = IF user[u].here THEN [user EXCEPT ![u].verified = TRUE]
                           ELSE [user EXCEPT ![u] = [NoUser EXCEPT !.here = TRUE, !.email = Mine, !.verified = TRUE]]
                /\ SignedIn(r, u)
    /\ UNCHANGED <<session, reset, denied>>

-----------------------------------------------------------------------------
(* Refresh and logout.                                                     *)

Refresh(r, s) ==
    /\ session[s].state = "live" /\ Begin(r, "refresh", "refresh", session[s].user, s)
    /\ UNCHANGED <<user, session, link, reset, denied>>

\* Broken: what the row says after the wait is not looked at.
StillThere(s) == session[s].state # "deleted"

StillLive(s) == session[s].state = "live"

FindRotated(r) ==
    /\ At(r, "refresh", "refresh") /\ HoldsSession(req[r].row) = {}
    /\ IF StillLive(req[r].row) THEN Goto(r, "rotating") ELSE End(r)
    /\ UNCHANGED <<user, session, link, reset, denied>>

RotateSession(r) ==
    /\ req[r].pc = "rotating" /\ Linking(req[r].user) = {} /\ Free # {}
    /\ LET old == session[req[r].row]
       IN  session' = [session EXCEPT ![req[r].row].state = "revoked",
                                      ![Min(Free)] = NewSession(old.user, old.root, old.era, old.raced)]
    /\ End(r)
    /\ UNCHANGED <<user, link, reset, denied>>

\* Logout by the refresh token, or one session by its id.
RevokeSession(r, s) ==
    /\ Unused(r) /\ session[s].state = "live" /\ HoldsSession(s) = {}
    /\ session' = [session EXCEPT ![s].state = "revoked"]
    /\ End(r)
    /\ UNCHANGED <<user, link, reset, denied>>

\* The middleware lets whoever had a session pass, until the process refuses him.
Authenticated(u) == u \notin denied /\ (\E s \in Session : session[s].user = u)

RevokeAllSessions(r, u) ==
    /\ Authenticated(u) /\ Begin(r, "logout", "revoke", u, Null)
    /\ UNCHANGED <<user, session, link, reset, denied>>

\* Every RevokeAllUserSessions finds its rows first.
FindSessions(r) ==
    /\ req[r].pc = "revoke"
    /\ req' = [req EXCEPT ![r].pc = "revoking", ![r].found = Alive(req[r].user)]
    /\ UNCHANGED <<user, session, link, reset, denied>>

Revoked(S) == [s \in Session |-> IF s \in S /\ session[s].state = "live" THEN [session[s] EXCEPT !.state = "revoked"]
                                 ELSE session[s]]

RevokeAllUserSessions(r) ==
    /\ req[r].pc = "revoking" /\ req[r].kind # "reset" /\ WaitsFor(r) = {}
    /\ session' = Revoked(req[r].found)
    /\ End(r)
    /\ UNCHANGED <<user, link, reset, denied>>

-----------------------------------------------------------------------------
(* Passwords and addresses.                                                *)

ForgotPassword(r, t, e) ==
    /\ reset[t].state = "none"
    /\ \E u \in WithEmail(e) : Begin(r, "forgot", "forgot", u, t)
    /\ UNCHANGED <<user, session, link, reset, denied>>

CreatePasswordResetToken(r) ==
    /\ At(r, "forgot", "forgot") /\ Linking(req[r].user) = {}
    /\ reset' = [reset EXCEPT ![req[r].row] = [state |-> "unused", user |-> req[r].user]]
    /\ End(r)
    /\ UNCHANGED <<user, session, link, denied>>

GetPasswordResetTokenUser(r, t) ==
    /\ reset[t].state = "unused" /\ Begin(r, "reset", "reset", reset[t].user, t)
    /\ UNCHANGED <<user, session, link, reset, denied>>

UpdateUserPassword(r) ==
    /\ At(r, "reset", "reset") /\ WaitsFor(r) = {}
    /\ Goto(r, "marking")
    /\ UNCHANGED <<user, session, link, reset, denied>>

MarkPasswordResetUsed(r) ==
    /\ At(r, "reset", "marking") /\ WaitsFor(r) = {}
    /\ Goto(r, "marked")
    /\ UNCHANGED <<user, session, link, reset, denied>>

NewPassword(u) == [user EXCEPT ![u].password = TRUE, ![u].era = @ + 1]

\* The snapshot of the transaction's third statement.
ResetRevokes(r) ==
    /\ At(r, "reset", "marked")
    /\ req' = [req EXCEPT ![r].pc = "revoking", ![r].found = Alive(req[r].user)]
    /\ UNCHANGED <<user, session, link, reset, denied>>

ResetPassword(r) ==
    /\ At(r, "reset", "revoking") /\ WaitsFor(r) = {}
    /\ user' = NewPassword(req[r].user)
    /\ session' = Revoked(req[r].found)
    /\ reset' = [reset EXCEPT ![req[r].row].state = IF @ = "unused" THEN "used" ELSE @]
    /\ End(r)
    /\ UNCHANGED <<link, denied>>

\* A user without a password needs none; a deleted one has one that nothing matches.
ChangePassword(r, u) ==
    /\ Authenticated(u) /\ ~(user[u].anonymous /\ ~user[u].password) /\ Begin(r, "change", "change", u, Null)
    /\ UNCHANGED <<user, session, link, reset, denied>>

\* Broken: the sessions are revoked before the password is another.
RevokeFirst(r) ==
    \/ /\ At(r, "change", "change")
       /\ session' = Revoked(Alive(req[r].user)) /\ Goto(r, "revoked") /\ UNCHANGED user
    \/ /\ At(r, "change", "revoked") /\ HoldsUser(req[r].user) = {}
       /\ user' = NewPassword(req[r].user) /\ End(r) /\ UNCHANGED session

\* No transaction: the password, then the sessions.
UpdateUserPasswordHash(r) ==
    /\ At(r, "change", "change") /\ HoldsUser(req[r].user) = {}
    /\ user' = NewPassword(req[r].user)
    /\ Goto(r, "revoke") /\ UNCHANGED session

SetHash(r) == UpdateUserPasswordHash(r) /\ UNCHANGED <<link, reset, denied>>

UpdateMe(r, u, e) ==
    /\ Authenticated(u) /\ Begin(r, "edit", "edit", u, e)
    /\ UNCHANGED <<user, session, link, reset, denied>>

\* The address of whoever the row is now.
UpdateUserEmail(r) ==
    /\ At(r, "edit", "edit") /\ HoldsUser(req[r].user) = {} /\ ~Claimed(req[r].row)
    /\ LET u == req[r].user
       IN  user' = IF WithEmail(req[r].row) \ {u} # {} THEN user
                   ELSE [user EXCEPT ![u].email = req[r].row, ![u].revived = user[u].anonymous]
    /\ End(r)
    /\ UNCHANGED <<session, link, reset, denied>>

CreateUser(r, e) ==
    /\ Unused(r) /\ Unclaimed(e)
    /\ \E u \in User :
        /\ ~user[u].here /\ Linking(u) = {}
        /\ user' = [user EXCEPT ![u] = [NoUser EXCEPT !.here = TRUE, !.email = e, !.password = TRUE]]
        /\ req' = [req EXCEPT ![r] = [Idle EXCEPT !.kind = "register", !.pc = "mail", !.user = u]]
    /\ UNCHANGED <<session, link, reset, denied>>

ResendVerification(r, e) ==
    /\ \E u \in WithEmail(e) : ~user[u].verified /\ Begin(r, "register", "mail", u, Null)
    /\ UNCHANGED <<user, session, link, reset, denied>>

CreateEmailVerificationToken(r) ==
    /\ At(r, "register", "mail") /\ Linking(req[r].user) = {}
    /\ user' = [user EXCEPT ![req[r].user].mailed = TRUE]
    /\ End(r)
    /\ UNCHANGED <<session, link, reset, denied>>

GetEmailVerificationTokenUser(r, u) ==
    /\ user[u].mailed /\ Begin(r, "verify", "verify", u, Null)
    /\ UNCHANGED <<user, session, link, reset, denied>>

VerifyEmail(r) ==
    /\ At(r, "verify", "verify") /\ HoldsUser(req[r].user) = {}
    /\ user' = [user EXCEPT ![req[r].user].verified = TRUE, ![req[r].user].mailed = FALSE]
    /\ End(r)
    /\ UNCHANGED <<session, link, reset, denied>>

-----------------------------------------------------------------------------
(* The deletion of the user.                                               *)

DeleteAccount(r, u) ==
    /\ Authenticated(u) /\ Begin(r, "delete", "delete", u, Null)
    /\ UNCHANGED <<user, session, link, reset, denied>>

\* Broken: the Google account stays linked.
TokensOnly(u) == {t \in Token : reset[t].state = "unused" /\ reset[t].user = u}

Dropped(u) ==
    {t \in Token : reset[t].state = "unused" /\ reset[t].user = u} \cup (IF link.user = u THEN {"link"} ELSE {})

\* The links and the tokens, two statements in the code.
DeleteUserOAuthIdentities(r) ==
    /\ At(r, "delete", "delete")
    /\ (link.user = req[r].user => HoldsDrop("link") = {})
    /\ req' = [req EXCEPT ![r].pc = "unlinked", ![r].drops = Dropped(req[r].user)]
    /\ UNCHANGED <<user, session, link, reset, denied>>

FindUserSessions(r) ==
    /\ At(r, "delete", "unlinked")
    /\ req' = [req EXCEPT ![r].pc = "erasing",
                          ![r].found = {s \in Session : session[s].user = req[r].user /\ session[s].state # "deleted"}]
    /\ UNCHANGED <<user, session, link, reset, denied>>

DeleteUserSessions(r) ==
    /\ req[r].pc = "erasing" /\ WaitsFor(r) = {}
    /\ Goto(r, "erased")
    /\ UNCHANGED <<user, session, link, reset, denied>>

\* Broken: the address stays with the row.
KeepsAddress(u) == [user[u] EXCEPT !.password = FALSE, !.verified = FALSE, !.mailed = FALSE,
                                   !.anonymous = TRUE, !.era = @ + 1, !.revived = FALSE]

\* An address of its own that is nobody's.
SoftDeleteUser(u) == [user[u] EXCEPT !.email = u, !.password = FALSE, !.verified = FALSE, !.mailed = FALSE,
                                     !.anonymous = TRUE, !.era = @ + 1, !.revived = FALSE]

CommitDeletion(r) ==
    /\ At(r, "delete", "erased") /\ WaitsFor(r) = {}
    /\ LET u == req[r].user
       IN  /\ user' = [user EXCEPT ![u] = SoftDeleteUser(u)]
           /\ session' = [s \in Session |-> IF s \in req[r].found THEN [session[s] EXCEPT !.state = "deleted"] ELSE session[s]]
           /\ link' = IF "link" \in req[r].drops THEN NoLink ELSE link
           /\ reset' = [t \in Token |-> IF t \in req[r].drops THEN [NoToken EXCEPT !.state = "deleted"] ELSE reset[t]]
    /\ req' = [req EXCEPT ![r] = [Idle EXCEPT !.kind = "delete", !.pc = "deny", !.user = req[r].user]]
    /\ UNCHANGED denied

DenyUser(r) ==
    /\ At(r, "delete", "deny")
    /\ denied' = denied \cup {req[r].user}
    /\ End(r)
    /\ UNCHANGED <<user, session, link, reset>>

-----------------------------------------------------------------------------
(* Failures.                                                               *)

\* What a request that ends between the password and the sessions leaves behind.
Spared(S) ==
    LET left == UNION {Alive(req[r].user) : r \in {q \in S : req[q].kind = "change" /\ req[q].pc \in {"revoke", "revoking"}}}
    IN  [s \in Session |-> IF s \in left THEN [session[s] EXCEPT !.raced = TRUE] ELSE session[s]]

\* The client is gone, a statement fails, or PostgreSQL ends one of two that wait for each other.
Fail(r) ==
    /\ req[r].pc \notin {"idle", "done", "deny"}
    /\ session' = Spared({r})
    /\ End(r)
    /\ UNCHANGED <<user, link, reset, denied>>

\* The process forgets whom it refuses.
Restart ==
    /\ denied # {}
    /\ denied' = {}
    /\ session' = Spared(Request)
    /\ req' = [r \in Request |-> IF req[r].pc = "idle" THEN Idle ELSE Done]
    /\ UNCHANGED <<user, link, reset>>

Init ==
    /\ user = [u \in User |-> IF u = First
                 THEN [NoUser EXCEPT !.here = TRUE, !.email = Mine, !.password = TRUE, !.verified = TRUE] ELSE NoUser]
    /\ session = [s \in Session |-> IF s = 1 THEN [NoSession EXCEPT !.state = "live", !.user = First, !.root = 1] ELSE NoSession]
    /\ link \in {NoLink, [NoLink EXCEPT !.user = First]}
    /\ reset \in [Token -> {NoToken, [state |-> "unused", user |-> First]}]
    /\ denied = {}
    /\ req = [r \in Request |-> Idle]

SignIn(r) ==
    \/ \E e \in Email : GetUserByEmailForLogin(r, e)
    \/ WriteSession(r) \/ GetOAuthIdentityForUpdate(r) \/ GetUserByEmailForUpdate(r)
    \/ CreateOAuthUser(r) \/ CreateOAuthIdentity(r)
    \/ \E s \in Session : Refresh(r, s)
    \/ FindRotated(r) \/ RotateSession(r)

Password(r) ==
    \/ \E t \in Token : GetPasswordResetTokenUser(r, t) \/ (\E e \in Email : ForgotPassword(r, t, e))
    \/ CreatePasswordResetToken(r) \/ UpdateUserPassword(r) \/ MarkPasswordResetUsed(r)
    \/ ResetRevokes(r) \/ ResetPassword(r) \/ SetHash(r)

SignOut(r) ==
    \/ \E s \in Session : RevokeSession(r, s)
    \/ FindSessions(r) \/ RevokeAllUserSessions(r)
    \/ DeleteUserOAuthIdentities(r) \/ FindUserSessions(r) \/ DeleteUserSessions(r)
    \/ CommitDeletion(r) \/ DenyUser(r)

Profile(r) ==
    \/ \E e \in Email : CreateUser(r, e) \/ ResendVerification(r, e)
    \/ \E u \in User : GetEmailVerificationTokenUser(r, u) \/ RevokeAllSessions(r, u) \/ ChangePassword(r, u)
                       \/ DeleteAccount(r, u) \/ (\E e \in Email : UpdateMe(r, u, e))
    \/ CreateEmailVerificationToken(r) \/ VerifyEmail(r) \/ UpdateUserEmail(r)

Next == Restart \/ \E r \in Request : SignIn(r) \/ Password(r) \/ SignOut(r) \/ Profile(r) \/ Fail(r)

Spec == Init /\ [][Next]_vars

-----------------------------------------------------------------------------
UserRow == [here : BOOLEAN, email : Email \cup User \cup {Null}, password : BOOLEAN, verified : BOOLEAN,
            mailed : BOOLEAN, anonymous : BOOLEAN, era : Nat, revived : BOOLEAN]
SessionRow == [state : {"none", "live", "revoked", "deleted"}, user : User \cup {Null},
               root : Session \cup {Null}, era : Nat, raced : BOOLEAN]
Kinds == {"login", "google", "refresh", "logout", "forgot", "reset", "change", "edit", "register", "verify", "delete"}
Places == {"idle", "done", "write", "linkless", "unknown", "linking", "refresh", "rotating", "revoke", "revoking",
           "forgot", "reset", "marking", "marked", "change", "edit", "mail", "verify", "delete", "unlinked",
           "erasing", "erased", "deny"}
RequestState == [kind : Kinds \cup {Null}, pc : Places, user : User \cup {Null},
                 row : Email \cup Session \cup Token \cup {Null}, era : Nat,
                 found : SUBSET Session, drops : SUBSET (Token \cup {"link"})]

TypeOK ==
    /\ user \in [User -> UserRow] /\ session \in [Session -> SessionRow]
    /\ link \in [user : User \cup {Null}, raced : BOOLEAN]
    /\ reset \in [Token -> [state : {"none", "unused", "used", "deleted"}, user : User \cup {Null}]]
    /\ denied \subseteq User /\ req \in [Request -> RequestState]

\* However often a refresh token is redeemed at once, a sign-in has one live session
\* (auth.sql.go:417-426, handlers.go:295-318).
OneLivePerSignIn ==
    \A s, t \in Session : session[s].state = "live" /\ session[t].state = "live" /\ session[s].root = session[t].root => s = t

\* A password that is set, and a deletion, ends every session signed in before, but for those
\* of a request that was checked before it and inserted after it found the sessions, and those
\* a change left behind that ended in between (handlers.go:413-435, users/handlers.go:262-264).
OldSessionsEnd ==
    \A s \in Session :
        session[s].state = "live" /\ ~session[s].raced /\ session[s].era # user[session[s].user].era =>
            \E r \in Request : req[r].kind = "change" /\ req[r].user = session[s].user /\ req[r].pc \in {"revoke", "revoking"}

\* No Google account stays linked to a deleted user, whom it would not reach and whose link
\* would keep it from any other, but one made while the deletion had passed the links, or by
\* an address the row was given again (account_deletion.sql.go:126-134, delete.go:150).
LinksFollow == link # NoLink /\ user[link.user].anonymous => link.raced \/ user[link.user].revived

\* A deleted user cannot sign in again: a session that begins for his row was checked before
\* the deletion, unless a request that was let in earlier, or after a restart, has given the
\* row an address again (delete.go:108-112).
CannotSignInAgain ==
    [][\A s \in Session :
        session[s].state = "none" /\ session'[s].state = "live" =>
            LET u == session'[s].user IN user[u].anonymous => session'[s].raced \/ user[u].revived]_vars
=============================================================================
