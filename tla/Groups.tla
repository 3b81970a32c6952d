-------------------------------- MODULE Groups --------------------------------
(***************************************************************************)
(* One group: its members and their roles, its invites and its deletion    *)
(* (internal/groups/handlers.go, groups.sql.go).  Most handlers read who   *)
(* asks, read what they need and write, each in a statement of its own;    *)
(* deleting the group and accepting an invite are transactions.  Expenses  *)
(* are inserted beside them (internal/expenses).                           *)
(***************************************************************************)
EXTENDS Naturals, FiniteSets

CONSTANTS Users, Founder, Admin,    \* the users, and two members at the start
          Outsider,                 \* invited at the start
          Friends,                  \* pairs of users with an accepted friendship
          Rows,                     \* rows of group_invites there is room for
          Requests,                 \* requests in flight, each served once
          NoRow

VARIABLES group, role, invite, tokens, spent, req, admitted

vars == <<group, role, invite, tokens, spent, req, admitted>>

Roles == {"MEMBER", "ADMIN", "OWNER"}

Ops == {"UpdateMemberRole", "AddMember", "RemoveMember", "LeaveGroup", "CreateInvite",
        "AcceptInvite", "AcceptInviteByID", "DeclineInviteByID", "DeleteGroup", "CreateExpense"}
Redemptions == {"AcceptInvite", "AcceptInviteByID", "DeclineInviteByID"}

\* A row of group_invites; token is the number of the token it carries.
Invite == [state : {"free", "PENDING", "ACCEPTED", "gone"}, email : Users, by : Users,
           token : Nat, current : BOOLEAN]

\* A request: who asks (rank is the role mustBeMember found), about whom, and with which
\* role, token or row; pc is the statement it runs next.
Places == (Ops \ Redemptions) \cup {"idle", "insert member", "accept", "commit expense",
                                    "delete group", "cascade", "commit deletion", "done"}
RequestState == [op : Ops \cup {"none"}, pc : Places, actor : Users, rank : Roles, target : Users, as : Roles,
            token : Nat, row : Rows \cup {NoRow}, saw : SUBSET Requests]

Init ==
    /\ group = "live"
    /\ role = [u \in Users |-> CASE u = Founder -> "OWNER" [] u = Admin -> "ADMIN" [] OTHER -> "none"]
    /\ \E i \in Rows :
         invite = [k \in Rows |-> [state |-> IF k = i THEN "PENDING" ELSE "free", email |-> Outsider,
                                   by |-> Founder, token |-> IF k = i THEN 1 ELSE 0, current |-> TRUE]]
    /\ tokens = 1
    /\ spent = {}
    /\ req = [r \in Requests |-> [op |-> "none", pc |-> "idle", actor |-> Founder, rank |-> "MEMBER", target |-> Founder,
                                  as |-> "MEMBER", token |-> 0, row |-> NoRow, saw |-> {}]]
    /\ admitted = {}

Goto(r, pc) == req' = [req EXCEPT ![r].pc = pc]

-----------------------------------------------------------------------------
\* What the handlers ask the database, each in a statement of its own.
GetMemberRole(u) == role[u]
IsMember(u) == role[u] # "none"
CheckFriendship(u, v) == {u, v} \in Friends

\* An accepting transaction holds its invite's row, ...
Redeeming == {"insert member", "accept"}
Unlocked(r, i) == FALSE    \* broken: the row is read without FOR UPDATE
Holds(r, i) == req[r].row = i /\ req[r].pc \in Redeeming

\* ... and a share of the group's row once it has inserted the member, as does an
\* expense; the deletion of the group excludes the shares.
Shares(r) == req[r].pc \in {"accept", "commit expense"}
Deletes(r) == req[r].pc \in {"cascade", "commit deletion"}

Untouched(r) == \A q \in Requests \ {r} : ~Deletes(q)

\* The roles a handler asks for; broken: admins change roles too.
AdminsToo(op) == IF op = "DeleteGroup" THEN {"OWNER"} ELSE {"OWNER", "ADMIN"}
Asks(op) ==
    CASE op \in {"UpdateMemberRole", "DeleteGroup"} -> {"OWNER"}
      [] op \in {"AddMember", "RemoveMember"} -> {"OWNER", "ADMIN"}
      [] OTHER -> Roles

\* A request arrives and mustBeMember reads the role of who asks, without a lock.
MustBeMember(r) ==
    /\ req[r].pc = "idle"
    /\ \E op \in Ops \ Redemptions, actor, target \in Users, as \in Roles :
         /\ op \notin {"UpdateMemberRole", "AddMember", "RemoveMember", "CreateInvite"} => target = actor
         /\ op \in {"AddMember", "RemoveMember", "CreateInvite"} => target # actor
         /\ as = "MEMBER" \/ op = "UpdateMemberRole" \/ (op = "AddMember" /\ as = "ADMIN")
         /\ GetMemberRole(actor) \in Asks(op)
         /\ req' = [req EXCEPT ![r] = [op |-> op, actor |-> actor, rank |-> GetMemberRole(actor), target |-> target, as |-> as,
                                      token |-> 0, row |-> NoRow, saw |-> {}, pc |-> op]]
    /\ UNCHANGED <<group, role, invite, tokens, spent, admitted>>

Becomes(u, as) == role' = [role EXCEPT ![u] = as]

\* The target is looked up and its row updated if it is still there.
UpdateMemberRole(r) ==
    /\ req[r].pc = "UpdateMemberRole" /\ Untouched(r)
    /\ IsMember(req[r].target)
    /\ Becomes(req[r].target, req[r].as)
    /\ Goto(r, "done")
    /\ UNCHANGED <<group, invite, tokens, spent, admitted>>

\* A member being inserted by a transaction that has not committed is waited for.
Inserting(u) == {q \in Requests : req[q].pc = "accept" /\ req[q].actor = u}

\* Friends only, and nothing happens to who is a member already (ON CONFLICT DO NOTHING).
AddMember(r) ==
    /\ req[r].pc = "AddMember" /\ Untouched(r)
    /\ group = "live" /\ CheckFriendship(req[r].actor, req[r].target)
    /\ ~IsMember(req[r].target) /\ Inserting(req[r].target) = {}
    /\ Becomes(req[r].target, req[r].as)
    /\ Goto(r, "done")
    /\ UNCHANGED <<group, invite, tokens, spent, admitted>>

\* The row goes, whatever its role, and the owner's too.
RemoveMember(r) ==
    /\ req[r].pc \in {"RemoveMember", "LeaveGroup"} /\ Untouched(r)
    /\ Becomes(req[r].target, "none")
    /\ Goto(r, "done")
    /\ UNCHANGED <<group, invite, tokens, spent, admitted>>

\* The pending row of an email, unique in the group.
PendingFor(u) == {i \in Rows : invite[i].state = "PENDING" /\ invite[i].email = u}

\* A new row, or a new token, inviter and expiry for the pending one.
CreateGroupInvite(u, by) ==
    [state |-> "PENDING", email |-> u, by |-> by, token |-> tokens + 1, current |-> TRUE]

\* CreateInvite waits for who is redeeming the pending row.
CreateInvite(r) ==
    /\ req[r].pc = "CreateInvite" /\ Untouched(r)
    /\ group = "live" /\ CheckFriendship(req[r].actor, req[r].target) /\ ~IsMember(req[r].target)
    /\ LET old == PendingFor(req[r].target)
           new == CreateGroupInvite(req[r].target, req[r].actor)
       IN  /\ \A i \in old, q \in Requests : ~Holds(q, i)
           /\ \E i \in IF old # {} THEN old ELSE {k \in Rows : invite[k].state = "free"} :
                invite' = [invite EXCEPT ![i] = new]
    /\ tokens' = tokens + 1
    /\ Goto(r, "done")
    /\ UNCHANGED <<group, role, spent, admitted>>

\* DeclineInviteForEmail: only the invitee, only while it is pending and free.
DeclineInvite(r) ==
    /\ req[r].pc = "idle" /\ Untouched(r)
    /\ \E u \in Users : \E i \in PendingFor(u) :
         /\ \A q \in Requests : ~Holds(q, i)
         /\ invite' = [invite EXCEPT ![i].state = "gone"]
         /\ req' = [req EXCEPT ![r].op = "DeclineInviteByID", ![r].actor = u, ![r].pc = "done"]
    /\ UNCHANGED <<group, role, tokens, spent, admitted>>

-----------------------------------------------------------------------------
\* acceptLockedInvite up to its first write.
Redeemable(u, i) ==
    /\ invite[i].state = "PENDING" /\ invite[i].current
    /\ invite[i].email = u
    /\ ~IsMember(u)

\* GetInviteByHashForUpdate, GetInviteByIDForUpdate: the row, by its token or its id, is
\* read again once it is free.
LockInvite(r) ==
    /\ req[r].pc = "idle" /\ Untouched(r)
    /\ \E op \in {"AcceptInvite", "AcceptInviteByID"}, u \in Users, i \in Rows :
         /\ \A q \in Requests : ~Holds(q, i)
         /\ Redeemable(u, i)
         /\ req' = [req EXCEPT ![r] = [@ EXCEPT !.op = op, !.actor = u, !.row = i, !.pc = "insert member",
                                  !.token = IF op = "AcceptInvite" THEN invite[i].token ELSE 0]]
    /\ UNCHANGED <<group, role, invite, tokens, spent, admitted>>

\* AcceptGroupInviteMember; who became a member meanwhile is met as a duplicate key.
AcceptGroupInviteMember(r) ==
    /\ req[r].pc = "insert member" /\ Untouched(r)
    /\ Inserting(req[r].actor) = {}
    /\ Goto(r, IF IsMember(req[r].actor) THEN "done" ELSE "accept")
    /\ UNCHANGED <<group, role, invite, tokens, spent, admitted>>

\* MarkInviteAccepted and the commit, which shows the member and the accepted invite.
MarkInviteAccepted(r) ==
    /\ req[r].pc = "accept"
    /\ invite' = [invite EXCEPT ![req[r].row].state = "ACCEPTED"]
    /\ Becomes(req[r].actor, "MEMBER")
    /\ admitted' = admitted \cup {[row |-> req[r].row, by |-> r]}
    /\ Goto(r, "done")
    /\ UNCHANGED <<group, tokens, spent>>

\* An expense is inserted, which asks for the group's row, and committed.
CreateExpense(r) ==
    /\ req[r].pc = "CreateExpense" /\ Untouched(r)
    /\ Goto(r, IF group = "live" THEN "commit expense" ELSE "done")
    /\ UNCHANGED <<group, role, invite, tokens, spent, admitted>>

CommitExpense(r) ==
    /\ req[r].pc = "commit expense"
    /\ spent' = spent \cup {r}
    /\ Goto(r, "done")
    /\ UNCHANGED <<group, role, invite, tokens, admitted>>

-----------------------------------------------------------------------------
\* DeleteGroup: the settlements and expenses there are, ...
DeleteGroupExpenses(r) ==
    /\ req[r].pc = "DeleteGroup" /\ Untouched(r)
    /\ req' = [req EXCEPT ![r].pc = "delete group", ![r].saw = spent]
    /\ UNCHANGED <<group, role, invite, tokens, spent, admitted>>

\* ... then the group's row, once nobody has a share of it, ...
DeleteGroup(r) ==
    /\ req[r].pc = "delete group" /\ Untouched(r)
    /\ \A q \in Requests : ~Shares(q)
    /\ Goto(r, "cascade")
    /\ UNCHANGED <<group, role, invite, tokens, spent, admitted>>

\* ... and with it members and invites, and the foreign keys of expenses and
\* settlements, which have no cascade, are checked.
\* Broken: the keys cascade.
NoForeignKeys(r) == TRUE
ForeignKeysHold(r) == spent \subseteq req[r].saw

Cascade(r) ==
    /\ req[r].pc = "cascade"
    /\ \A q \in Requests, i \in Rows : ~Holds(q, i)
    /\ Goto(r, IF ForeignKeysHold(r) THEN "commit deletion" ELSE "done")
    /\ UNCHANGED <<group, role, invite, tokens, spent, admitted>>

CommitDeletion(r) ==
    /\ req[r].pc = "commit deletion"
    /\ group' = "gone"
    /\ role' = [u \in Users |-> "none"]
    /\ invite' = [i \in Rows |-> [invite[i] EXCEPT !.state = IF @ = "free" THEN @ ELSE "gone"]]
    /\ spent' = spent \ req[r].saw
    /\ Goto(r, "done")
    /\ UNCHANGED <<tokens, admitted>>

-----------------------------------------------------------------------------
\* The week of an invite is over.
Expire(i) ==
    /\ invite[i].state = "PENDING" /\ invite[i].current
    /\ invite' = [invite EXCEPT ![i].current = FALSE]
    /\ UNCHANGED <<group, role, tokens, spent, req, admitted>>

\* The connection is lost, or the database ends a transaction in a deadlock: a redeemer
\* waits for the deletion that waits for its invite.
Abort(r) ==
    /\ req[r].pc \in Redeeming \cup {"commit expense", "delete group", "cascade", "commit deletion"}
    /\ Goto(r, "done")
    /\ UNCHANGED <<group, role, invite, tokens, spent, admitted>>

\* Nothing is left to do: not found, not friends, a member already, no group to refer to.
Refused(r) ==
    /\ \/ req[r].pc = "UpdateMemberRole" /\ ~IsMember(req[r].target)
       \/ req[r].pc \in {"AddMember", "CreateInvite"}
            /\ (group # "live" \/ ~CheckFriendship(req[r].actor, req[r].target) \/ IsMember(req[r].target))
    /\ Goto(r, "done")
    /\ UNCHANGED <<group, role, invite, tokens, spent, admitted>>

Step(r) ==
    \/ MustBeMember(r) \/ UpdateMemberRole(r) \/ AddMember(r) \/ RemoveMember(r) \/ CreateInvite(r)
    \/ DeclineInvite(r) \/ LockInvite(r) \/ AcceptGroupInviteMember(r) \/ MarkInviteAccepted(r)
    \/ CreateExpense(r) \/ CommitExpense(r) \/ DeleteGroupExpenses(r) \/ DeleteGroup(r) \/ Cascade(r)
    \/ CommitDeletion(r) \/ Refused(r)

Next == \/ \E r \in Requests : Step(r) \/ Abort(r)
        \/ \E i \in Rows : Expire(i)

Spec == Init /\ [][Next]_vars

-----------------------------------------------------------------------------
TypeOK ==
    /\ group \in {"live", "gone"} /\ role \in [Users -> Roles \cup {"none"}]
    /\ invite \in [Rows -> Invite] /\ tokens \in Nat
    /\ spent \subseteq Requests /\ req \in [Requests -> RequestState]
    /\ admitted \subseteq [row : Rows, by : Requests]

\* An invite admits once, by its token or from the inbox, even if who was admitted leaves
\* while the other request is under way (groups/handlers.go:839-887).
AdmitsOnce == \A a, b \in admitted : a.row = b.row => a = b

\* Whoever joins by a token joins by the one the invite carries at that moment: a new
\* invite, a decline and an acceptance wait for the one under way, and kill the old
\* token for those that come after (groups.sql.go CreateGroupInvite).
TokenIsCurrent ==
    [][\A r \in Requests : (req[r].pc = "accept" /\ admitted' # admitted /\ req'[r].pc = "done") =>
         LET row == invite[req[r].row]
         IN  row.state = "PENDING" /\ (req[r].op = "AcceptInvite" => row.token = req[r].token)]_vars

\* Deleting a group is whole: it is gone with every expense, those inserted while it was
\* being deleted included, or nothing is (groups/handlers.go:333-358).
DeletionIsWhole == group = "gone" => spent = {} /\ \A u \in Users : role[u] = "none"

AsOwner(r) == req[r].rank = "OWNER" /\ req[r].pc \notin {"idle", "done"}

\* The last owner may leave, be removed or demote itself; then nobody becomes an owner
\* again and the group stays for good, as soon as what owners asked before has ended
\* (groups/handlers.go:493, 541, 564).
OwnerlessForever ==
    [][(/\ group = "live"
        /\ \A u \in Users : role[u] # "OWNER"
        /\ \A r \in Requests : ~AsOwner(r)) => group' = "live" /\ \A u \in Users : role'[u] # "OWNER"]_vars
=============================================================================
