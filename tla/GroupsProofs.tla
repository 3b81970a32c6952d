---------------------------- MODULE GroupsProofs ----------------------------
(***************************************************************************)
(* What the handlers of a group guarantee for any number of users, invites *)
(* and requests in flight, proved from Groups.                             *)
(*                                                                         *)
(* A request that redeems an invite holds its row, and the row is still    *)
(* pending; a deletion that has passed the group's row shares it with      *)
(* nobody.  From these two exclusions the rest follows.                    *)
(***************************************************************************)
EXTENDS Groups, TLAPS

\* The founder and who is invited at the start are users.
Setting == Founder \in Users /\ Outsider \in Users

\* FOR UPDATE: an invite is redeemed by one request at a time, ...
OneHolder ==
    \A q, r \in Requests, i \in Rows : Holds(q, i) /\ Holds(r, i) => q = r

\* ... stays pending as long, and keeps the token it was found by.
HeldPending ==
    \A r \in Requests, i \in Rows : Holds(r, i) =>
        /\ invite[i].state = "PENDING"
        /\ req[r].op = "AcceptInvite" => invite[i].token = req[r].token

RowHeld == \A r \in Requests : req[r].pc \in Redeeming => req[r].row \in Rows

\* An invite that admitted somebody is never offered again.
Consumed == \A a \in admitted : invite[a.row].state \in {"ACCEPTED", "gone"}

\* Who deletes the group has its row alone, and has seen what hangs on it when the
\* foreign keys are checked.
Alone ==
    \A r \in Requests :
        /\ Deletes(r) => \A q \in Requests : ~Shares(q)
        /\ req[r].pc = "commit deletion" =>
              /\ spent \subseteq req[r].saw
              /\ \A q \in Requests, i \in Rows : ~Holds(q, i)

\* A deleted group invites nobody, and no expense is on its way into it.
Closed == group = "gone" =>
        /\ \A i \in Rows : invite[i].state # "PENDING"
        /\ \A r \in Requests : req[r].pc # "commit expense"

\* Roles are changed and groups deleted for owners only; nobody is added as one.
Authority ==
    \A r \in Requests :
        /\ req[r].pc \in {"UpdateMemberRole", "DeleteGroup", "delete group", "cascade",
                          "commit deletion"} => req[r].rank = "OWNER"
        /\ req[r].pc = "AddMember" => req[r].as # "OWNER"

Locks == OneHolder /\ HeldPending /\ RowHeld /\ Alone
IInv == TypeOK /\ Locks /\ Consumed /\ Closed /\ Authority /\ AdmitsOnce /\ DeletionIsWhole

-----------------------------------------------------------------------------
\* The steps of one request are its own.
LEMMA GotoFacts ==
    ASSUME TypeOK, NEW r \in Requests, NEW pc \in Places, Goto(r, pc)
    PROVE  /\ req' \in [Requests -> RequestState]
           /\ req'[r] = [req[r] EXCEPT !.pc = pc]
           /\ req'[r].pc = pc /\ req'[r].op = req[r].op /\ req'[r].rank = req[r].rank
           /\ req'[r].as = req[r].as /\ req'[r].token = req[r].token
           /\ req'[r].row = req[r].row /\ req'[r].saw = req[r].saw
           /\ req'[r].actor = req[r].actor
           /\ \A q \in Requests : q # r => req'[q] = req[q]
<1>1. req[r] \in RequestState
  BY DEF TypeOK
<1>2. [req[r] EXCEPT !.pc = pc] \in RequestState
  BY <1>1 DEF RequestState
<1>3. req' = [req EXCEPT ![r] = [req[r] EXCEPT !.pc = pc]]
  BY DEF Goto
<1>4. req' \in [Requests -> RequestState]
  BY <1>2, <1>3 DEF TypeOK
<1>5. req'[r] = [req[r] EXCEPT !.pc = pc] /\ \A q \in Requests : q # r => req'[q] = req[q]
  BY <1>3 DEF TypeOK
<1> QED BY <1>1, <1>4, <1>5 DEF RequestState

\* A request that starts to hold nothing keeps the exclusions.
LEMMA LocksKept ==
    ASSUME Locks, NEW r \in Requests,
           req'[r].pc \notin Redeeming /\ ~Shares(r)' /\ ~Deletes(r)',
           \A q \in Requests : q # r => req'[q] = req[q],
           UNCHANGED <<invite, spent>>
    PROVE  Locks'
<1>1. \A q \in Requests, i \in Rows : Holds(q, i)' => q # r /\ Holds(q, i)
  BY DEF Holds, Redeeming
<1>2. \A q \in Requests : (Shares(q)' => Shares(q)) /\ (Deletes(q)' => q # r /\ Deletes(q))
  BY DEF Shares, Deletes
<1>3. OneHolder'
  BY <1>1 DEF Locks, OneHolder
<1>4. HeldPending'
  BY <1>1 DEF Locks, HeldPending
<1>5. RowHeld'
  BY DEF Locks, RowHeld, Redeeming
<1>6. Alone'
  <2> SUFFICES ASSUME NEW q \in Requests, Deletes(q)'
               PROVE  /\ \A p \in Requests : ~Shares(p)'
                      /\ req'[q].pc = "commit deletion" =>
                            /\ spent' \subseteq req'[q].saw
                            /\ \A p \in Requests, i \in Rows : ~Holds(p, i)'
    BY DEF Alone, Deletes
  <2>1. q # r /\ Deletes(q) /\ req'[q] = req[q]
    BY <1>2
  <2> QED BY <1>1, <1>2, <2>1 DEF Locks, Alone
<1> QED BY <1>3, <1>4, <1>5, <1>6 DEF Locks

\* A request ends and leaves invites, expenses and the group alone.
LEMMA EndStep ==
    ASSUME IInv, NEW r \in Requests, Goto(r, "done"),
           UNCHANGED <<group, invite, tokens, spent, admitted>>,
           role' \in [Users -> Roles \cup {"none"}],
           group = "gone" => \A u \in Users : role'[u] = "none"
    PROVE  IInv'
<1>0. "done" \in Places /\ TypeOK
  BY DEF IInv, Places
<1>1. /\ req' \in [Requests -> RequestState] /\ req'[r].pc = "done"
      /\ \A q \in Requests : q # r => req'[q] = req[q]
  BY <1>0, GotoFacts
<1>2. TypeOK'
  BY <1>1 DEF IInv, TypeOK
<1>3. Locks'
  BY <1>1, LocksKept DEF Redeeming, Shares, Deletes, IInv
<1>4. Consumed' /\ AdmitsOnce' /\ DeletionIsWhole'
  BY DEF IInv, Consumed, AdmitsOnce, DeletionIsWhole
<1>5. Closed' /\ Authority'
  BY <1>1 DEF IInv, Closed, Authority
<1> QED BY <1>2, <1>3, <1>4, <1>5 DEF IInv

\* UpdateMemberRole, AddMember, RemoveMember, LeaveGroup, and requests that are refused
\* or aborted
LEMMA MemberStep ==
    ASSUME IInv, NEW r \in Requests,
           UpdateMemberRole(r) \/ AddMember(r) \/ RemoveMember(r) \/ Refused(r) \/ Abort(r)
    PROVE  IInv'
<1>1. req[r].as \in Roles /\ req[r].target \in Users /\ role \in [Users -> Roles \cup {"none"}]
  BY DEF IInv, TypeOK, RequestState
<1>2. group = "gone" => \A u \in Users : role[u] = "none"
  BY DEF IInv, DeletionIsWhole
<1>3. CASE UpdateMemberRole(r)
  BY <1>1, <1>2, <1>3, EndStep DEF UpdateMemberRole, Becomes, IsMember
<1>4. CASE AddMember(r)
  BY <1>1, <1>2, <1>4, EndStep DEF AddMember, Becomes
<1>5. CASE RemoveMember(r)
  BY <1>1, <1>2, <1>5, EndStep DEF RemoveMember, Becomes
<1>6. CASE Refused(r) \/ Abort(r)
  BY <1>1, <1>2, <1>6, EndStep DEF Refused, Abort
<1> QED BY <1>3, <1>4, <1>5, <1>6

\* mustBeMember starts a request without locking anything.
LEMMA MustBeMemberStep == ASSUME IInv, NEW r \in Requests, MustBeMember(r) PROVE IInv'
<1>1. PICK op \in Ops \ Redemptions, actor \in Users, target \in Users, as \in Roles :
         /\ as = "MEMBER" \/ op = "UpdateMemberRole" \/ (op = "AddMember" /\ as = "ADMIN")
         /\ GetMemberRole(actor) \in Asks(op)
         /\ req' = [req EXCEPT ![r] = [op |-> op, actor |-> actor, rank |-> GetMemberRole(actor),
                                      target |-> target, as |-> as,
                                      token |-> 0, row |-> NoRow, saw |-> {}, pc |-> op]]
  BY Zenon DEF MustBeMember
<1>2. UNCHANGED <<group, role, invite, tokens, spent, admitted>>
  BY DEF MustBeMember
<1> DEFINE new == [op |-> op, actor |-> actor, rank |-> GetMemberRole(actor),
                   target |-> target, as |-> as,
                   token |-> 0, row |-> NoRow, saw |-> {}, pc |-> op]
<1>3. new \in RequestState
  <2>1. op \in Places /\ op \in Ops \cup {"none"}
    BY <1>1 DEF Places
  <2>2. GetMemberRole(actor) \in Roles
    BY <1>1 DEF Asks, Roles
  <2> QED BY <2>1, <2>2 DEF RequestState
<1>4. /\ req' \in [Requests -> RequestState]
      /\ req'[r].pc = op /\ req'[r].rank = GetMemberRole(actor) /\ req'[r].as = as
      /\ \A q \in Requests : q # r => req'[q] = req[q]
  BY <1>1, <1>3 DEF IInv, TypeOK
<1>5. op \in {"UpdateMemberRole", "AddMember", "RemoveMember", "LeaveGroup", "CreateInvite",
              "DeleteGroup", "CreateExpense"}
  BY DEF Ops, Redemptions
<1> HIDE DEF new
<1>6. TypeOK'
  BY <1>2, <1>4 DEF IInv, TypeOK
<1>7. Locks'
  BY <1>2, <1>4, <1>5, LocksKept DEF IInv, Redeeming, Shares, Deletes
<1>8. Consumed' /\ AdmitsOnce' /\ DeletionIsWhole'
  BY <1>2 DEF IInv, Consumed, AdmitsOnce, DeletionIsWhole
<1>9. Closed'
  BY <1>2, <1>4, <1>5 DEF IInv, Closed
<1>10. Authority'
  BY <1>1, <1>4, <1>5 DEF IInv, Authority, Asks
<1> QED BY <1>6, <1>7, <1>8, <1>9, <1>10 DEF IInv

\* LockInvite: the row was free, so it has one holder.
LEMMA LockInviteStep == ASSUME IInv, NEW r \in Requests, LockInvite(r) PROVE IInv'
<1>1. PICK op \in {"AcceptInvite", "AcceptInviteByID"}, u \in Users, i \in Rows :
         /\ \A q \in Requests : ~Holds(q, i)
         /\ Redeemable(u, i)
         /\ req' = [req EXCEPT ![r] = [@ EXCEPT !.op = op, !.actor = u, !.row = i, !.pc = "insert member",
                                  !.token = IF op = "AcceptInvite" THEN invite[i].token ELSE 0]]
  BY DEF LockInvite
<1>2. /\ UNCHANGED <<group, role, invite, tokens, spent, admitted>>
      /\ req[r].pc = "idle" /\ Untouched(r)
  BY DEF LockInvite
<1>3. req[r] \in RequestState /\ invite[i] \in Invite
  BY DEF IInv, TypeOK
<1> DEFINE new == [req[r] EXCEPT !.op = op, !.actor = u, !.row = i, !.pc = "insert member",
                                 !.token = IF op = "AcceptInvite" THEN invite[i].token ELSE 0]
<1>4. new \in RequestState
  <2>1. "insert member" \in Places /\ op \in Ops \cup {"none"}
    BY DEF Ops, Places
  <2>2. (IF op = "AcceptInvite" THEN invite[i].token ELSE 0) \in Nat
    BY <1>3 DEF Invite
  <2> QED BY <1>3, <2>1, <2>2 DEF RequestState
<1>5. /\ new.pc = "insert member" /\ new.row = i /\ new.op = op
      /\ op = "AcceptInvite" => new.token = invite[i].token
  BY <1>3 DEF RequestState
<1>6. req' = [req EXCEPT ![r] = new]
  BY <1>1
<1> HIDE DEF new
<1>7. /\ req' \in [Requests -> RequestState] /\ req'[r] = new
      /\ \A q \in Requests : q # r => req'[q] = req[q]
  BY <1>4, <1>6 DEF IInv, TypeOK
<1>8. TypeOK'
  BY <1>2, <1>7 DEF IInv, TypeOK
<1>9. OneHolder'
  <2>1. \A q \in Requests, j \in Rows : Holds(q, j)' => IF q = r THEN j = i ELSE Holds(q, j)
    BY <1>5, <1>7 DEF Holds
  <2>2. \A q \in Requests : ~Holds(q, i)
    BY <1>1
  <2> QED BY <2>1, <2>2 DEF IInv, Locks, OneHolder
<1>10. HeldPending' /\ RowHeld'
  <2>1. \A q \in Requests, j \in Rows : Holds(q, j)' => (q = r /\ j = i) \/ (q # r /\ Holds(q, j))
    BY <1>5, <1>7 DEF Holds
  <2>2. HeldPending'
    <3> SUFFICES ASSUME NEW q \in Requests, NEW j \in Rows, Holds(q, j)'
                 PROVE  /\ invite[j].state = "PENDING"
                        /\ req'[q].op = "AcceptInvite" => invite[j].token = req'[q].token
      BY <1>2 DEF HeldPending
    <3>1. CASE q = r /\ j = i
      BY <3>1, <1>1, <1>5, <1>7 DEF Redeemable
    <3>2. CASE q # r /\ Holds(q, j)
      BY <3>2, <1>7 DEF IInv, Locks, HeldPending
    <3> QED BY <2>1, <3>1, <3>2
  <2>3. RowHeld'
    BY <1>5, <1>7 DEF IInv, Locks, RowHeld
  <2> QED BY <2>2, <2>3
<1>11. Alone'
  <2>1. \A q \in Requests : ~Deletes(q)'
    BY <1>2, <1>5, <1>7 DEF Untouched, Deletes
  <2> QED BY <2>1 DEF Alone, Deletes
<1>12. Consumed' /\ AdmitsOnce' /\ DeletionIsWhole'
  BY <1>2 DEF IInv, Consumed, AdmitsOnce, DeletionIsWhole
<1>13. Closed' /\ Authority'
  BY <1>2, <1>5, <1>7 DEF IInv, Closed, Authority
<1> QED BY <1>8, <1>9, <1>10, <1>11, <1>12, <1>13 DEF IInv, Locks
\* AcceptGroupInviteMember: the request goes on holding its row, and now shares the group's.
LEMMA AcceptMemberStep == ASSUME IInv, NEW r \in Requests, AcceptGroupInviteMember(r) PROVE IInv'
<1>1. /\ req[r].pc = "insert member" /\ Untouched(r)
      /\ UNCHANGED <<group, role, invite, tokens, spent, admitted>>
  BY DEF AcceptGroupInviteMember
<1>2. CASE Goto(r, "done")
  BY <1>1, <1>2, EndStep DEF IInv, TypeOK, DeletionIsWhole
<1>3. CASE Goto(r, "accept")
  <2>1. TypeOK /\ "accept" \in Places
    BY DEF IInv, Places
  <2>2. /\ req' \in [Requests -> RequestState]
        /\ req'[r].pc = "accept" /\ req'[r].op = req[r].op /\ req'[r].row = req[r].row
        /\ req'[r].token = req[r].token
        /\ \A q \in Requests : q # r => req'[q] = req[q]
    BY <1>3, <2>1, GotoFacts
  <2>3. TypeOK'
    BY <1>1, <2>2 DEF IInv, TypeOK
  <2>4. \A q \in Requests, i \in Rows : Holds(q, i)' <=> Holds(q, i)
    BY <1>1, <2>2 DEF Holds, Redeeming
  <2>5. OneHolder' /\ RowHeld'
    BY <1>1, <2>2, <2>4 DEF IInv, Locks, OneHolder, RowHeld, Redeeming
  <2>6. HeldPending'
    <3>1. \A q \in Requests : req'[q].op = req[q].op /\ req'[q].token = req[q].token
      BY <2>2
    <3>2. HeldPending /\ invite' = invite
      BY <1>1 DEF IInv, Locks
    <3>3. ASSUME NEW q \in Requests, NEW i \in Rows, Holds(q, i)'
          PROVE  /\ invite'[i].state = "PENDING"
                 /\ req'[q].op = "AcceptInvite" => invite'[i].token = req'[q].token
      <4>1. Holds(q, i)
        BY <2>4, <3>3
      <4> QED BY <3>1, <3>2, <4>1 DEF HeldPending
    <3> QED BY <3>3 DEF HeldPending
  <2>7. Alone'
    <3>1. \A q \in Requests : ~Deletes(q)'
      BY <1>1, <2>2 DEF Untouched, Deletes
    <3> QED BY <3>1 DEF Alone, Deletes
  <2>8. Consumed' /\ AdmitsOnce' /\ DeletionIsWhole'
    BY <1>1 DEF IInv, Consumed, AdmitsOnce, DeletionIsWhole
  <2>9. Closed' /\ Authority'
    BY <1>1, <2>2 DEF IInv, Closed, Authority
  <2> QED BY <2>3, <2>5, <2>6, <2>7, <2>8, <2>9 DEF IInv, Locks
<1> QED BY <1>2, <1>3 DEF AcceptGroupInviteMember

\* MarkInviteAccepted: the row was pending, so it admitted nobody before.
LEMMA AcceptStep == ASSUME IInv, NEW r \in Requests, MarkInviteAccepted(r) PROVE IInv'
<1> DEFINE i == req[r].row
<1>1. /\ req[r].pc = "accept" /\ Goto(r, "done")
      /\ invite' = [invite EXCEPT ![i].state = "ACCEPTED"]
      /\ role' = [role EXCEPT ![req[r].actor] = "MEMBER"]
      /\ admitted' = admitted \cup {[row |-> i, by |-> r]}
      /\ UNCHANGED <<group, tokens, spent>>
  BY DEF MarkInviteAccepted, Becomes
<1>2. i \in Rows /\ Holds(r, i) /\ invite[i].state = "PENDING"
  BY <1>1 DEF IInv, Locks, RowHeld, HeldPending, Holds, Redeeming
<1> HIDE DEF i
<1>3. "done" \in Places /\ TypeOK /\ invite[i] \in Invite /\ req[r].actor \in Users
  BY <1>2 DEF IInv, Places, TypeOK, RequestState
<1>4. /\ req' \in [Requests -> RequestState] /\ req'[r].pc = "done"
      /\ \A q \in Requests : q # r => req'[q] = req[q]
  BY <1>1, <1>3, GotoFacts
<1>5. /\ invite' \in [Rows -> Invite] /\ invite'[i].state = "ACCEPTED"
      /\ \A j \in Rows : j # i => invite'[j] = invite[j]
  <2>1. [invite[i] EXCEPT !.state = "ACCEPTED"] \in Invite
    BY <1>3 DEF Invite
  <2>2. invite' = [invite EXCEPT ![i] = [invite[i] EXCEPT !.state = "ACCEPTED"]]
    BY <1>1
  <2>3. [invite[i] EXCEPT !.state = "ACCEPTED"].state = "ACCEPTED"
    BY <1>3 DEF Invite
  <2> QED BY <1>2, <2>1, <2>2, <2>3 DEF IInv, TypeOK
<1>6. TypeOK'
  BY <1>1, <1>2, <1>3, <1>4, <1>5 DEF IInv, TypeOK, Roles
<1>7. \A q \in Requests, j \in Rows : Holds(q, j)' => q # r /\ Holds(q, j) /\ j # i
  BY <1>2, <1>4 DEF IInv, Locks, OneHolder, Holds, Redeeming
<1>8. OneHolder' /\ RowHeld'
  BY <1>4, <1>7 DEF IInv, Locks, OneHolder, RowHeld, Redeeming
<1>9. HeldPending'
  BY <1>4, <1>5, <1>7 DEF IInv, Locks, HeldPending
<1>10. \A q \in Requests : ~Deletes(q) /\ ~Deletes(q)'
  BY <1>1, <1>4 DEF IInv, Locks, Alone, Shares, Deletes
<1>11. Alone'
  BY <1>10 DEF Alone, Deletes
<1>12. Consumed'
  BY <1>1, <1>5 DEF IInv, Consumed, TypeOK
<1>13. AdmitsOnce'
  <2>1. \A a \in admitted : a.row # i
    BY <1>2 DEF IInv, Consumed
  <2> QED BY <1>1, <2>1 DEF IInv, AdmitsOnce
<1>14. group # "gone"
  BY <1>2 DEF IInv, Closed
<1>15. DeletionIsWhole' /\ Closed'
  BY <1>1, <1>14 DEF DeletionIsWhole, Closed
<1>16. Authority'
  BY <1>4 DEF IInv, Authority
<1> QED BY <1>6, <1>8, <1>9, <1>11, <1>12, <1>13, <1>15, <1>16 DEF IInv, Locks

\* Invites nobody holds change, and one request may end.
LEMMA InviteStep ==
    ASSUME IInv, NEW i \in Rows, \A q \in Requests : ~Holds(q, i),
           NEW new \in Invite, invite' = [invite EXCEPT ![i] = new],
           new.state = "PENDING" => invite[i].state \in {"free", "PENDING"} /\ group = "live",
           new.state = "free" => invite[i].state = "free",
           req' \in [Requests -> RequestState],
           \A q \in Requests : req'[q] = req[q] \/ req'[q].pc = "done",
           UNCHANGED <<group, role, spent, admitted>>, tokens' \in Nat
    PROVE  IInv'
<1>1. invite'[i] = new /\ \A j \in Rows : j # i => invite'[j] = invite[j]
  BY DEF IInv, TypeOK
<1>2. TypeOK'
  BY DEF IInv, TypeOK
<1>3. \A q \in Requests, j \in Rows : Holds(q, j)' => Holds(q, j) /\ j # i /\ req'[q] = req[q]
  BY DEF Holds, Redeeming
<1>4. OneHolder' /\ RowHeld'
  BY <1>3 DEF IInv, Locks, OneHolder, RowHeld, Redeeming
<1>5. HeldPending'
  BY <1>1, <1>3 DEF IInv, Locks, HeldPending
<1>6. \A q \in Requests : (Shares(q)' => Shares(q)) /\ (Deletes(q)' => Deletes(q) /\ req'[q] = req[q])
  BY DEF Shares, Deletes
<1>7. Alone'
  <2> SUFFICES ASSUME NEW q \in Requests, Deletes(q)'
               PROVE  /\ \A p \in Requests : ~Shares(p)'
                      /\ req'[q].pc = "commit deletion" =>
                            /\ spent' \subseteq req'[q].saw
                            /\ \A p \in Requests, j \in Rows : ~Holds(p, j)'
    BY DEF Alone, Deletes
  <2>1. Deletes(q) /\ req'[q] = req[q]
    BY <1>6
  <2> QED BY <1>3, <1>6, <2>1 DEF IInv, Locks, Alone
<1>8. Consumed'
  <2> SUFFICES ASSUME NEW a \in admitted
               PROVE  invite'[a.row].state \in {"ACCEPTED", "gone"}
    BY DEF Consumed
  <2>1. a.row \in Rows /\ invite[a.row].state \in {"ACCEPTED", "gone"}
    BY DEF IInv, Consumed, TypeOK
  <2>2. new.state \in {"free", "PENDING", "ACCEPTED", "gone"}
    BY DEF Invite
  <2> QED BY <1>1, <2>1, <2>2
<1>9. AdmitsOnce' /\ DeletionIsWhole'
  BY DEF IInv, AdmitsOnce, DeletionIsWhole
<1>10. Closed'
  BY <1>1 DEF IInv, Closed
<1>11. Authority'
  BY DEF IInv, Authority
<1> QED BY <1>2, <1>4, <1>5, <1>7, <1>8, <1>9, <1>10, <1>11 DEF IInv, Locks

\* CreateInvite, DeclineInviteByID and the end of an invite's week
LEMMA InvitesStep ==
    ASSUME IInv, NEW r \in Requests, CreateInvite(r) \/ DeclineInvite(r)
    PROVE  IInv'
<1>1. CASE CreateInvite(r)
  <2>1. "done" \in Places /\ TypeOK /\ Goto(r, "done") /\ tokens + 1 \in Nat
    BY <1>1 DEF IInv, Places, CreateInvite, TypeOK
  <2>2. /\ req' \in [Requests -> RequestState] /\ req'[r].pc = "done"
        /\ \A q \in Requests : q # r => req'[q] = req[q]
    BY <2>1, GotoFacts
  <2> DEFINE new == CreateGroupInvite(req[r].target, req[r].actor)
  <2>3. PICK i \in Rows : /\ invite[i].state \in {"free", "PENDING"}
                          /\ \A q \in Requests : ~Holds(q, i)
                          /\ invite' = [invite EXCEPT ![i] = new]
    <3>1. PICK i \in Rows : /\ i \in PendingFor(req[r].target) \/ invite[i].state = "free"
                            /\ i \in PendingFor(req[r].target) => \A q \in Requests : ~Holds(q, i)
                            /\ invite' = [invite EXCEPT ![i] = new]
      BY <1>1 DEF CreateInvite, PendingFor
    <3>2. invite[i].state = "free" => \A q \in Requests : ~Holds(q, i)
      BY DEF IInv, Locks, HeldPending
    <3> QED BY <3>1, <3>2 DEF PendingFor
  <2>4. new \in Invite /\ new.state = "PENDING"
    BY <2>1 DEF CreateGroupInvite, Invite, IInv, TypeOK, RequestState
  <2> HIDE DEF new
  <2>5. group = "live" /\ UNCHANGED <<group, role, spent, admitted>> /\ tokens' \in Nat
    BY <1>1, <2>1 DEF CreateInvite
  <2>6. \A q \in Requests : req'[q] = req[q] \/ req'[q].pc = "done"
    BY <2>2
  <2> QED BY <2>2, <2>3, <2>4, <2>5, <2>6, InviteStep
<1>2. CASE DeclineInvite(r)
  <2>1. PICK u \in Users : \E i \in PendingFor(u) :
         /\ \A q \in Requests : ~Holds(q, i)
         /\ invite' = [invite EXCEPT ![i].state = "gone"]
         /\ req' = [req EXCEPT ![r].op = "DeclineInviteByID", ![r].actor = u, ![r].pc = "done"]
    BY <1>2 DEF DeclineInvite
  <2>2. PICK i \in PendingFor(u) :
         /\ \A q \in Requests : ~Holds(q, i)
         /\ invite' = [invite EXCEPT ![i].state = "gone"]
         /\ req' = [req EXCEPT ![r].op = "DeclineInviteByID", ![r].actor = u, ![r].pc = "done"]
    BY <2>1
  <2>3. i \in Rows /\ invite[i] \in Invite /\ req[r] \in RequestState
    BY DEF PendingFor, IInv, TypeOK
  <2> DEFINE new == [invite[i] EXCEPT !.state = "gone"]
  <2>4. new \in Invite /\ new.state = "gone" /\ invite' = [invite EXCEPT ![i] = new]
    BY <2>2, <2>3 DEF Invite
  <2> HIDE DEF new
  <2> DEFINE own == [req[r] EXCEPT !.op = "DeclineInviteByID", !.actor = u, !.pc = "done"]
  <2>5. own \in RequestState /\ own.pc = "done"
    BY <2>3 DEF RequestState, Places, Ops
  <2>6. req' = [req EXCEPT ![r] = own]
    BY <2>2 DEF IInv, TypeOK
  <2> HIDE DEF own
  <2>7. /\ req' \in [Requests -> RequestState]
        /\ \A q \in Requests : req'[q] = req[q] \/ req'[q].pc = "done"
    BY <2>5, <2>6 DEF IInv, TypeOK
  <2>8. UNCHANGED <<group, role, spent, admitted>> /\ tokens' \in Nat
    BY <1>2 DEF DeclineInvite, IInv, TypeOK
  <2> QED BY <2>2, <2>3, <2>4, <2>7, <2>8, InviteStep
<1> QED BY <1>1, <1>2
\* An invite expires, held or not: it keeps its state and its token.
LEMMA ExpireStep == ASSUME IInv, NEW i \in Rows, Expire(i) PROVE IInv'
<1>1. /\ invite' = [invite EXCEPT ![i].current = FALSE] /\ invite[i] \in Invite
      /\ UNCHANGED <<group, role, tokens, spent, req, admitted>>
  BY DEF Expire, IInv, TypeOK
<1>2. /\ invite' \in [Rows -> Invite]
      /\ \A j \in Rows : invite'[j].state = invite[j].state /\ invite'[j].token = invite[j].token
  <2>1. [invite[i] EXCEPT !.current = FALSE] \in Invite
    BY <1>1 DEF Invite
  <2> QED BY <1>1, <2>1 DEF IInv, TypeOK, Invite
<1>3. TypeOK'
  BY <1>1, <1>2 DEF IInv, TypeOK
<1>4. \A q \in Requests, j \in Rows : Holds(q, j)' <=> Holds(q, j)
  BY <1>1 DEF Holds
<1>5. Locks'
  <2>1. OneHolder' /\ RowHeld'
    BY <1>1, <1>4 DEF IInv, Locks, OneHolder, RowHeld
  <2>2. HeldPending'
    BY <1>1, <1>2, <1>4 DEF IInv, Locks, HeldPending
  <2>3. Alone'
    BY <1>1, <1>4 DEF IInv, Locks, Alone, Deletes, Shares
  <2> QED BY <2>1, <2>2, <2>3 DEF Locks
<1>6. Consumed'
  BY <1>1, <1>2 DEF IInv, Consumed, TypeOK
<1>7. Closed' /\ Authority' /\ AdmitsOnce' /\ DeletionIsWhole'
  BY <1>1, <1>2 DEF IInv, Closed, Authority, AdmitsOnce, DeletionIsWhole
<1> QED BY <1>3, <1>5, <1>6, <1>7 DEF IInv

\* A step of a request that touches no invite and holds none.
LEMMA OutsideStep ==
    ASSUME IInv, NEW r \in Requests, req[r].pc \notin Redeeming, req'[r].pc \notin Redeeming,
           req' \in [Requests -> RequestState], \A q \in Requests : q # r => req'[q] = req[q],
           req'[r].rank = req[r].rank,
           req'[r].pc \notin {"UpdateMemberRole", "AddMember"},
           req'[r].pc \in {"DeleteGroup", "delete group", "cascade", "commit deletion"}
              => req[r].pc \in {"DeleteGroup", "delete group", "cascade", "commit deletion"},
           req'[r].pc = "commit expense" => group = "live",
           Alone', DeletionIsWhole',
           UNCHANGED <<group, role, invite, tokens, admitted>>, spent' \subseteq Requests
    PROVE  IInv'
<1>1. TypeOK'
  BY DEF IInv, TypeOK
<1>2. \A q \in Requests, i \in Rows : Holds(q, i)' => q # r /\ Holds(q, i)
  BY DEF Holds
<1>3. OneHolder' /\ RowHeld'
  BY <1>2 DEF IInv, Locks, OneHolder, RowHeld
<1>4. HeldPending'
  <2>1. HeldPending
    BY DEF IInv, Locks
  <2>2. ASSUME NEW q \in Requests, NEW i \in Rows, Holds(q, i)'
        PROVE  /\ invite[i].state = "PENDING"
               /\ req'[q].op = "AcceptInvite" => invite[i].token = req'[q].token
    <3>1. Holds(q, i) /\ req'[q] = req[q]
      BY <1>2, <2>2
    <3> QED BY <2>1, <3>1 DEF HeldPending
  <2> QED BY <2>2 DEF HeldPending
<1>5. Consumed' /\ AdmitsOnce'
  BY DEF IInv, Consumed, AdmitsOnce
<1>6. Closed'
  BY DEF IInv, Closed
<1>7. Authority'
  BY DEF IInv, Authority
<1> QED BY <1>1, <1>3, <1>4, <1>5, <1>6, <1>7 DEF IInv, Locks

\* An expense shares the group's row from its INSERT to its commit.
LEMMA ExpenseStep ==
    ASSUME IInv, NEW r \in Requests, CreateExpense(r) \/ CommitExpense(r)
    PROVE  IInv'
<1>1. "done" \in Places /\ "commit expense" \in Places /\ TypeOK
  BY DEF IInv, Places
<1>2. CASE CreateExpense(r) /\ Goto(r, "done")
  BY <1>2, EndStep DEF CreateExpense, IInv, TypeOK, DeletionIsWhole
<1>3. CASE CreateExpense(r) /\ Goto(r, "commit expense")
  <2>1. /\ req' \in [Requests -> RequestState] /\ req'[r].pc = "commit expense"
        /\ req'[r].rank = req[r].rank
        /\ \A q \in Requests : q # r => req'[q] = req[q]
    BY <1>1, <1>3, GotoFacts
  <2>2. group = "live" /\ req[r].pc = "CreateExpense" /\ Untouched(r)
        /\ UNCHANGED <<group, role, invite, tokens, spent, admitted>>
    BY <1>1, <1>3, <2>1, GotoFacts DEF CreateExpense
  <2>3. Alone'
    <3>1. \A q \in Requests : ~Deletes(q)'
      BY <2>1, <2>2 DEF Untouched, Deletes
    <3> QED BY <3>1 DEF Alone, Deletes
  <2>4. DeletionIsWhole' /\ spent' \subseteq Requests
    BY <2>2 DEF IInv, TypeOK, DeletionIsWhole
  <2>5. req[r].pc \notin Redeeming /\ req'[r].pc \notin Redeeming
    BY <2>1, <2>2 DEF Redeeming
  <2> QED BY <2>1, <2>2, <2>3, <2>4, <2>5, OutsideStep
<1>4. CASE CommitExpense(r)
  <2>1. /\ req' \in [Requests -> RequestState] /\ req'[r].pc = "done"
        /\ req'[r].rank = req[r].rank
        /\ \A q \in Requests : q # r => req'[q] = req[q]
    BY <1>1, <1>4, GotoFacts DEF CommitExpense
  <2>2. req[r].pc = "commit expense" /\ spent' = spent \cup {r}
        /\ UNCHANGED <<group, role, invite, tokens, admitted>>
    BY <1>4 DEF CommitExpense
  <2>3. group # "gone" /\ \A q \in Requests : ~Deletes(q)
    BY <2>2 DEF IInv, Closed, Locks, Alone, Shares
  <2>4. Alone'
    <3>1. \A q \in Requests : ~Deletes(q)'
      BY <2>1, <2>3 DEF Deletes
    <3> QED BY <3>1 DEF Alone, Deletes
  <2>5. DeletionIsWhole' /\ spent' \subseteq Requests
    BY <2>2, <2>3 DEF IInv, TypeOK, DeletionIsWhole
  <2>6. req[r].pc \notin Redeeming /\ req'[r].pc \notin Redeeming
    BY <2>1, <2>2 DEF Redeeming
  <2> QED BY <2>1, <2>2, <2>4, <2>5, <2>6, OutsideStep
<1> QED BY <1>2, <1>3, <1>4 DEF CreateExpense

\* DeleteGroup, up to its commit: from the group's row on it is alone.
LEMMA DeletingStep ==
    ASSUME IInv, NEW r \in Requests, DeleteGroupExpenses(r) \/ DeleteGroup(r) \/ Cascade(r)
    PROVE  IInv'
<1>1. /\ TypeOK /\ "delete group" \in Places /\ "cascade" \in Places
      /\ "commit deletion" \in Places /\ "done" \in Places
  BY DEF IInv, Places
<1>2. /\ UNCHANGED <<group, role, invite, tokens, spent, admitted>>
      /\ DeletionIsWhole' /\ spent' \subseteq Requests
      /\ req[r].pc \in {"DeleteGroup", "delete group", "cascade"}
  BY <1>1 DEF DeleteGroupExpenses, DeleteGroup, Cascade, IInv, DeletionIsWhole, TypeOK
<1>3. CASE DeleteGroupExpenses(r)
  <2> DEFINE new == [req[r] EXCEPT !.pc = "delete group", !.saw = spent]
  <2>0. req[r] \in RequestState /\ spent \in SUBSET Requests
    BY <1>1 DEF TypeOK
  <2>1. /\ new \in RequestState /\ new.pc = "delete group" /\ new.rank = req[r].rank
    BY <1>1, <2>0 DEF RequestState
  <2>2. req' = [req EXCEPT ![r] = new]
    BY <1>1, <1>3 DEF DeleteGroupExpenses, TypeOK
  <2> HIDE DEF new
  <2>3. /\ req' \in [Requests -> RequestState] /\ req'[r] = new
        /\ \A q \in Requests : q # r => req'[q] = req[q]
    BY <1>1, <2>1, <2>2 DEF TypeOK
  <2>4. Alone'
    BY <1>2, <2>1, <2>3, LocksKept DEF IInv, Locks, Redeeming, Shares, Deletes
  <2>5. req[r].pc \notin Redeeming /\ req'[r].pc \notin Redeeming
    BY <1>2, <2>1, <2>3 DEF Redeeming
  <2> QED BY <1>2, <2>1, <2>3, <2>4, <2>5, OutsideStep
<1>4. CASE DeleteGroup(r)
  <2>1. /\ req' \in [Requests -> RequestState] /\ req'[r].pc = "cascade"
        /\ req'[r].rank = req[r].rank
        /\ \A q \in Requests : q # r => req'[q] = req[q]
    BY <1>1, <1>4, GotoFacts DEF DeleteGroup
  <2>2. Alone'
    <3>1. \A q \in Requests : ~Shares(q)'
      BY <1>4, <2>1 DEF DeleteGroup, Shares
    <3>2. \A q \in Requests : req'[q].pc # "commit deletion"
      BY <1>4, <2>1 DEF DeleteGroup, Untouched, Deletes
    <3> QED BY <3>1, <3>2 DEF Alone
  <2>3. req[r].pc \notin Redeeming /\ req'[r].pc \notin Redeeming
    BY <1>2, <2>1 DEF Redeeming
  <2> QED BY <1>2, <2>1, <2>2, <2>3, OutsideStep
<1>5. CASE Cascade(r) /\ Goto(r, "done")
  BY <1>1, <1>2, <1>5, EndStep DEF IInv, TypeOK, DeletionIsWhole
<1>6. CASE Cascade(r) /\ Goto(r, "commit deletion")
  <2>1. /\ req' \in [Requests -> RequestState] /\ req'[r].pc = "commit deletion"
        /\ req'[r].rank = req[r].rank /\ req'[r].saw = req[r].saw
        /\ \A q \in Requests : q # r => req'[q] = req[q]
    BY <1>1, <1>6, GotoFacts
  <2>2. /\ spent \subseteq req[r].saw /\ req[r].pc = "cascade"
        /\ \A q \in Requests, i \in Rows : ~Holds(q, i)
    BY <1>1, <1>6, <2>1, GotoFacts DEF Cascade, ForeignKeysHold
  <2>3. Alone'
    <3>1. \A q \in Requests, i \in Rows : ~Holds(q, i)'
      BY <2>1, <2>2 DEF Holds, Redeeming
    <3>2. \A q \in Requests : ~Shares(q)'
      <4>1. \A q \in Requests : ~Shares(q)
        BY <2>2 DEF IInv, Locks, Alone, Deletes
      <4> QED BY <2>1, <4>1 DEF Shares
    <3>3. \A q \in Requests : req'[q].pc = "commit deletion" => spent' \subseteq req'[q].saw
      BY <1>2, <2>1, <2>2 DEF IInv, Locks, Alone
    <3> QED BY <3>1, <3>2, <3>3 DEF Alone
  <2>4. req[r].pc \notin Redeeming /\ req'[r].pc \notin Redeeming
    BY <1>2, <2>1 DEF Redeeming
  <2> QED BY <1>2, <2>1, <2>3, <2>4, OutsideStep
<1> QED BY <1>3, <1>4, <1>5, <1>6 DEF Cascade

\* The commit takes the group with everything in it.
LEMMA CommitDeletionStep == ASSUME IInv, NEW r \in Requests, CommitDeletion(r) PROVE IInv'
<1>1. /\ req[r].pc = "commit deletion" /\ Goto(r, "done") /\ group' = "gone"
      /\ role' = [u \in Users |-> "none"]
      /\ invite' = [i \in Rows |-> [invite[i] EXCEPT !.state = IF @ = "free" THEN @ ELSE "gone"]]
      /\ spent' = spent \ req[r].saw /\ UNCHANGED <<tokens, admitted>>
  BY DEF CommitDeletion
<1>2. /\ spent' = {} /\ \A q \in Requests : ~Shares(q)
      /\ \A q \in Requests, i \in Rows : ~Holds(q, i)
  BY <1>1 DEF IInv, Locks, Alone, Deletes
<1>3. /\ req' \in [Requests -> RequestState] /\ req'[r].pc = "done"
      /\ \A q \in Requests : q # r => req'[q] = req[q]
  <2>1. "done" \in Places /\ TypeOK
    BY DEF IInv, Places
  <2> QED BY <1>1, <2>1, GotoFacts
<1>4. \A i \in Rows : /\ invite[i] \in Invite /\ invite'[i] \in Invite
                      /\ invite'[i].state = IF invite[i].state = "free" THEN "free" ELSE "gone"
  <2> SUFFICES ASSUME NEW i \in Rows
               PROVE  /\ invite[i] \in Invite /\ invite'[i] \in Invite
                      /\ invite'[i].state = IF invite[i].state = "free" THEN "free" ELSE "gone"
    OBVIOUS
  <2>1. invite[i] \in Invite
    BY DEF IInv, TypeOK
  <2>2. invite'[i] = [invite[i] EXCEPT !.state = IF @ = "free" THEN @ ELSE "gone"]
    BY <1>1
  <2> QED BY <2>1, <2>2 DEF Invite
<1>5. invite' \in [Rows -> Invite]
  BY <1>1, <1>4
<1>6. TypeOK'
  BY <1>1, <1>2, <1>3, <1>5 DEF IInv, TypeOK
<1>7. \A q \in Requests, i \in Rows : ~Holds(q, i)'
  BY <1>2, <1>3 DEF Holds, Redeeming
<1>8. OneHolder' /\ HeldPending'
  BY <1>7 DEF OneHolder, HeldPending
<1>9. RowHeld'
  BY <1>3 DEF IInv, Locks, RowHeld, Redeeming
<1>10. Alone'
  <2>1. \A q \in Requests : ~Shares(q)'
    BY <1>2, <1>3 DEF Shares
  <2> QED BY <1>2, <1>7, <2>1 DEF Alone
<1>11. Consumed'
  BY <1>1, <1>4 DEF IInv, Consumed, TypeOK
<1>12. Closed'
  <2>1. \A q \in Requests : req'[q].pc # "commit expense"
    BY <1>2, <1>3 DEF Shares
  <2>2. \A i \in Rows : invite'[i].state # "PENDING"
    BY <1>4
  <2> QED BY <2>1, <2>2 DEF Closed
<1>13. Authority' /\ AdmitsOnce' /\ DeletionIsWhole'
  BY <1>1, <1>2, <1>3 DEF IInv, Authority, AdmitsOnce, DeletionIsWhole
<1> QED BY <1>6, <1>8, <1>9, <1>10, <1>11, <1>12, <1>13 DEF IInv, Locks

\* Every step keeps the invariant.
LEMMA NextStep == ASSUME IInv, [Next]_vars PROVE IInv'
<1>1. CASE UNCHANGED vars
  <2> USE <1>1 DEF vars
  <2>1. TypeOK'
    BY DEF IInv, TypeOK
  <2>2. OneHolder' /\ RowHeld'
    BY DEF IInv, Locks, OneHolder, RowHeld, Holds
  <2>3. HeldPending'
    BY DEF IInv, Locks, HeldPending, Holds
  <2>4. Alone'
    BY DEF IInv, Locks, Alone, Shares, Deletes, Holds
  <2>5. Consumed' /\ Closed' /\ Authority'
    BY DEF IInv, Consumed, Closed, Authority
  <2>6. AdmitsOnce' /\ DeletionIsWhole'
    BY DEF IInv, AdmitsOnce, DeletionIsWhole
  <2> QED BY <2>1, <2>2, <2>3, <2>4, <2>5, <2>6 DEF IInv, Locks
<1>2. CASE \E i \in Rows : Expire(i)
  BY <1>2, ExpireStep
<1>3. CASE \E r \in Requests : Step(r) \/ Abort(r)
  BY <1>3, MemberStep, MustBeMemberStep, LockInviteStep, AcceptMemberStep, AcceptStep,
     InvitesStep, ExpenseStep, DeletingStep, CommitDeletionStep DEF Step
<1> QED BY <1>1, <1>2, <1>3 DEF Next

\* The invariant holds initially.
LEMMA Initially == ASSUME Setting PROVE Init => IInv
<1> SUFFICES ASSUME Init PROVE IInv
  OBVIOUS
<1>1. PICK k \in Rows :
         invite = [j \in Rows |-> [state |-> IF j = k THEN "PENDING" ELSE "free", email |-> Outsider,
                                   by |-> Founder, token |-> IF j = k THEN 1 ELSE 0, current |-> TRUE]]
  BY DEF Init
<1>2. /\ group = "live" /\ spent = {} /\ admitted = {}
      /\ \A r \in Requests : req[r].pc = "idle"
  BY DEF Init
<1>3. TypeOK
  <2>1. invite \in [Rows -> Invite]
    BY <1>1 DEF Setting, Invite
  <2>2. role \in [Users -> Roles \cup {"none"}]
    BY DEF Init, Roles
  <2>3. [op |-> "none", pc |-> "idle", actor |-> Founder, rank |-> "MEMBER", target |-> Founder,
         as |-> "MEMBER", token |-> 0, row |-> NoRow, saw |-> {}] \in RequestState
    BY DEF Setting, RequestState, Places, Roles
  <2>4. req \in [Requests -> RequestState]
    BY <2>3 DEF Init
  <2> QED BY <2>1, <2>2, <2>4 DEF Init, TypeOK
<1>4. Locks
  BY <1>2 DEF Locks, OneHolder, HeldPending, RowHeld, Alone, Holds, Redeeming, Deletes
<1>5. Consumed /\ Closed /\ Authority /\ AdmitsOnce /\ DeletionIsWhole
  BY <1>2 DEF Consumed, Closed, Authority, AdmitsOnce, DeletionIsWhole
<1> QED BY <1>3, <1>4, <1>5 DEF IInv

(***************************************************************************)
(* The theorems.                                                           *)
(***************************************************************************)

(* IInv is inductive: two exclusions, by the invite's row and by the       *)
(* group's, and what they protect.                                         *)
THEOREM Inductive == ASSUME Setting PROVE Spec => []IInv
<1>1. IInv /\ [Next]_vars => IInv'
  BY NextStep
<1> QED BY <1>1, Initially, PTL DEF Spec

(* Members, invites and requests keep their types.                         *)
THEOREM TypeCorrect == ASSUME Setting PROVE Spec => []TypeOK
<1>1. IInv => TypeOK
  BY DEF IInv
<1> QED BY <1>1, Inductive, PTL

(* An invite admits one request, whether it comes by the token or by the   *)
(* id, and also when who was admitted has left in the meantime.            *)
THEOREM OneAdmission == ASSUME Setting PROVE Spec => []AdmitsOnce
<1>1. IInv => AdmitsOnce
  BY DEF IInv
<1> QED BY <1>1, Inductive, PTL

(* A deleted group has neither expenses nor members, whatever was inserted *)
(* or accepted while it was being deleted.                                 *)
THEOREM WholeDeletion == ASSUME Setting PROVE Spec => []DeletionIsWhole
<1>1. IInv => DeletionIsWhole
  BY DEF IInv
<1> QED BY <1>1, Inductive, PTL

(* Whoever joins by a token joins by the one the invite carries when the   *)
(* acceptance commits: no new invite replaced it meanwhile.                *)
THEOREM CurrentToken == ASSUME Setting PROVE Spec => TokenIsCurrent
<1> DEFINE Uses(r) ==
      (req[r].pc = "accept" /\ admitted' # admitted /\ req'[r].pc = "done") =>
         LET row == invite[req[r].row]
         IN  row.state = "PENDING" /\ (req[r].op = "AcceptInvite" => row.token = req[r].token)
<1>1. IInv => [\A r \in Requests : Uses(r)]_vars
  <2> SUFFICES ASSUME IInv, NEW r \in Requests, req[r].pc = "accept"
               PROVE  /\ invite[req[r].row].state = "PENDING"
                      /\ req[r].op = "AcceptInvite" => invite[req[r].row].token = req[r].token
    OBVIOUS
  <2>1. req[r].row \in Rows /\ Holds(r, req[r].row)
    BY DEF IInv, Locks, RowHeld, Holds, Redeeming
  <2> QED BY <2>1 DEF IInv, Locks, HeldPending
<1> QED BY <1>1, Inductive, PTL DEF Spec, TokenIsCurrent

\* Without an owner, and with nothing asked by one under way, a step makes none.
LEMMA NobodyPromotes ==
    ASSUME IInv, [Next]_vars, group = "live", \A u \in Users : role[u] # "OWNER",
           \A r \in Requests : ~AsOwner(r)
    PROVE  group' = "live" /\ \A u \in Users : role'[u] # "OWNER"
<1>1. \A r \in Requests : req[r].pc \notin {"UpdateMemberRole", "DeleteGroup", "delete group",
                                            "cascade", "commit deletion"}
  BY DEF IInv, Authority, AsOwner
<1>2. ASSUME NEW r \in Requests, AddMember(r)
      PROVE  group' = "live" /\ \A u \in Users : role'[u] # "OWNER"
  BY <1>2 DEF AddMember, Becomes, IInv, Authority, TypeOK
<1>3. ASSUME NEW r \in Requests, RemoveMember(r) \/ MarkInviteAccepted(r)
      PROVE  group' = "live" /\ \A u \in Users : role'[u] # "OWNER"
  BY <1>3 DEF RemoveMember, MarkInviteAccepted, Becomes, IInv, TypeOK
<1>4. ASSUME NEW r \in Requests, UpdateMemberRole(r) \/ CommitDeletion(r)
      PROVE  FALSE
  BY <1>1, <1>4 DEF UpdateMemberRole, CommitDeletion
<1>5. CASE UNCHANGED <<group, role>>
  BY <1>5
<1>6. CASE \E r \in Requests :
              \/ MustBeMember(r) \/ CreateInvite(r) \/ DeclineInvite(r) \/ LockInvite(r)
              \/ AcceptGroupInviteMember(r) \/ CreateExpense(r) \/ CommitExpense(r)
              \/ DeleteGroupExpenses(r) \/ DeleteGroup(r) \/ Cascade(r) \/ Refused(r) \/ Abort(r)
  BY <1>5, <1>6 DEF MustBeMember, CreateInvite, DeclineInvite, LockInvite,
     AcceptGroupInviteMember, CreateExpense, CommitExpense, DeleteGroupExpenses, DeleteGroup,
     Cascade, Refused, Abort
<1>7. CASE (\E i \in Rows : Expire(i)) \/ UNCHANGED vars
  BY <1>5, <1>7 DEF Expire, vars
<1> QED BY <1>2, <1>3, <1>4, <1>6, <1>7 DEF Next, Step

(* A group that lost its last owner stays without one and is not deleted   *)
(* any more, as soon as what owners asked before has ended: no request     *)
(* that arrives later can bring an owner back.                             *)
THEOREM NoOwnerReturns == ASSUME Setting PROVE Spec => OwnerlessForever
<1>1. IInv /\ [Next]_vars =>
        [(/\ group = "live"
          /\ \A u \in Users : role[u] # "OWNER"
          /\ \A r \in Requests : ~AsOwner(r)) => group' = "live" /\ \A u \in Users : role'[u] # "OWNER"]_vars
  BY NobodyPromotes
<1> QED BY <1>1, Inductive, PTL DEF Spec, OwnerlessForever

(***************************************************************************)
(* Friends.tla for any number of requests and of crashes: the friendship   *)
(* row of two users and the one ledger they share.                         *)
(***************************************************************************)
CONSTANTS Ann, Bob, Calls, Nobody, MaxCrashes

VARIABLES friendship, invited, ledgers, members, call, crashes, raced

F == INSTANCE Friends

\* Two users; nobody is neither a user nor a ledger.
FriendsSetting ==
    Ann # Bob /\ Nobody \notin {Ann, Bob} /\ Nobody \notin Calls /\ MaxCrashes \in Nat

\* Memberships of both, or on their way by the request that made the ledger
Joins(g) ==
    \/ \A u \in {Ann, Bob} : [group |-> g, user |-> u] \in members
    \/ call[g].pc = "add"
    \/ call[g].pc = "add other" /\ [group |-> g, user |-> Ann] \in members

\* One ledger, which is the one that every request names
OneLedger ==
    /\ \A g, h \in ledgers : g = h
    /\ \A r \in Calls : call[r].ledger # Nobody => call[r].ledger \in ledgers
    /\ \A r \in Calls : call[r].pc \in {"add", "add other"} => call[r].ledger = r
    /\ crashes = 0 => \A g \in ledgers : Joins(g)

\* While one request is between the two statements of a block, nothing else has made a
\* row, and nobody else is there.
OneBlock ==
    ~raced => \A r \in Calls : call[r].pc = "block" =>
                 /\ friendship = F!NoFriendship
                 /\ \A q \in Calls : call[q].pc = "block" => q = r

FriendsInv == F!TypeOK /\ OneLedger /\ OneBlock

\* The invariant holds before the first request.
LEMMA FriendsInit == ASSUME FriendsSetting, F!Init PROVE FriendsInv
<1>1. F!TypeOK
  <2>1. friendship \in [status : {"none", "PENDING", "ACCEPTED", "BLOCKED"}, by : F!Pair \cup {Nobody}]
    BY DEF F!Init, F!NoFriendship, F!Pair
  <2>2. call \in [Calls -> F!Call]
    BY DEF F!Init, F!Call, F!Pair
  <2>3. invited \in BOOLEAN /\ raced \in BOOLEAN /\ crashes \in 0..MaxCrashes
    <3>1. invited \in BOOLEAN /\ raced = FALSE /\ crashes = 0
      BY DEF F!Init
    <3>2. MaxCrashes \in Nat
      BY DEF FriendsSetting
    <3>3. crashes \in 0..MaxCrashes
      BY <3>1, <3>2
    <3>4. raced \in BOOLEAN
      BY <3>1, Zenon
    <3> QED BY <3>1, <3>3, <3>4
  <2>4. ledgers = {} /\ members = {}
    BY DEF F!Init
  <2> QED BY <2>1, <2>2, <2>3, <2>4 DEF F!TypeOK
<1>2. OneLedger /\ OneBlock
  BY DEF F!Init, OneLedger, OneBlock
<1> QED BY <1>1, <1>2 DEF FriendsInv

\* What one request's step makes of the requests
LEMMA CallIs ==
  ASSUME FriendsInv, NEW r \in Calls, NEW c, call' = [call EXCEPT ![r] = c]
  PROVE  call'[r] = c /\ \A q \in Calls : q # r => call'[q] = call[q]
  BY DEF FriendsInv, F!TypeOK

\* A request arrives: only the friendship changes.
Arrival(r, op, u, pc) ==
    /\ call[r].pc = "idle" /\ F!Begin(r, op, u, pc)
    /\ u \in {Ann, Bob} /\ op \in F!Ops /\ pc \in {"insert", "find", "done"}
    /\ UNCHANGED <<ledgers, members, crashes>> /\ invited' \in BOOLEAN

\* The row is one that the statements make, and a block under way is noticed.
RowChange ==
    /\ friendship' \in [status : {"none", "PENDING", "ACCEPTED", "BLOCKED"}, by : {Ann, Bob, Nobody}]
    /\ raced' \in BOOLEAN
    /\ \/ friendship' = friendship /\ raced' = raced
       \/ raced' = raced /\ friendship # F!NoFriendship
       \/ raced' = (raced \/ \E q \in Calls : call[q].pc = "block")

\* A request that arrives keeps the invariant.
LEMMA ArrivalKeeps ==
  ASSUME FriendsSetting, FriendsInv, NEW r \in Calls, NEW op, NEW u, NEW pc,
         Arrival(r, op, u, pc), RowChange
  PROVE  FriendsInv'
<1> DEFINE c == [op |-> op, pc |-> pc, actor |-> u, ledger |-> Nobody]
<1>1. call' = [call EXCEPT ![r] = c] /\ c.pc = pc /\ c.ledger = Nobody /\ c \in F!Call
  BY DEF Arrival, F!Begin, F!Call, F!Pair
<1>2. /\ ledgers' = ledgers /\ members' = members /\ crashes' = crashes
      /\ pc \in {"insert", "find", "done"} /\ call[r].pc = "idle" /\ invited' \in BOOLEAN
  BY DEF Arrival
<1> HIDE DEF c
<1>3. call'[r] = c /\ \A q \in Calls : q # r => call'[q] = call[q]
  BY <1>1, CallIs
<1>4. F!TypeOK'
  BY <1>1, <1>2 DEF FriendsInv, F!TypeOK, RowChange, F!Pair
<1>5. OneLedger'
  <2>1. \A g \in ledgers : g \in Calls
    BY DEF FriendsInv, F!TypeOK
  <2>2. \A q \in Calls : call'[q].ledger # Nobody => call'[q].ledger \in ledgers
    BY <1>1, <1>3 DEF FriendsInv, OneLedger
  <2>3. \A q \in Calls : call'[q].pc \in {"add", "add other"} => call'[q].ledger = q
    BY <1>1, <1>2, <1>3 DEF FriendsInv, OneLedger
  <2>4. crashes = 0 => \A g \in ledgers : Joins(g)'
    BY <1>1, <1>2, <1>3, <2>1 DEF FriendsInv, OneLedger, Joins
  <2> QED BY <1>2, <2>2, <2>3, <2>4 DEF FriendsInv, OneLedger
<1>6. OneBlock'
  <2>1. \A q \in Calls : call'[q].pc = "block" => call[q].pc = "block"
    BY <1>1, <1>2, <1>3
  <2> QED BY <2>1 DEF FriendsInv, OneBlock, RowChange, F!NoFriendship
<1> QED BY <1>4, <1>5, <1>6 DEF FriendsInv

\* What a request that goes to another statement makes of the requests
LEMMA GotoIs ==
  ASSUME FriendsInv, NEW r \in Calls, NEW pc, F!Goto(r, pc)
  PROVE  call'[r] = [call[r] EXCEPT !.pc = pc] /\ \A q \in Calls : q # r => call'[q] = call[q]
<1>1. call' = [call EXCEPT ![r] = [call[r] EXCEPT !.pc = pc]]
  BY DEF F!Goto
<1> QED BY <1>1, CallIs

\* A request that leaves ledgers and memberships alone, and names no other ledger, keeps
\* the one ledger.
LEMMA NothingAdded ==
  ASSUME FriendsInv, NEW r \in Calls, NEW c, call'[r] = c /\ \A q \in Calls : q # r => call'[q] = call[q],
         ledgers' = ledgers, members' = members, crashes' = crashes,
         c.pc \notin {"add", "add other"}, call[r].pc \notin {"add", "add other"},
         c.ledger # Nobody => c.ledger \in ledgers
  PROVE  OneLedger'
<1>1. \A g \in ledgers : g \in Calls
  BY DEF FriendsInv, F!TypeOK
<1>2. \A q \in Calls : call'[q].ledger # Nobody => call'[q].ledger \in ledgers
  BY DEF FriendsInv, OneLedger
<1>3. \A q \in Calls : call'[q].pc \in {"add", "add other"} => call'[q].ledger = q
  BY DEF FriendsInv, OneLedger
<1>4. crashes = 0 => \A g \in ledgers : Joins(g)'
  BY <1>1 DEF FriendsInv, OneLedger, Joins
<1> QED BY <1>2, <1>3, <1>4 DEF FriendsInv, OneLedger

\* A request ends that did not add members.
LEMMA EndTypes ==
  ASSUME FriendsSetting, FriendsInv, NEW r \in Calls, NEW pc \in {"done", "failed"}, F!Goto(r, pc),
         call[r].pc \in {"insert", "create", "block"},
         UNCHANGED <<invited, ledgers, members, crashes>>, raced' \in BOOLEAN,
         friendship' \in [status : {"none", "PENDING", "ACCEPTED", "BLOCKED"}, by : {Ann, Bob, Nobody}]
  PROVE  F!TypeOK' /\ OneLedger'
<1> DEFINE c == [call[r] EXCEPT !.pc = pc]
<1>1. call \in [Calls -> F!Call]
  BY DEF FriendsInv, F!TypeOK
<1>2. call' = [call EXCEPT ![r] = c] /\ c \in F!Call /\ c.pc = pc /\ c.ledger = call[r].ledger
  BY <1>1 DEF F!Goto, F!Call
<1> HIDE DEF c
<1>3. call'[r] = c /\ \A q \in Calls : q # r => call'[q] = call[q]
  BY <1>1, <1>2
<1>4. c.ledger # Nobody => c.ledger \in ledgers
  BY <1>2 DEF FriendsInv, OneLedger
<1>5. OneLedger'
  BY <1>2, <1>3, <1>4, NothingAdded
<1>6. F!TypeOK'
  BY <1>1, <1>2 DEF FriendsInv, F!TypeOK, F!Pair
<1> QED BY <1>5, <1>6

\* A request ends whose statement, if it wrote the row, has been noticed.
LEMMA EndKeeps ==
  ASSUME FriendsSetting, FriendsInv, NEW r \in Calls, NEW pc \in {"done", "failed"}, F!Goto(r, pc),
         call[r].pc \in {"insert", "create"}, UNCHANGED <<invited, ledgers, members, crashes>>, RowChange
  PROVE  FriendsInv'
<1>1. F!TypeOK' /\ OneLedger'
  BY EndTypes DEF RowChange
<1>2. call'[r] = [call[r] EXCEPT !.pc = pc] /\ \A q \in Calls : q # r => call'[q] = call[q]
  BY GotoIs
<1>3. \A q \in Calls : call'[q].pc = "block" => call[q].pc = "block"
  <2>1. call[r] \in F!Call
    BY DEF FriendsInv, F!TypeOK
  <2>2. call'[r].pc = pc
    BY <1>2, <2>1 DEF F!Call
  <2> QED BY <1>2, <2>2
<1>4. OneBlock'
  BY <1>3 DEF FriendsInv, OneBlock, RowChange, F!NoFriendship
<1> QED BY <1>1, <1>4 DEF FriendsInv

\* Every step keeps the invariant.
LEMMA FriendsStep == ASSUME FriendsSetting, FriendsInv, [F!Next]_(F!vars) PROVE FriendsInv'
<1> USE DEF F!Arrives
<1>0. /\ friendship \in [status : {"none", "PENDING", "ACCEPTED", "BLOCKED"}, by : {Ann, Bob, Nobody}]
      /\ raced \in BOOLEAN /\ invited \in BOOLEAN /\ call \in [Calls -> F!Call]
  BY DEF FriendsInv, F!TypeOK, F!Pair
<1>1. ASSUME NEW r \in Calls, F!SendRequest(r) PROVE FriendsInv'
  <2>1. PICK u \in {Ann, Bob} : F!Begin(r, "SendRequest", u, "insert")
    BY <1>1 DEF F!SendRequest, F!Pair
  <2>2. Arrival(r, "SendRequest", u, "insert") /\ RowChange
    BY <1>0, <1>1, <2>1 DEF F!SendRequest, Arrival, RowChange, F!Ops
  <2> QED BY <2>2, ArrivalKeeps
<1>2. ASSUME NEW r \in Calls, F!Accept(r) PROVE FriendsInv'
  <2>1. PICK u \in {Ann, Bob} : F!Answerable(u) /\ F!Begin(r, "Accept", u, "find")
    BY <1>2 DEF F!Accept, F!Pair
  <2>2. friendship' = [friendship EXCEPT !.status = "ACCEPTED"] /\ raced' = raced /\ invited' = invited
    BY <1>0, <1>2 DEF F!Accept, F!Writes, F!Intrudes
  <2>3. friendship # F!NoFriendship
    BY <2>1 DEF F!Answerable, F!NoFriendship
  <2>4. Arrival(r, "Accept", u, "find") /\ RowChange
    BY <1>0, <1>2, <2>1, <2>2, <2>3 DEF F!Accept, Arrival, RowChange, F!Ops
  <2> QED BY <2>4, ArrivalKeeps
<1>3. ASSUME NEW r \in Calls, F!Reject(r) PROVE FriendsInv'
  <2>1. PICK u \in {Ann, Bob} : F!Answerable(u) /\ F!Begin(r, "Reject", u, "done")
    BY <1>3 DEF F!Reject, F!Pair
  <2>2. friendship' = F!NoFriendship /\ raced' = raced /\ invited' = invited
    BY <1>0, <1>3 DEF F!Reject, F!Writes, F!Intrudes
  <2>3. friendship # F!NoFriendship
    BY <2>1 DEF F!Answerable, F!NoFriendship
  <2>4. Arrival(r, "Reject", u, "done") /\ RowChange
    BY <1>0, <1>3, <2>1, <2>2, <2>3 DEF F!Reject, Arrival, RowChange, F!Ops, F!NoFriendship
  <2> QED BY <2>4, ArrivalKeeps
<1>4. ASSUME NEW r \in Calls, F!Remove(r) PROVE FriendsInv'
  <2>1. PICK u \in {Ann, Bob} : F!Begin(r, "Remove", u, "done")
    BY <1>4 DEF F!Remove, F!Pair
  <2>2. friendship' = F!NoFriendship /\ raced' = raced /\ invited' = invited
        /\ friendship # F!NoFriendship
    BY <1>0, <1>4 DEF F!Remove, F!Writes, F!Intrudes
  <2>4. Arrival(r, "Remove", u, "done") /\ RowChange
    BY <1>0, <1>4, <2>1, <2>2 DEF F!Remove, Arrival, RowChange, F!Ops, F!NoFriendship
  <2> QED BY <2>4, ArrivalKeeps
<1>5. ASSUME NEW r \in Calls, F!InviteByEmail(r) PROVE FriendsInv'
  <2>1. PICK u \in {Ann, Bob} : F!Begin(r, "InviteByEmail", u, "done") /\ F!Writes(F!Upserted(u), "InviteByEmail")
    BY <1>5 DEF F!InviteByEmail, F!Pair
  <2>2. Arrival(r, "InviteByEmail", u, "done") /\ RowChange
    BY <1>0, <1>5, <2>1 DEF F!InviteByEmail, Arrival, RowChange, F!Ops, F!Writes, F!Upserted, F!Intrudes
  <2> QED BY <2>2, ArrivalKeeps
<1>6. ASSUME NEW r \in Calls, F!AcceptEmailInvite(r) PROVE FriendsInv'
  <2>1. friendship' = F!UpsertedNoAction(Ann) /\ raced' = (raced \/ \E q \in Calls : call[q].pc = "block")
    BY <1>6 DEF F!AcceptEmailInvite, F!Writes, F!Intrudes
  <2>2. friendship' \in [status : {"none", "PENDING", "ACCEPTED", "BLOCKED"}, by : {Ann, Bob, Nobody}]
    BY <1>0, <2>1 DEF F!UpsertedNoAction
  <2>3. Arrival(r, "AcceptEmailInvite", Bob, "done") /\ RowChange
    BY <1>0, <1>6, <2>1, <2>2 DEF F!AcceptEmailInvite, Arrival, RowChange, F!Ops
  <2> QED BY <2>3, ArrivalKeeps
<1>7. ASSUME NEW r \in Calls, F!EnsureFriendship(r) PROVE FriendsInv'
  <2>1. PICK u \in {Ann, Bob} : /\ F!Begin(r, "AcceptInvite", u, "done")
                                /\ F!Writes(F!Upserted(CHOOSE v \in F!Pair : v # u), "AcceptInvite")
    BY <1>7 DEF F!EnsureFriendship, F!Pair
  <2> DEFINE w == CHOOSE v \in F!Pair : v # u
  <2>2. w \in {Ann, Bob}
    BY DEF FriendsSetting, F!Pair
  <2> HIDE DEF w
  <2>3. friendship' = [status |-> "ACCEPTED", by |-> w] /\ raced' = (raced \/ \E q \in Calls : call[q].pc = "block")
    BY <2>1 DEF F!Writes, F!Upserted, F!Intrudes, w
  <2>4. Arrival(r, "AcceptInvite", u, "done") /\ RowChange
    BY <1>0, <1>7, <2>1, <2>2, <2>3 DEF F!EnsureFriendship, Arrival, RowChange, F!Ops
  <2> QED BY <2>4, ArrivalKeeps
<1>8. ASSUME NEW r \in Calls, F!GetLedger(r) PROVE FriendsInv'
  <2>1. PICK u \in {Ann, Bob} : F!Begin(r, "GetLedger", u, "find")
    BY <1>8 DEF F!GetLedger, F!Pair
  <2>2. Arrival(r, "GetLedger", u, "find") /\ RowChange
    BY <1>0, <1>8, <2>1 DEF F!GetLedger, Arrival, RowChange, F!Ops
  <2> QED BY <2>2, ArrivalKeeps
<1>9. ASSUME NEW r \in Calls, F!Block(r) PROVE FriendsInv'
  <2>1. PICK u \in {Ann, Bob} : F!Begin(r, "Block", u, "block")
    BY <1>9 DEF F!Block, F!Pair
  <2>2. /\ friendship' = F!NoFriendship /\ invited' = invited /\ call[r].pc = "idle"
        /\ raced' = (raced \/ \E q \in Calls : call[q].pc = "block")
        /\ ledgers' = ledgers /\ members' = members /\ crashes' = crashes
    BY <1>9 DEF F!Block, F!Writes, F!Intrudes
  <2> DEFINE c == [op |-> "Block", pc |-> "block", actor |-> u, ledger |-> Nobody]
  <2>3. call' = [call EXCEPT ![r] = c] /\ c.pc = "block" /\ c.ledger = Nobody /\ c \in F!Call
    BY <2>1 DEF F!Begin, F!Call, F!Pair, F!Ops
  <2> HIDE DEF c
  <2>4. call'[r] = c /\ \A q \in Calls : q # r => call'[q] = call[q]
    BY <2>3, CallIs
  <2>5. F!TypeOK'
    BY <1>0, <2>2, <2>3 DEF FriendsInv, F!TypeOK, F!NoFriendship, F!Pair
  <2>6. OneLedger'
    BY <2>2, <2>3, <2>4, NothingAdded
  <2>7. OneBlock'
    <3>1. ASSUME ~raced', NEW q \in Calls, call'[q].pc = "block" PROVE q = r
      BY <2>2, <2>4, <3>1
    <3> QED BY <2>2, <3>1 DEF OneBlock, F!NoFriendship
  <2> QED BY <2>5, <2>6, <2>7 DEF FriendsInv
<1>10. ASSUME NEW r \in Calls, F!SendFriendRequest(r) PROVE FriendsInv'
  <2>1. /\ call[r].pc = "insert"
        /\ UNCHANGED <<invited, ledgers, members, crashes>>
        /\ \E pc \in {"done", "failed"} : F!Goto(r, pc)
        /\ RowChange
    <3>1. /\ call[r].pc = "insert" /\ UNCHANGED <<invited, ledgers, members, crashes>>
          /\ \E pc \in {"done", "failed"} : F!Goto(r, pc)
      BY <1>10 DEF F!SendFriendRequest
    <3>2. CASE friendship = F!NoFriendship
      <4>1. friendship' = [status |-> "PENDING", by |-> call[r].actor]
            /\ raced' = (raced \/ \E q \in Calls : call[q].pc = "block")
        BY <1>10, <3>2 DEF F!SendFriendRequest, F!Writes, F!Sent, F!Intrudes
      <4>2. call[r].actor \in {Ann, Bob}
        BY <1>0 DEF F!Call, F!Pair
      <4> QED BY <3>1, <4>1, <4>2 DEF RowChange
    <3>3. CASE friendship # F!NoFriendship
      BY <1>0, <1>10, <3>1, <3>3 DEF F!SendFriendRequest, RowChange
    <3> QED BY <3>2, <3>3
  <2> QED BY <1>0, <2>1, EndKeeps DEF FriendsInv, F!TypeOK
<1>11. ASSUME NEW r \in Calls, F!BlockUser(r) PROVE FriendsInv'
  <2>1. /\ call[r].pc = "block" /\ F!Goto(r, "done") /\ raced' = raced
        /\ UNCHANGED <<invited, ledgers, members, crashes>>
        /\ friendship' \in [status : {"none", "PENDING", "ACCEPTED", "BLOCKED"}, by : {Ann, Bob, Nobody}]
    BY <1>0, <1>11 DEF F!BlockUser, F!Blocked, F!Call, F!Pair
  <2>2. F!TypeOK' /\ OneLedger'
    BY <1>0, <2>1, EndTypes
  <2>3. call'[r] = [call[r] EXCEPT !.pc = "done"] /\ \A q \in Calls : q # r => call'[q] = call[q]
    BY <2>1, GotoIs
  <2>4. OneBlock'
    <3>1. call'[r].pc = "done"
      <4>1. call[r] \in F!Call
        BY <1>0
      <4> QED BY <2>3, <4>1 DEF F!Call
    <3> SUFFICES ASSUME ~raced', NEW q \in Calls, call'[q].pc = "block" PROVE FALSE
      BY DEF OneBlock
    <3>2. call[q].pc = "block" /\ q # r
      BY <2>3, <3>1
    <3> QED BY <2>1, <3>2 DEF FriendsInv, OneBlock
  <2> QED BY <2>2, <2>4 DEF FriendsInv
<1>12. ASSUME NEW r \in Calls, F!GetDirectGroupByKey(r) PROVE FriendsInv'
  <2>1. /\ call[r].pc = "find"
        /\ UNCHANGED <<friendship, invited, ledgers, members, crashes, raced>>
    BY <1>12 DEF F!GetDirectGroupByKey
  <2>2. PICK c \in F!Call :
           /\ call' = [call EXCEPT ![r] = c] /\ c.pc \in {"create", "done"}
           /\ c.ledger = call[r].ledger \/ c.ledger \in ledgers
    <3>1. CASE ledgers = {}
      <4>1. [call[r] EXCEPT !.pc = "create"] \in F!Call /\ call' = [call EXCEPT ![r] = [call[r] EXCEPT !.pc = "create"]]
        BY <1>0, <1>12, <3>1 DEF F!GetDirectGroupByKey, F!Goto, F!Call
      <4> QED BY <1>0, <4>1 DEF F!Call
    <3>2. CASE ledgers # {}
      <4>1. PICK g \in ledgers : call' = [call EXCEPT ![r].pc = "done", ![r].ledger = g]
        BY <1>12, <3>2 DEF F!GetDirectGroupByKey
      <4>2. g \in Calls
        BY DEF FriendsInv, F!TypeOK
      <4> DEFINE d == [call[r] EXCEPT !.pc = "done", !.ledger = g]
      <4>3. d \in F!Call /\ call' = [call EXCEPT ![r] = d] /\ d.pc = "done" /\ d.ledger = g
        BY <1>0, <4>1, <4>2 DEF F!Call
      <4> HIDE DEF d
      <4> QED BY <4>3
    <3> QED BY <3>1, <3>2
  <2>3. call'[r] = c /\ \A q \in Calls : q # r => call'[q] = call[q]
    BY <2>2, CallIs
  <2>4. F!TypeOK'
    BY <1>0, <2>1, <2>2 DEF FriendsInv, F!TypeOK
  <2>5. OneLedger'
    BY <2>1, <2>2, <2>3, NothingAdded DEF FriendsInv, OneLedger
  <2>6. OneBlock'
    BY <2>1, <2>2, <2>3 DEF FriendsInv, OneBlock, F!NoFriendship
  <2> QED BY <2>4, <2>5, <2>6 DEF FriendsInv
<1>13. ASSUME NEW r \in Calls, F!CreateDirectGroup(r) PROVE FriendsInv'
  <2>1. /\ call[r].pc = "create"
        /\ UNCHANGED <<friendship, invited, members, crashes, raced>>
    BY <1>13 DEF F!CreateDirectGroup
  <2>2. CASE F!KeyTaken
    <3>1. F!Goto(r, "failed") /\ ledgers' = ledgers /\ RowChange
      BY <1>0, <1>13, <2>1, <2>2 DEF F!CreateDirectGroup, RowChange
    <3> QED BY <1>0, <2>1, <3>1, EndKeeps
  <2>3. CASE ~F!KeyTaken
    <3> DEFINE c == [call[r] EXCEPT !.pc = "add", !.ledger = r]
    <3>1. ledgers = {} /\ ledgers' = {r} /\ call' = [call EXCEPT ![r] = c]
      BY <1>0, <1>13, <2>3 DEF F!CreateDirectGroup, F!KeyTaken
    <3>2. c \in F!Call /\ c.pc = "add" /\ c.ledger = r
      BY <1>0 DEF F!Call
    <3> HIDE DEF c
    <3>3. call'[r] = c /\ \A q \in Calls : q # r => call'[q] = call[q]
      BY <3>1, CallIs
    <3>4. F!TypeOK'
      BY <1>0, <2>1, <3>1, <3>2 DEF FriendsInv, F!TypeOK
    <3>5. OneLedger'
      <4>1. \A q \in Calls : q # r => call[q].ledger = Nobody /\ call[q].pc \notin {"add", "add other"}
        BY <3>1 DEF FriendsInv, OneLedger, FriendsSetting
      <4>2. \A q \in Calls : call'[q].ledger # Nobody => call'[q].ledger \in ledgers'
        <5> SUFFICES ASSUME NEW q \in Calls PROVE call'[q].ledger # Nobody => call'[q].ledger \in ledgers'
          OBVIOUS
        <5>1. r \in ledgers'
          BY <3>1
        <5> QED BY <3>2, <3>3, <4>1, <5>1
      <4>3. \A q \in Calls : call'[q].pc \in {"add", "add other"} => call'[q].ledger = q
        BY <3>2, <3>3, <4>1
      <4>4. Joins(r)'
        BY <3>2, <3>3 DEF Joins
      <4> QED BY <3>1, <4>2, <4>3, <4>4 DEF OneLedger
    <3>6. OneBlock'
      BY <2>1, <3>2, <3>3 DEF FriendsInv, OneBlock, F!NoFriendship
    <3> QED BY <3>4, <3>5, <3>6 DEF FriendsInv
  <2> QED BY <2>2, <2>3
<1>14. ASSUME NEW r \in Calls, F!AddDirectGroupMember(r) PROVE FriendsInv'
  <2>1. /\ call[r].pc \in {"add", "add other"} /\ F!Goto(r, F!NextMember(call[r].pc))
        /\ members' = members \cup {[group |-> call[r].ledger, user |-> IF call[r].pc = "add" THEN Ann ELSE Bob]}
        /\ UNCHANGED <<friendship, invited, ledgers, crashes, raced>>
    BY <1>14 DEF F!AddDirectGroupMember
  <2>2. call[r].ledger = r
    BY <2>1 DEF FriendsInv, OneLedger
  <2>3. r \in ledgers
    BY <2>2 DEF FriendsInv, OneLedger, FriendsSetting
  <2> DEFINE c == [call[r] EXCEPT !.pc = F!NextMember(call[r].pc)]
  <2>4. /\ call' = [call EXCEPT ![r] = c] /\ c \in F!Call
        /\ c.pc = (IF call[r].pc = "add" THEN "add other" ELSE "done") /\ c.ledger = r
    BY <1>0, <2>1, <2>2 DEF F!Goto, F!NextMember, F!Call
  <2> HIDE DEF c
  <2>5. call'[r] = c /\ \A q \in Calls : q # r => call'[q] = call[q]
    BY <2>4, CallIs
  <2>6. F!TypeOK'
    <3>1. [group |-> call[r].ledger, user |-> IF call[r].pc = "add" THEN Ann ELSE Bob]
             \in [group : Calls, user : F!Pair]
      BY <2>2 DEF F!Pair
    <3>2. members' \subseteq [group : Calls, user : F!Pair]
      BY <2>1, <3>1 DEF FriendsInv, F!TypeOK
    <3> QED BY <1>0, <2>1, <2>4, <3>2 DEF FriendsInv, F!TypeOK
  <2>7. OneLedger'
    <3>1. \A g, h \in ledgers' : g = h
      BY <2>1 DEF FriendsInv, OneLedger
    <3>2. \A q \in Calls : call'[q].ledger # Nobody => call'[q].ledger \in ledgers'
      <4>1. \A q \in Calls : call[q].ledger # Nobody => call[q].ledger \in ledgers
        BY DEF FriendsInv, OneLedger
      <4> SUFFICES ASSUME NEW q \in Calls PROVE call'[q].ledger # Nobody => call'[q].ledger \in ledgers'
        OBVIOUS
      <4>2. ledgers' = ledgers /\ r \in ledgers'
        BY <2>1, <2>3
      <4>3. CASE q = r
        <5>1. call'[q].ledger = r
          BY <2>4, <2>5, <4>3
        <5> QED BY <4>2, <5>1
      <4>4. CASE q # r
        BY <2>5, <4>1, <4>2, <4>4
      <4> QED BY <4>3, <4>4
    <3>3. \A q \in Calls : call'[q].pc \in {"add", "add other"} => call'[q].ledger = q
      <4>1. \A q \in Calls : call[q].pc \in {"add", "add other"} => call[q].ledger = q
        BY DEF FriendsInv, OneLedger
      <4> QED BY <2>4, <2>5, <4>1
    <3>4. ASSUME crashes' = 0, NEW g \in ledgers' PROVE Joins(g)'
      <4>1. g = r /\ Joins(r)
        BY <2>1, <2>3, <3>4 DEF FriendsInv, OneLedger
      <4> QED BY <2>1, <2>2, <2>4, <2>5, <4>1 DEF Joins
    <3> QED BY <3>1, <3>2, <3>3, <3>4 DEF OneLedger
  <2>8. OneBlock'
    <3>1. \A q \in Calls : call'[q].pc = "block" => call[q].pc = "block"
      BY <2>4, <2>5
    <3> QED BY <2>1, <3>1 DEF FriendsInv, OneBlock, F!NoFriendship
  <2> QED BY <2>6, <2>7, <2>8 DEF FriendsInv
<1>15. ASSUME NEW r \in Calls, F!Crash(r) PROVE FriendsInv'
  <2>1. /\ F!Goto(r, "failed") /\ crashes' = crashes + 1 /\ crashes' \in 1..MaxCrashes
        /\ UNCHANGED <<friendship, invited, ledgers, members, raced>>
    BY <1>15 DEF F!Crash, FriendsInv, F!TypeOK, FriendsSetting
  <2>2. call'[r] = [call[r] EXCEPT !.pc = "failed"] /\ \A q \in Calls : q # r => call'[q] = call[q]
    BY <2>1, GotoIs
  <2>3. [call[r] EXCEPT !.pc = "failed"] \in F!Call /\ call' = [call EXCEPT ![r] = [call[r] EXCEPT !.pc = "failed"]]
    BY <1>0, <2>1 DEF F!Call, F!Goto
  <2>4. F!TypeOK'
    BY <1>0, <2>1, <2>3 DEF FriendsInv, F!TypeOK, FriendsSetting
  <2>5. ASSUME NEW q \in Calls
        PROVE  /\ call'[q].ledger = call[q].ledger
               /\ call'[q].pc \in {"add", "add other", "block"} => call'[q].pc = call[q].pc
    <3>1. CASE q = r
      <4>1. call[r] \in F!Call
        BY <1>0
      <4>2. call'[q].ledger = call[q].ledger /\ call'[q].pc = "failed"
        BY <2>2, <3>1, <4>1 DEF F!Call
      <4> QED BY <4>2
    <3>2. CASE q # r
      BY <2>2, <3>2
    <3> QED BY <3>1, <3>2
  <2>6. OneLedger'
    <3>1. \A g, h \in ledgers : g = h
      BY DEF FriendsInv, OneLedger
    <3>2. crashes' # 0
      BY <2>1
    <3> QED BY <2>1, <2>5, <3>1, <3>2 DEF FriendsInv, OneLedger
  <2>7. OneBlock'
    <3>1. \A q \in Calls : call'[q].pc = "block" => call[q].pc = "block"
      BY <2>5
    <3> QED BY <2>1, <3>1 DEF FriendsInv, OneBlock, F!NoFriendship
  <2> QED BY <2>4, <2>6, <2>7 DEF FriendsInv
<1>16. CASE UNCHANGED F!vars
  BY <1>16 DEF F!vars, FriendsInv, F!TypeOK, OneLedger, Joins, OneBlock, F!NoFriendship
<1> QED
  BY <1>1, <1>2, <1>3, <1>4, <1>5, <1>6, <1>7, <1>8, <1>9, <1>10, <1>11, <1>12, <1>13,
     <1>14, <1>15, <1>16 DEF F!Next

\* The inductive invariant of the friendship and the ledger
THEOREM FriendsInductive == ASSUME FriendsSetting PROVE F!Spec => []FriendsInv
<1>1. F!Init => FriendsInv
  BY FriendsInit
<1>2. FriendsInv /\ [F!Next]_(F!vars) => FriendsInv'
  BY FriendsStep
<1> QED BY <1>1, <1>2, PTL DEF F!Spec

(* Two friends never get two ledgers: every request that is answered with  *)
(* one names the same, however their first requests race.                  *)
THEOREM SameLedger == ASSUME FriendsSetting PROVE F!Spec => []F!SameLedger
<1>1. FriendsInv => F!SameLedger
  BY DEF FriendsInv, OneLedger, F!SameLedger
<1> QED BY <1>1, FriendsInductive, PTL

(* As long as no process dies, the ledger ends with both friends in it.    *)
THEOREM LedgerComplete == ASSUME FriendsSetting PROVE F!Spec => []F!LedgerComplete
<1>1. ASSUME FriendsInv PROVE F!LedgerComplete
  <2> SUFFICES ASSUME crashes = 0, \A r \in Calls : call[r].pc \in {"idle", "done", "failed"},
                      NEW g \in ledgers, NEW u \in {Ann, Bob}
               PROVE  [group |-> g, user |-> u] \in members
    BY DEF F!LedgerComplete, F!Pair
  <2>1. g \in Calls /\ Joins(g)
    BY <1>1 DEF FriendsInv, F!TypeOK, OneLedger
  <2> QED BY <2>1 DEF Joins
<1> QED BY <1>1, FriendsInductive, PTL

\* What undoes a block
Undoing == {"Remove", "Block", "InviteByEmail", "AcceptEmailInvite", "AcceptInvite"}

\* A request between the two statements of a block ends with the second.
LEMMA WhoBlocks ==
  ASSUME FriendsInv, F!Next, NEW r \in Calls, call[r].pc = "block", call'[r].pc = "done"
  PROVE  F!BlockUser(r)
<1>0. call \in [Calls -> F!Call]
  BY DEF FriendsInv, F!TypeOK
<1>1. ASSUME NEW q \in Calls, NEW c, call' = [call EXCEPT ![q] = c] PROVE q = r
  BY <1>1, CallIs
<1>2. ASSUME NEW q \in Calls, NEW op, NEW u, NEW pc, F!Begin(q, op, u, pc) PROVE q = r
  BY <1>1, <1>2 DEF F!Begin
<1>3. ASSUME NEW q \in Calls, NEW pc, F!Goto(q, pc) PROVE q = r
  BY <1>3, GotoIs
<1>4. ASSUME NEW q \in Calls, F!Arrives(q) PROVE q # r
  BY <1>4 DEF F!Arrives
<1>5. PICK q \in Calls :
        \/ F!SendRequest(q) \/ F!SendFriendRequest(q) \/ F!Accept(q) \/ F!Reject(q) \/ F!Remove(q) \/ F!Block(q)
        \/ F!BlockUser(q) \/ F!InviteByEmail(q) \/ F!AcceptEmailInvite(q) \/ F!EnsureFriendship(q) \/ F!GetLedger(q)
        \/ F!GetDirectGroupByKey(q) \/ F!CreateDirectGroup(q) \/ F!AddDirectGroupMember(q) \/ F!Crash(q)
  BY DEF F!Next
<1>6. ASSUME F!Arrives(q), NEW op, NEW u, NEW pc, F!Begin(q, op, u, pc) PROVE FALSE
  BY <1>2, <1>4, <1>6
<1>7. CASE F!BlockUser(q)
  BY <1>3, <1>7 DEF F!BlockUser
<1>8. CASE F!Crash(q)
  <2>1. q = r
    BY <1>3, <1>8 DEF F!Crash
  <2>2. call'[r] = [call[r] EXCEPT !.pc = "failed"]
    BY <1>8, <2>1, GotoIs DEF F!Crash
  <2> QED BY <1>0, <2>2 DEF F!Call
<1>9. CASE F!SendFriendRequest(q)
  <2>1. q = r
    BY <1>3, <1>9 DEF F!SendFriendRequest
  <2> QED BY <1>9, <2>1 DEF F!SendFriendRequest
<1>10. CASE F!GetDirectGroupByKey(q)
  <2>1. q # r
    BY <1>10 DEF F!GetDirectGroupByKey
  <2>2. call'[r] = call[r]
    BY <1>0, <1>10, <2>1 DEF F!GetDirectGroupByKey, F!Goto
  <2> QED BY <2>2
<1>11. CASE F!CreateDirectGroup(q)
  <2>1. q # r
    BY <1>11 DEF F!CreateDirectGroup
  <2>2. call'[r] = call[r]
    BY <1>0, <1>11, <2>1 DEF F!CreateDirectGroup, F!Goto
  <2> QED BY <2>2
<1>12. CASE F!AddDirectGroupMember(q)
  <2>1. q # r
    BY <1>12 DEF F!AddDirectGroupMember
  <2>2. q = r
    BY <1>3, <1>12 DEF F!AddDirectGroupMember
  <2> QED BY <2>1, <2>2
<1>13. CASE F!SendRequest(q)
  BY <1>6, <1>13, Zenon DEF F!SendRequest
<1>14. CASE F!Accept(q) \/ F!Reject(q)
  BY <1>6, <1>14, Zenon DEF F!Accept, F!Reject
<1>15. CASE F!Remove(q) \/ F!Block(q)
  BY <1>6, <1>15, Zenon DEF F!Remove, F!Block
<1>16. CASE F!InviteByEmail(q) \/ F!AcceptEmailInvite(q)
  BY <1>6, <1>16, Zenon DEF F!InviteByEmail, F!AcceptEmailInvite
<1>17. CASE F!EnsureFriendship(q) \/ F!GetLedger(q)
  BY <1>6, <1>17, Zenon DEF F!EnsureFriendship, F!GetLedger
<1> QED BY <1>5, <1>7, <1>8, <1>9, <1>10, <1>11, <1>12, <1>13, <1>14, <1>15, <1>16, <1>17

\* Accepting and rejecting want a request, sending wants no row, and the second statement
\* of a block finds none or leaves it: a block is written by others only.
LEMMA WhoUnblocks ==
  ASSUME F!Next, friendship.status = "BLOCKED", friendship' # friendship
  PROVE  \E r \in Calls :
           \/ F!Remove(r) \/ F!Block(r) \/ F!InviteByEmail(r) \/ F!AcceptEmailInvite(r) \/ F!EnsureFriendship(r)
<1>1. friendship # F!NoFriendship
  BY DEF F!NoFriendship
<1>2. ASSUME NEW r \in Calls,
             F!SendRequest(r) \/ F!SendFriendRequest(r) \/ F!BlockUser(r) \/ F!GetLedger(r)
      PROVE  FALSE
  BY <1>1, <1>2 DEF F!SendRequest, F!SendFriendRequest, F!BlockUser, F!GetLedger
<1>3. ASSUME NEW r \in Calls, F!Accept(r) \/ F!Reject(r) PROVE FALSE
  BY <1>3 DEF F!Accept, F!Reject, F!Answerable
<1>4. ASSUME NEW r \in Calls,
             F!GetDirectGroupByKey(r) \/ F!CreateDirectGroup(r) \/ F!AddDirectGroupMember(r) \/ F!Crash(r)
      PROVE  FALSE
  BY <1>4 DEF F!GetDirectGroupByKey, F!CreateDirectGroup, F!AddDirectGroupMember, F!Crash
<1> QED BY <1>2, <1>3, <1>4 DEF F!Next

(* A block ends as a block unless something comes between its two          *)
(* statements, and then only removals, invitations and other blocks undo   *)
(* it: neither user gets round it by sending, accepting or rejecting.      *)
THEOREM BlockStands == ASSUME FriendsSetting PROVE F!Spec => F!BlockStands
<1> DEFINE Ends == \A r \in Calls : (call[r].pc = "block" /\ call'[r].pc = "done" /\ ~raced) => friendship'.status = "BLOCKED"
           Undone == (friendship.status = "BLOCKED" /\ friendship' # friendship) =>
                        \E r \in Calls : call[r].pc = "idle" /\ call'[r].op \in {"Remove", "Block", "InviteByEmail",
                                                                    "AcceptEmailInvite", "AcceptInvite"}
<1>1. ASSUME FriendsInv, F!Next PROVE Ends
  <2> SUFFICES ASSUME NEW r \in Calls, call[r].pc = "block", call'[r].pc = "done", ~raced
               PROVE  friendship'.status = "BLOCKED"
    OBVIOUS
  <2>1. F!BlockUser(r)
    BY <1>1, WhoBlocks
  <2>2. friendship = F!NoFriendship
    BY <1>1 DEF FriendsInv, OneBlock
  <2>3. friendship' = F!Blocked(call[r].actor)
    BY <2>1, <2>2 DEF F!BlockUser
  <2> QED BY <2>3 DEF F!Blocked
<1>2. ASSUME FriendsInv, F!Next PROVE Undone
  <2> SUFFICES ASSUME friendship.status = "BLOCKED", friendship' # friendship
               PROVE  \E r \in Calls : call[r].pc = "idle" /\ call'[r].op \in Undoing
    BY DEF Undoing
  <2>1. PICK r \in Calls :
           \/ F!Remove(r) \/ F!Block(r) \/ F!InviteByEmail(r) \/ F!AcceptEmailInvite(r) \/ F!EnsureFriendship(r)
    BY <1>2, WhoUnblocks
  <2>2. call[r].pc = "idle" /\ \E u \in {Ann, Bob}, op \in Undoing, pc \in {"block", "done"} : F!Begin(r, op, u, pc)
    <3>1. CASE F!Remove(r)
      BY <3>1 DEF F!Remove, F!Arrives, F!Pair, Undoing
    <3>2. CASE F!Block(r)
      BY <3>2 DEF F!Block, F!Arrives, F!Pair, Undoing
    <3>3. CASE F!InviteByEmail(r)
      BY <3>3 DEF F!InviteByEmail, F!Arrives, F!Pair, Undoing
    <3>4. CASE F!AcceptEmailInvite(r)
      BY <3>4 DEF F!AcceptEmailInvite, F!Arrives, F!Pair, Undoing
    <3>5. CASE F!EnsureFriendship(r)
      BY <3>5 DEF F!EnsureFriendship, F!Arrives, F!Pair, Undoing
    <3> QED BY <2>1, <3>1, <3>2, <3>3, <3>4, <3>5
  <2>3. call'[r].op \in Undoing
    <3>1. PICK u \in {Ann, Bob}, op \in Undoing, pc \in {"block", "done"} : F!Begin(r, op, u, pc)
      BY <2>2
    <3> DEFINE c == [op |-> op, pc |-> pc, actor |-> u, ledger |-> Nobody]
    <3>2. call' = [call EXCEPT ![r] = c] /\ c.op = op
      BY <3>1 DEF F!Begin
    <3> HIDE DEF c
    <3> QED BY <1>2, <3>2, CallIs
  <2> QED BY <2>2, <2>3
<1>3. FriendsInv /\ [F!Next]_(F!vars) => [Ends /\ Undone]_(F!vars)
  BY <1>1, <1>2
<1> QED BY <1>3, FriendsInductive, PTL DEF F!Spec, F!BlockStands
=============================================================================
