-------------------------------- MODULE Friends --------------------------------
(***************************************************************************)
(* Two users, the one friendship row they may have and their direct ledger *)
(* (internal/friends, friends.sql.go).  Handlers run statement by          *)
(* statement without a transaction; only AcceptEmailInvite has one, which  *)
(* holds the invite's row throughout.  Processes may die between two       *)
(* statements.                                                             *)
(***************************************************************************)
EXTENDS Naturals, FiniteSets

CONSTANTS Ann, Bob,     \* the two users; Ann has invited Bob's address by email
          Calls,        \* requests in flight, each served once
          Nobody,       \* no ledger, no friendship
          MaxCrashes    \* bound on processes that die

VARIABLES friendship, invited, ledgers, members, call, crashes, raced

vars == <<friendship, invited, ledgers, members, call, crashes, raced>>

Pair == {Ann, Bob}
NoFriendship == [status |-> "none", by |-> Nobody]

Ops == {"SendRequest", "Accept", "Reject", "Remove", "Block", "InviteByEmail",
        "AcceptEmailInvite", "AcceptInvite", "GetLedger"}

\* Statements that make or remake the row while a block is between its two.
Intrudes == {"SendRequest", "InviteByEmail", "AcceptEmailInvite", "AcceptInvite", "Block"}

\* ledger is the group a request works on or has answered with, named by who created it.
Call == [op : Ops \cup {"none"}, pc : {"idle", "insert", "block", "find", "create", "add", "add other",
                                       "done", "failed"},
         actor : Pair, ledger : Calls \cup {Nobody}]

Init ==
    /\ friendship \in {NoFriendship, [status |-> "PENDING", by |-> Ann], [status |-> "ACCEPTED", by |-> Ann]}
    /\ invited \in BOOLEAN
    /\ ledgers = {} /\ members = {}
    /\ call = [r \in Calls |-> [op |-> "none", pc |-> "idle", actor |-> Ann, ledger |-> Nobody]]
    /\ crashes = 0
    /\ raced = FALSE

Goto(r, pc) == call' = [call EXCEPT ![r].pc = pc]

Begin(r, op, u, pc) ==
    call' = [call EXCEPT ![r] = [op |-> op, pc |-> pc, actor |-> u, ledger |-> Nobody]]

\* The row changes hands; a block that has deleted the old one has not inserted its own.
Writes(row, op) ==
    /\ friendship' = row
    /\ raced' = (raced \/ (op \in Intrudes /\ \E q \in Calls : call[q].pc = "block"))

Arrives(r) == call[r].pc = "idle" /\ UNCHANGED <<ledgers, members, crashes>>

-----------------------------------------------------------------------------
\* What the statements make of the row.
Sent(u) == [status |-> "PENDING", by |-> u]
Upserted(u) == [status |-> "ACCEPTED", by |-> u]
UpsertedNoAction(u) == [status |-> "ACCEPTED", by |-> IF friendship = NoFriendship THEN u ELSE friendship.by]
Blocked(u) == [status |-> "BLOCKED", by |-> u]

\* A request the caller may answer: it waits and the other one sent it.  Broken: any row.
AnyOfTheirs(u) == friendship.by \notin {u, Nobody}
Answerable(u) == friendship.status = "PENDING" /\ friendship.by # u

\* SendRequest looks for a row and then inserts one, which fails if one came first.
SendRequest(r) ==
    /\ Arrives(r)
    /\ friendship = NoFriendship
    /\ \E u \in Pair : Begin(r, "SendRequest", u, "insert")
    /\ UNCHANGED <<friendship, invited, raced>>

SendFriendRequest(r) ==
    /\ call[r].pc = "insert"
    /\ IF friendship = NoFriendship
       THEN Writes(Sent(call[r].actor), "SendRequest") /\ Goto(r, "done")
       ELSE Goto(r, "failed") /\ UNCHANGED <<friendship, raced>>
    /\ UNCHANGED <<invited, ledgers, members, crashes>>

\* Accept goes on to the ledger.
Accept(r) ==
    /\ Arrives(r)
    /\ \E u \in Pair : Answerable(u) /\ Begin(r, "Accept", u, "find")
    /\ Writes([friendship EXCEPT !.status = "ACCEPTED"], "Accept")
    /\ UNCHANGED invited

Reject(r) ==
    /\ Arrives(r)
    /\ \E u \in Pair : Answerable(u) /\ Begin(r, "Reject", u, "done")
    /\ Writes(NoFriendship, "Reject")
    /\ UNCHANGED invited

\* Whatever the row says, blocks of the other user included.
Remove(r) ==
    /\ Arrives(r)
    /\ friendship # NoFriendship
    /\ \E u \in Pair : Begin(r, "Remove", u, "done")
    /\ Writes(NoFriendship, "Remove")
    /\ UNCHANGED invited

\* Block deletes the row, then inserts its own; a failure of the second is not noticed.
Block(r) ==
    /\ Arrives(r)
    /\ \E u \in Pair : Begin(r, "Block", u, "block")
    /\ Writes(NoFriendship, "Block")
    /\ UNCHANGED invited

BlockUser(r) ==
    /\ call[r].pc = "block"
    /\ friendship' = IF friendship = NoFriendship THEN Blocked(call[r].actor) ELSE friendship
    /\ Goto(r, "done")
    /\ UNCHANGED <<invited, ledgers, members, crashes, raced>>

\* InviteByEmail for an address that has an account makes friends at once.
InviteByEmail(r) ==
    /\ Arrives(r)
    /\ \E u \in Pair : Begin(r, "InviteByEmail", u, "done") /\ Writes(Upserted(u), "InviteByEmail")
    /\ UNCHANGED invited

\* Bob redeems Ann's email invite, once.
AcceptEmailInvite(r) ==
    /\ Arrives(r)
    /\ invited /\ invited' = FALSE
    /\ Begin(r, "AcceptEmailInvite", Bob, "done")
    /\ Writes(UpsertedNoAction(Ann), "AcceptEmailInvite")

\* A group invite of one is redeemed by the other (EnsureFriendship of groups.sql.go).
EnsureFriendship(r) ==
    /\ Arrives(r)
    /\ \E u \in Pair : Begin(r, "AcceptInvite", u, "done") /\ Writes(Upserted(CHOOSE v \in Pair : v # u), "AcceptInvite")
    /\ UNCHANGED invited

-----------------------------------------------------------------------------
\* GetLedger and GetBalance, of friends only.
GetLedger(r) ==
    /\ Arrives(r)
    /\ friendship.status = "ACCEPTED"
    /\ \E u \in Pair : Begin(r, "GetLedger", u, "find")
    /\ UNCHANGED <<friendship, invited, raced>>

\* ensureDirectGroup: the group with the pair's key, ...
GetDirectGroupByKey(r) ==
    /\ call[r].pc = "find"
    /\ IF ledgers = {} THEN Goto(r, "create")
       ELSE \E g \in ledgers : call' = [call EXCEPT ![r].pc = "done", ![r].ledger = g]
    /\ UNCHANGED <<friendship, invited, ledgers, members, crashes, raced>>

\* ... else a new one; the key is unique, and who comes second fails.
NoKey == FALSE    \* broken: direct_key is not unique
KeyTaken == ledgers # {}

CreateDirectGroup(r) ==
    /\ call[r].pc = "create"
    /\ IF KeyTaken THEN Goto(r, "failed") /\ UNCHANGED ledgers
       ELSE /\ ledgers' = ledgers \cup {r}
            /\ call' = [call EXCEPT ![r].pc = "add", ![r].ledger = r]
    /\ UNCHANGED <<friendship, invited, members, crashes, raced>>

\* The two memberships, one statement each; broken: only the first.
OnlyOne(pc) == "done"
NextMember(pc) == IF pc = "add" THEN "add other" ELSE "done"

AddDirectGroupMember(r) ==
    /\ call[r].pc \in {"add", "add other"}
    /\ members' = members \cup {[group |-> call[r].ledger, user |-> IF call[r].pc = "add" THEN Ann ELSE Bob]}
    /\ Goto(r, NextMember(call[r].pc))
    /\ UNCHANGED <<friendship, invited, ledgers, crashes, raced>>

Crash(r) ==
    /\ call[r].pc \notin {"idle", "done", "failed"}
    /\ crashes < MaxCrashes /\ crashes' = crashes + 1
    /\ Goto(r, "failed")
    /\ UNCHANGED <<friendship, invited, ledgers, members, raced>>

Next ==
    \E r \in Calls :
        \/ SendRequest(r) \/ SendFriendRequest(r) \/ Accept(r) \/ Reject(r) \/ Remove(r) \/ Block(r)
        \/ BlockUser(r) \/ InviteByEmail(r) \/ AcceptEmailInvite(r) \/ EnsureFriendship(r) \/ GetLedger(r)
        \/ GetDirectGroupByKey(r) \/ CreateDirectGroup(r) \/ AddDirectGroupMember(r) \/ Crash(r)

Spec == Init /\ [][Next]_vars

-----------------------------------------------------------------------------
TypeOK ==
    /\ friendship \in [status : {"none", "PENDING", "ACCEPTED", "BLOCKED"}, by : Pair \cup {Nobody}]
    /\ invited \in BOOLEAN /\ raced \in BOOLEAN /\ crashes \in 0..MaxCrashes
    /\ ledgers \subseteq Calls /\ members \subseteq [group : Calls, user : Pair]
    /\ call \in [Calls -> Call]

\* Two friends never get two ledgers, however their first requests race: every answer
\* names the same group (direct.go:25-50).
SameLedger ==
    \A r, q \in Calls : (call[r].pc = "done" /\ call[q].pc = "done" /\ Nobody \notin {call[r].ledger, call[q].ledger})
                          => call[r].ledger = call[q].ledger

\* As long as no process dies, the ledger ends with both friends in it, whether or not
\* they were still friends when it was made (direct.go:42-47).
LedgerComplete ==
    (crashes = 0 /\ \A r \in Calls : call[r].pc \in {"idle", "done", "failed"}) =>
        \A g \in ledgers, u \in Pair : [group |-> g, user |-> u] \in members

\* A block ends as a block unless a request or an invitation comes between its two
\* statements, and then only removals, invitations and other blocks undo it: neither user
\* gets round it by sending, accepting or rejecting (friends/handlers.go:377-403).
BlockStands ==
    [][/\ \A r \in Calls : (call[r].pc = "block" /\ call'[r].pc = "done" /\ ~raced) => friendship'.status = "BLOCKED"
       /\ (friendship.status = "BLOCKED" /\ friendship' # friendship) =>
            \E r \in Calls : call[r].pc = "idle" /\ call'[r].op \in {"Remove", "Block", "InviteByEmail",
                                                                    "AcceptEmailInvite", "AcceptInvite"}]_vars

\* "ensureDirectGroup returns the 1:1 ledger group for a friendship pair, creating it (plus
\* memberships) if it doesn't exist yet" (direct.go:23-24): who is given the ledger is in it.
LedgerHasBoth ==
    \A r \in Calls : (call[r].pc = "done" /\ call[r].ledger # Nobody) =>
                         \A u \in Pair : [group |-> call[r].ledger, user |-> u] \in members
=============================================================================
