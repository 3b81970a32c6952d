--------------------------- MODULE MCGroupLedger ---------------------------
(* What is between people, in one run: `part` chooses the money of a group     *)
(* (GroupLedger), its members and invites (Groups), two friends (Friends) or a *)
(* loan (Loans); the others keep one initial state.                            *)
EXTENDS GroupLedger, TLC

CONSTANTS u1, u2, u3, e1, e2, s1, r1, r2, r3, r4, ann, bob, eve,
          Loan, k1, k2, t1, t2, t3, t4, None

VARIABLES part,
          group, role, invite, tokens, spent, req, admitted,
          friendship, invited, ledgers, joined, call, crashes, raced,
          loan, open, written, asked, overlap

groupVars == <<group, role, invite, tokens, spent, req, admitted>>
friendVars == <<friendship, invited, ledgers, joined, call, crashes, raced>>
loanVars == <<loan, open, written, asked, overlap>>

-----------------------------------------------------------------------------
Membership == INSTANCE Groups WITH
                Users <- {ann, bob, eve}, Founder <- ann, Admin <- bob, Outsider <- eve,
                Friends <- {{ann, bob}, {ann, eve}, {bob, eve}}, Rows <- {1, 2}, NoRow <- 0,
                Requests <- Request

Pair == INSTANCE Friends WITH
          Ann <- ann, Bob <- bob, Calls <- Request, Nobody <- NoRow, MaxCrashes <- 1, members <- joined

Lends == INSTANCE Loans WITH
           Records <- {k1, k2}, Recorded <- k1, Txns <- {t1, t2, t3, t4}, Lent <- t1, Repaid <- t2,
           Requests <- 1..3, row <- loan, dirty <- written, req <- asked

AllInit ==
    /\ part \in {"ledger", "groups", "friends", "loans"}
    /\ Init /\ Membership!Init /\ Pair!Init /\ Lends!Init
    /\ part # "groups" => invite[1].state = "PENDING"
    /\ part # "friends" => ~invited /\ friendship = Pair!NoFriendship
    /\ part # "loans" => loan = Lends!NoLoan

AllNext ==
    \/ part = "ledger" /\ Next /\ UNCHANGED <<part, groupVars, friendVars, loanVars>>
    \/ part = "groups" /\ Membership!Next /\ UNCHANGED <<part, vars, friendVars, loanVars>>
    \/ part = "friends" /\ Pair!Next /\ UNCHANGED <<part, vars, groupVars, loanVars>>
    \/ part = "loans" /\ Lends!Next /\ UNCHANGED <<part, vars, groupVars, friendVars>>

AllSpec == AllInit /\ [][AllNext]_<<part, vars, groupVars, friendVars, loanVars>>

\* Groups: an invite admits once (groups/handlers.go:839-887),
AdmitsOnce == part = "groups" => Membership!TypeOK /\ Membership!AdmitsOnce
\* a group is deleted with everything in it or not at all (handlers.go:333-358),
DeletionIsWhole == part = "groups" => Membership!DeletionIsWhole
\* who joins by a token joins by the current one (groups.sql.go CreateGroupInvite),
TokenIsCurrent == Membership!TokenIsCurrent
\* and a group without an owner stays without one (handlers.go:493, 541, 564).
OwnerlessForever == Membership!OwnerlessForever

\* Friends: two friends have one ledger, with both of them in it once no request is under
\* way (friends/direct.go:25-50),
LedgerComplete == part = "friends" => Pair!TypeOK /\ Pair!SameLedger /\ Pair!LedgerComplete
\* and a block is undone by removals and invitations only (friends/handlers.go:377-403).
BlockStands == Pair!BlockStands

\* Loans: no booking without what it books, no second one, and the one there is says what
\* the loan says (loans.go:165-230, 489-569).
BookingsFollow == part = "loans" => Lends!TypeOK /\ Lends!NoOrphanBooking /\ Lends!OneBooking /\ Lends!BookingFollows

Perms == Permutations(Member) \cup Permutations(Request) \cup Permutations(Expense)
=============================================================================
