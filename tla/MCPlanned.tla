------------------------------ MODULE MCPlanned ------------------------------
(* Plans and accounts in one run: `part` chooses the plans of a user, every   *)
(* PATCH allowed, or the accounts they are booked on, request by request; the *)
(* other keeps one initial state.                                             *)
EXTENDS Planned, TLC

CONSTANTS p1, p2, t1, t2, t3, a1, a2, home, cash, spare, Nobody

VARIABLES part, account, dirty, req, wallet, raced

accountVars == <<account, dirty, req, wallet, raced>>

Accs == INSTANCE Accounts WITH
          Accounts <- {home, cash, spare}, First <- home, Existing <- {{home}, {home, cash}},
          Requests <- 1..3

AllInit ==
    /\ part \in {"plans", "accounts"}
    /\ Init /\ Accs!Init
    /\ part # "accounts" => account[cash].new

OnPlans(A) == part = "plans" /\ A /\ UNCHANGED <<part, accountVars>>

AllNext ==
    \/ \E p \in Plan : OnPlans(CreatePlanned(p)) \/ OnPlans(UpdatePlanned(p)) \/ OnPlans(DeletePlanned(p))
    \/ \E t \in Txn : \/ OnPlans(PayTransaction(t)) \/ OnPlans(SkipTransaction(t))
                      \/ OnPlans(UpdatePending(t)) \/ OnPlans(UpdatePaid(t)) \/ OnPlans(DeletePaid(t))
    \/ \E listed \in SUBSET Plan : OnPlans(SkipOverdue(listed))
    \/ \E a \in Account : OnPlans(DeleteAccount(a))
    \/ OnPlans(Tick)
    \/ part = "accounts" /\ Accs!Next /\ UNCHANGED <<part, vars>>

AllSpec == AllInit /\ [][AllNext]_<<part, vars, accountVars>>

\* Accounts: never two default accounts and always one, deletions that overlap apart, and
\* one account per currency for the legacy API (accounts.go:298-312, 327-329, 571-574).
AccountsKept == part = "accounts" => Accs!TypeOK /\ Accs!OneDefault /\ Accs!HasDefault /\ Accs!OneCash

Perms == Permutations(Plan) \cup Permutations(Txn) \cup Permutations(Account)
=============================================================================
