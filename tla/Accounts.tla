------------------------------- MODULE Accounts -------------------------------
(***************************************************************************)
(* The wallet accounts of one user: internal/wallet/accounts.go and its    *)
(* queries.  Every request runs in a transaction of its own under READ     *)
(* COMMITTED.  An UPDATE is two steps: it finds its row in the snapshot of *)
(* the statement, then waits for the row and writes it if the WHERE clause *)
(* still holds.  dirty[r] holds the rows r has written and not committed,  *)
(* which are the rows it keeps locked.  CreateAccount and                  *)
(* AccountForCurrency also take the advisory lock of LockUserWallet.       *)
(***************************************************************************)
EXTENDS Naturals, FiniteSets

CONSTANTS Accounts,     \* the rows there is room for
          First,        \* the user's default account at the start
          Existing,     \* the sets of accounts a user may start with
          Requests,     \* 1..n, served once, numbered as they come
          Nobody        \* nobody holds the advisory lock

VARIABLES account, dirty, req, wallet, raced

vars == <<account, dirty, req, wallet, raced>>

Row == [live : BOOLEAN, default : BOOLEAN, home : BOOLEAN, cash : BOOLEAN, new : BOOLEAN]

Fresh == [live |-> FALSE, default |-> FALSE, home |-> FALSE, cash |-> FALSE, new |-> TRUE]

\* create, patch, delete, and the legacy API that asks AccountForCurrency where to book.
Ops == {"create", "patch", "delete", "book"}

\* One request: what it asks (flag is is_default, home the currency) and the row its
\* statement found.
Updates == {"clear", "mark", "write", "softdelete", "promote"}
Places == Updates \cup {"idle", "read", "lock", "default", "again", "choose", "insert", "bootstrap",
                        "commit", "fail", "done", "failed"}

RequestState == [op : Ops \cup {"none"}, pc : Places, id : Accounts, flag : BOOLEAN, home : BOOLEAN,
            found : SUBSET Accounts]

Init ==
    /\ \E old \in Existing :
         account = [a \in Accounts |->
                      IF a \in old THEN [live |-> TRUE, default |-> a = First, home |-> a = First,
                                         cash |-> FALSE, new |-> FALSE]
                      ELSE Fresh]
    /\ dirty = [r \in Requests |-> [a \in {} |-> Fresh]]
    /\ req = [r \in Requests |-> [op |-> "none", pc |-> "idle", id |-> First, flag |-> FALSE,
                                  home |-> TRUE, found |-> {}]]
    /\ wallet = Nobody
    /\ raced = FALSE

Holds(r, a) == a \in DOMAIN dirty[r]

\* What a statement of r sees: the committed rows under its own writes.
Sees(r, a) == IF Holds(r, a) THEN dirty[r][a] ELSE account[a]

IsDefault(row) == row.live /\ row.default

Default(r) == {a \in Accounts : IsDefault(Sees(r, a))}

Live(r) == {a \in Accounts : Sees(r, a).live}

InTx(r) == req[r].pc \notin {"idle", "read", "done", "failed"}

Wrote(r, a, row) ==
    dirty' = [dirty EXCEPT ![r] = [b \in DOMAIN dirty[r] \cup {a} |->
                                     IF b = a THEN row ELSE dirty[r][b]]]

Goto(r, pc) == req' = [req EXCEPT ![r].pc = pc, ![r].found = {}]

-----------------------------------------------------------------------------
\* The partial unique index on (user_id) WHERE is_default AND deleted_at IS NULL.

\* Another transaction has an entry of the index in flux: the insertion waits for it.
IndexBusy(r) ==
    \E q \in Requests \ {r} : \E b \in DOMAIN dirty[q] : IsDefault(dirty[q][b]) \/ IsDefault(account[b])

\* Another row is in the index: the statement fails.  Broken: there is no index.
Unindexed(r, a) == FALSE
IndexTaken(r, a) == Default(r) \ {a} # {}

-----------------------------------------------------------------------------
\* The bound: a row is left for every request that may insert one.
Room == Cardinality({q \in Requests : req[q].op \in {"create", "book"}}) <
          Cardinality({a \in Accounts : account[a].new}) + Cardinality({q \in Requests :
              req[q].pc \in {"done", "failed"} /\ req[q].op \in {"create", "book"}})

\* A request arrives; a patch first reads its row outside any transaction.
Start(r) ==
    /\ req[r].pc = "idle" /\ \A q \in Requests : q < r => req[q].pc # "idle"
    /\ \E op \in Ops, id \in Accounts, flag, home \in BOOLEAN :
         /\ op \in {"create", "book"} => id = First /\ Room
         /\ op \in {"delete", "book"} => ~flag
         /\ op \in {"delete", "patch"} => home /\ ~account[id].new
         /\ req' = [req EXCEPT ![r] = [@ EXCEPT !.op = op, !.id = id, !.flag = flag, !.home = home,
                       !.pc = CASE op = "patch" -> "read" [] op = "delete" -> "softdelete"
                                [] OTHER -> "lock"]]
         /\ raced' = (raced \/ \E q \in Requests : /\ InTx(q)
                                                   /\ "delete" \in {op, req[q].op}
                                                   /\ {op, req[q].op} \subseteq {"delete", "create", "book"})
    /\ UNCHANGED <<account, dirty, wallet>>

\* UpdateAccount before its transaction: whether its account is the default decides
\* what it will do; a patch that takes the default away from an account is refused.
ReadAccount(r) ==
    /\ req[r].pc = "read"
    /\ LET row == account[req[r].id]
       IN  Goto(r, IF ~row.live THEN "failed"
                   ELSE IF req[r].flag = row.default THEN "write"
                   ELSE IF req[r].flag THEN "clear" ELSE "failed")
    /\ UNCHANGED <<account, dirty, wallet, raced>>

\* LockUserWallet: pg_advisory_xact_lock.  Broken: nobody waits for it.
Unlocked == TRUE
WalletFree == wallet = Nobody

LockUserWallet(r) ==
    /\ req[r].pc = "lock"
    /\ WalletFree
    /\ wallet' = r
    /\ Goto(r, "default")
    /\ UNCHANGED <<account, dirty, raced>>

\* A booking goes on the default account when the currency is the one it asked for.
Booked(r, d) == IF Sees(r, d).home = req[r].home THEN "commit" ELSE "choose"

\* GetDefaultAccount, and what CreateAccount and ensureDefaultAccount do with its answer.
GetDefaultAccount(r) ==
    /\ req[r].pc \in {"default", "again"}
    /\ LET has == Default(r) # {}
       IN  Goto(r, IF req[r].op = "create"
                   THEN IF ~has THEN "bootstrap" ELSE IF req[r].flag THEN "clear" ELSE "insert"
                   ELSE IF has THEN Booked(r, CHOOSE d \in Default(r) : TRUE)
                   ELSE IF req[r].pc = "default" THEN "promote" ELSE "bootstrap")
    /\ UNCHANGED <<account, dirty, wallet, raced>>

\* AccountForCurrency, the default being in another currency: the first account in
\* that currency, else a new one.
GetFirstAccountByCurrency(r) ==
    /\ req[r].pc = "choose"
    /\ Goto(r, IF \E a \in Live(r) : Sees(r, a).home = req[r].home THEN "commit" ELSE "insert")
    /\ UNCHANGED <<account, dirty, wallet, raced>>

-----------------------------------------------------------------------------
\* The UPDATE statements, each by the rows it finds in its snapshot: every default row
\* of the user, ...
ClearDefaultAccount(r) == {{a \in Accounts : Sees(r, a).default}}

\* ... one live account, when there is no default one, ...
PromoteDefaultAccount(r) ==
    IF Default(r) # {} \/ Live(r) = {} THEN {{}} ELSE {{a} : a \in Live(r)}

\* ... or the request's own account.
Own(r) == {{req[r].id} \cap Live(r)}

Targets(r) ==
    CASE req[r].pc = "clear" -> ClearDefaultAccount(r)
      [] req[r].pc = "promote" -> PromoteDefaultAccount(r)
      [] OTHER -> Own(r)

\* The WHERE clause on the row as it is once locked (the subqueries of the promotion
\* are not evaluated again).
StillMatches(pc, row) == CASE pc = "clear" -> row.default [] pc = "promote" -> TRUE [] OTHER -> row.live

MarkDefaultAccount(row) == [row EXCEPT !.default = TRUE]
SoftDeleteAccount(row) == [row EXCEPT !.live = FALSE, !.default = FALSE]

\* The patch itself writes back the row with the default it has now.
UpdateAccount(row) == row

\* What a statement makes of a row.
Effect(r, row) ==
    CASE req[r].pc = "clear" -> [row EXCEPT !.default = FALSE]
      [] req[r].pc \in {"mark", "promote"} -> MarkDefaultAccount(row)
      [] req[r].pc = "softdelete" -> SoftDeleteAccount(row)
      [] OTHER -> UpdateAccount(row)

\* A deletion goes on to promote another account; broken: it does not.
NoPromotion == "commit"
AfterDeletion == "promote"

After(r, hit) ==
    CASE req[r].pc = "clear" -> IF req[r].op = "patch" THEN "mark" ELSE "bootstrap"
      [] req[r].pc = "mark" -> "write"
      [] req[r].pc = "promote" -> IF req[r].op = "delete" THEN "commit" ELSE "again"
      [] req[r].pc = "softdelete" -> IF hit THEN AfterDeletion ELSE "fail"
      [] OTHER -> IF hit THEN "commit" ELSE "fail"

Find(r) ==
    /\ req[r].pc \in Updates
    /\ req[r].found = {}
    /\ \E f \in Targets(r) :
         IF f = {} THEN Goto(r, After(r, FALSE)) ELSE req' = [req EXCEPT ![r].found = f]
    /\ UNCHANGED <<account, dirty, wallet, raced>>

RowLocked(r, a) == \E q \in Requests \ {r} : Holds(q, a)

Update(r) ==
    /\ req[r].pc \in Updates
    /\ \E a \in req[r].found :
         LET row == Sees(r, a)  new == Effect(r, row)
         IN  /\ ~RowLocked(r, a)
             /\ IF ~StillMatches(req[r].pc, row) THEN Goto(r, After(r, FALSE)) /\ UNCHANGED dirty
                ELSE IF IsDefault(new) /\ ~IsDefault(row)
                     THEN /\ ~IndexBusy(r)
                          /\ IF IndexTaken(r, a) THEN Goto(r, "fail") /\ UNCHANGED dirty
                             ELSE Wrote(r, a, new) /\ Goto(r, After(r, TRUE))
                     ELSE Wrote(r, a, new) /\ Goto(r, After(r, TRUE))
    /\ UNCHANGED <<account, wallet, raced>>

\* The row CreateAccount inserts for the handler and for the two branches of
\* AccountForCurrency: "Cash", the default in the home currency, or "Cash XXX".
NewRow(r) ==
    LET boot == req[r].pc = "bootstrap"  book == req[r].op = "book"
    IN  [live |-> TRUE, default |-> boot, new |-> FALSE,
         home |-> req[r].home \/ (book /\ boot), cash |-> book]

CreateAccount(r) ==
    /\ req[r].pc \in {"insert", "bootstrap"}
    /\ \E a \in Accounts :
         /\ account[a].new /\ \A q \in Requests : ~Holds(q, a)
         /\ NewRow(r).default => ~IndexBusy(r)
         /\ IF NewRow(r).default /\ IndexTaken(r, a) THEN Goto(r, "fail") /\ UNCHANGED dirty
            ELSE /\ Wrote(r, a, NewRow(r))
                 /\ Goto(r, IF req[r].pc = "bootstrap" /\ req[r].op = "book" /\ ~req[r].home
                             THEN "choose" ELSE "commit")
    /\ UNCHANGED <<account, wallet, raced>>

-----------------------------------------------------------------------------
\* Broken: the advisory lock outlives the transaction.
Kept(r) == UNCHANGED wallet
Released(r) == wallet' = IF wallet = r THEN Nobody ELSE wallet

Commit(r) ==
    /\ req[r].pc = "commit"
    /\ account' = [a \in Accounts |-> Sees(r, a)]
    /\ dirty' = [dirty EXCEPT ![r] = [a \in {} |-> Fresh]]
    /\ Goto(r, "done")
    /\ Released(r)
    /\ UNCHANGED raced

Rollback(r) ==
    /\ dirty' = [dirty EXCEPT ![r] = [a \in {} |-> Fresh]]
    /\ Goto(r, "failed")
    /\ Released(r)
    /\ UNCHANGED <<account, raced>>

\* A statement returned an error or found nothing: the deferred rollback.
Fail(r) == req[r].pc = "fail" /\ Rollback(r)

\* The connection is lost in the middle of the transaction.
Abort(r) == InTx(r) /\ Rollback(r)

WaitsFor(r, q) ==
    \/ req[r].pc \in Updates /\ \E a \in req[r].found : Holds(q, a)
    \/ /\ req[r].pc = "bootstrap" \/ (req[r].pc \in {"mark", "promote"} /\ req[r].found # {})
       /\ \E b \in DOMAIN dirty[q] : IsDefault(dirty[q][b]) \/ IsDefault(account[b])
    \/ req[r].pc = "lock" /\ wallet = q

\* The database ends one of the transactions that wait for one another.
BreakDeadlock(r) ==
    /\ \E q \in Requests \ {r} :
         /\ WaitsFor(r, q)
         /\ WaitsFor(q, r) \/ \E s \in Requests \ {q, r} : WaitsFor(q, s) /\ WaitsFor(s, r)
    /\ Rollback(r)

Advance(r) ==
    \/ ReadAccount(r) \/ LockUserWallet(r) \/ GetDefaultAccount(r) \/ GetFirstAccountByCurrency(r)
    \/ Find(r) \/ Update(r) \/ CreateAccount(r) \/ Commit(r) \/ Fail(r) \/ BreakDeadlock(r)

Next == \E r \in Requests : Start(r) \/ Advance(r) \/ Abort(r)

Spec == Init /\ [][Next]_vars

FairSpec == Spec /\ \A r \in Requests : WF_vars(Advance(r))

-----------------------------------------------------------------------------
TypeOK ==
    /\ account \in [Accounts -> Row]
    /\ \A r \in Requests : DOMAIN dirty[r] \subseteq Accounts /\ \A a \in DOMAIN dirty[r] : dirty[r][a] \in Row
    /\ req \in [Requests -> RequestState]
    /\ wallet \in Requests \cup {Nobody}
    /\ raced \in BOOLEAN

\* However creations, patches and deletions overlap, a user never has two default
\* accounts (the index behind accounts.go:298-310).
OneDefault == Cardinality({a \in Accounts : IsDefault(account[a])}) <= 1

\* A user with accounts has a default one once every request has ended, as long as no
\* deletion overlapped another deletion or a creation: patches that move the default
\* while the account is being deleted never lose it (accounts.go:298-312, 327-329).
HasDefault ==
    ((\A r \in Requests : ~InTx(r)) /\ ~raced /\ \E a \in Accounts : account[a].live)
        => \E a \in Accounts : IsDefault(account[a])

\* AccountForCurrency never makes two accounts for one currency: the advisory lock
\* keeps first requests from racing (accounts.go:571-574).
OneCash ==
    \A a, b \in Accounts :
        (/\ account[a].live /\ account[a].cash /\ account[b].live /\ account[b].cash
         /\ account[a].home = account[b].home) => (a = b \/ raced)

\* Every request ends, whoever it waits for: the advisory lock and the rows are always
\* given back, and the database breaks what deadlocks are left.
EveryRequestEnds == \A r \in Requests : req[r].pc # "idle" ~> req[r].pc \in {"done", "failed"}
=============================================================================
