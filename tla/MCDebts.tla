------------------------------ MODULE MCDebts ------------------------------
(* Where money is computed, in one run: `part` chooses debt simplification,   *)
(* the splitting of amounts, exchange rates or the life of a plan whose       *)
(* occurrences nobody edits; the others keep one initial state.               *)
EXTENDS Debts, TLC

CONSTANTS MaxSplit, MaxMembers, MaxShare, Whole,
          Plan, Txn, Account, NoAccount, NoTxn, Step, Horizon

VARIABLES part, mode, amount, shares, offset, split, given, plan, txn, live, now, clock, cache, call

splitVars == <<mode, amount, shares, offset, split, given>>
planVars == <<plan, txn, live, now>>
rateVars == <<clock, cache, call>>

Splitting == INSTANCE Split WITH MaxAmount <- MaxSplit

Plain == INSTANCE Planned WITH Patch <- {}

\* Rupees are quoted in euros and by one provider only; dollars are worth more tomorrow.
Fx == INSTANCE Rates WITH
        Currency <- {"EUR", "USD", "NPR"}, Pivots <- <<"EUR", "USD">>, Frankfurter <- {"EUR", "USD"},
        Fallback <- [c \in {"EUR", "USD", "NPR"} |-> IF c = "NPR" THEN {"EUR"} ELSE {}],
        Worth <- [d \in 0..1 |-> ("EUR" :> 10) @@ ("USD" :> 8 + d) @@ ("NPR" :> 1)],
        Pairs <- {<<"USD", "NPR">>}, Override <- {<<>>, <<"NPR", "EUR">> :> 5},
        Request <- 1..2, failedFetchTTL <- 1, DayLength <- 2, LastTime <- 2, now <- clock

NoSplit == mode = "equal" /\ amount = 1 /\ shares = <<1>> /\ offset = 0 /\ split = <<1>> /\ given = {}
NoDebts == balance = [u \in User |-> 0] /\ left = balance /\ debts = {}

AllInit ==
    /\ Plain!Init /\ Fx!Init
    /\ \/ part = "debts" /\ Init /\ NoSplit
       \/ part = "split" /\ Splitting!Init /\ NoDebts
       \/ part \in {"plan", "rates"} /\ NoDebts /\ NoSplit

SimplifyNext == part = "debts" /\ Next /\ UNCHANGED <<part, splitVars, planVars, rateVars>>
SplitNext == part = "split" /\ Splitting!Next /\ UNCHANGED <<part, vars, planVars, rateVars>>
PlanNext == part = "plan" /\ Plain!Next /\ UNCHANGED <<part, vars, splitVars, rateVars>>
RatesNext == part = "rates" /\ Fx!Next /\ UNCHANGED <<part, vars, splitVars, planVars>>

AllNext == SimplifyNext \/ SplitNext \/ PlanNext \/ RatesNext

all == <<part, vars, splitVars, planVars, rateVars>>

AllSpec == AllInit /\ [][AllNext]_all /\ WF_all(SimplifyNext)

\* Split (money/split.go:18-62), in every mode: every cent is handed out, nobody is a whole
\* cent from the exact quota or pays less for more shares, and the odd cents go round.
FairSplit == part = "split" =>
    /\ Splitting!TypeOK /\ Splitting!AddsUp /\ Splitting!WithinQuota
    /\ Splitting!MoreSharesMorePaid /\ Splitting!TiesRotate

\* Planned, for clients that pay, skip, re-schedule, pause, move and delete: a plan has a
\* pending occurrence exactly while it is active, and it is the one its schedule calls for
\* (wallet/planned.go:247-297).
PlanOnSchedule == part = "plan" =>
    /\ Plain!ActivePlanHasPending /\ Plain!PendingHasActivePlan
    /\ Plain!PendingIsNext

\* Rates: a conversion uses the user's rate or one of its day, "no rate" is said only where no
\* table has one, and yesterday's table is never today's (converter.go:78-121, 177-252).
RatesHold == part = "rates" => Fx!TypeOK /\ Fx!RateRight /\ Fx!FoundIfLinked /\ Fx!NotYesterdays
=============================================================================
