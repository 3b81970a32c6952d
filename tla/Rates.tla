-------------------------------- MODULE Rates --------------------------------
(***************************************************************************)
(* Conversion between currencies: internal/rates/converter.go.  Requests    *)
(* share a cache of the provider's tables, one per base currency and day,   *)
(* and ask the provider outside the cache's lock.  Rates are logarithms:    *)
(* the inverse of a rate is its negation, a cross rate the sum of its legs. *)
(***************************************************************************)
EXTENDS Integers, Sequences

CONSTANTS Currency,
          Pivots,              \* the currencies tried as intermediate legs, in order
          Frankfurter,         \* the currencies its tables quote
          Fallback,            \* base -> the currencies the other provider quotes
          Worth,               \* day -> currency -> what one unit is worth
          Pairs,               \* the pairs requests convert
          Override,            \* what a user may have set: functions from pairs to rates
          Request,             \* 1..n, each converts once, numbered as they come
          failedFetchTTL, DayLength, LastTime

VARIABLES now, cache, call

vars == <<now, cache, call>>

Day(t) == t \div DayLength
Days == 0..Day(LastTime)

\* A table: what it quotes and the day its rates are of.  err says that the fetch failed.
Table == [known : BOOLEAN, err : BOOLEAN, quotes : SUBSET Currency, of : Days, fetched : 0..LastTime]

NoTable == [known |-> FALSE, err |-> FALSE, quotes |-> {}, of |-> 0, fetched |-> 0]

\* via is the pivot a cross rate is tried with, 0 while the pair itself is; onward says that
\* its first leg is found.
CallState == [pc : {"idle", "ask", "fetch", "done"}, pair : Pairs \cup {<<>>}, ov : Override \cup {<<>>},
              via : 0..Len(Pivots), onward : BOOLEAN, side : {1, 2}, first : Int, at : Nat, since : Nat,
              rate : Int, ok : BOOLEAN, poor : BOOLEAN]

NoCall == [pc |-> "idle", pair |-> <<>>, ov |-> <<>>, via |-> 0, onward |-> FALSE, side |-> 1, first |-> 0,
           at |-> 0, since |-> 0, rate |-> 0, ok |-> FALSE, poor |-> FALSE]

Init ==
    /\ now = 0
    /\ cache = [k \in Currency \X Days |-> NoTable]
    /\ call = [r \in Request |-> NoCall]

-----------------------------------------------------------------------------
(***************************************************************************)
(* HTTPProvider.Rates: two upstreams at once, each may fail; Frankfurter   *)
(* rejects a base it does not know.                                        *)
(***************************************************************************)
Quoted(base) == IF base \in Frankfurter THEN Frankfurter \ {base} ELSE {}
Others(base) == Fallback[base] \ {base}
FullTable(base) == Quoted(base) \cup Others(base)

Answers(base) == {Quoted(base) \cup Others(base), Quoted(base), Others(base)}

\* The day of the rates is that of the question or of the answer.
Latest(base, at) ==
    {[known |-> TRUE, err |-> q = {}, quotes |-> q, of |-> d, fetched |-> IF q = {} THEN at ELSE 0] :
        q \in Answers(base) \cup {{}}, d \in {Day(at), Day(now)}}

Rate1(table, x, y) == Worth[table.of][x] - Worth[table.of][y]

-----------------------------------------------------------------------------
(***************************************************************************)
(* Rate: the pair itself, then a leg to each pivot and one from it.        *)
(***************************************************************************)
Leg(c) ==
    IF c.via = 0 THEN c.pair
    ELSE IF c.onward THEN <<Pivots[c.via], c.pair[2]>> ELSE <<c.pair[1], Pivots[c.via]>>

\* newFX: what the user has set by then is read once per request.
Begin(r) ==
    /\ call[r].pc = "idle" /\ \A q \in Request : q < r => call[q].pc # "idle"
    /\ \E pair \in Pairs, ov \in Override :
         call' = [call EXCEPT ![r] = [NoCall EXCEPT !.pc = "ask", !.pair = pair, !.ov = ov, !.since = Day(now)]]
    /\ UNCHANGED <<now, cache>>

Ended(c, ok, rate) ==
    [c EXCEPT !.pc = "done", !.ok = ok, !.rate = rate, !.at = Day(now), !.via = 0, !.onward = FALSE,
              !.side = 1, !.first = 0]

Found(c, rate) ==
    IF c.via > 0 /\ ~c.onward THEN [c EXCEPT !.pc = "ask", !.onward = TRUE, !.side = 1, !.first = rate]
    ELSE Ended(c, TRUE, IF c.onward THEN c.first + rate ELSE rate)

\* A pivot one leg does not reach is passed over; so is one that is in the pair itself.
Through(pair) == {k \in DOMAIN Pivots : Pivots[k] \notin {pair[1], pair[2]}}

NotFound(c) ==
    LET left == {k \in Through(c.pair) : k > c.via}
    IN IF left = {} THEN Ended(c, FALSE, 0)
       ELSE [c EXCEPT !.pc = "ask", !.via = CHOOSE k \in left : \A l \in left : k <= l,
                      !.onward = FALSE, !.side = 1]

\* direct: the user's rate or its inverse, ...
HasOverride(ov, x, y) == <<x, y>> \in DOMAIN ov \/ <<y, x>> \in DOMAIN ov
OverrideRate(ov, x, y) == IF <<x, y>> \in DOMAIN ov THEN ov[<<x, y>>] ELSE 0 - ov[<<y, x>>]

\* ... then the table of the first currency, then that of the second, inverted.
Base(c) == Leg(c)[c.side]
Quote(c) == Leg(c)[3 - c.side]
\* The broken variants ask for one table alone, and do not invert the second.
OneSide(c) == 1
Sides(c) == 2
Unturned(c, table) == Rate1(table, Base(c), Quote(c))
Turned(c, table) == IF c.side = 1 THEN Rate1(table, Base(c), Quote(c)) ELSE 0 - Rate1(table, Base(c), Quote(c))

Use(c, table) ==
    LET seen == [c EXCEPT !.poor = @ \/ table.quotes # FullTable(Base(c))]
    IN IF Quote(c) \in table.quotes THEN Found(seen, Turned(c, table))
       ELSE IF c.side < Sides(c) THEN [seen EXCEPT !.pc = "ask", !.side = 2]
       ELSE NotFound(seen)

-----------------------------------------------------------------------------
(***************************************************************************)
(* providerRates: the cache under its lock, the provider without it.       *)
(***************************************************************************)
Fresh(table) == table.known /\ (table.err => now - table.fetched < failedFetchTTL)

Ask(r) ==
    LET c == call[r] IN
    /\ c.pc = "ask"
    /\ call' = [call EXCEPT ![r] =
         IF HasOverride(c.ov, Leg(c)[1], Leg(c)[2]) THEN Found(c, OverrideRate(c.ov, Leg(c)[1], Leg(c)[2]))
         ELSE IF Fresh(cache[<<Base(c), Day(now)>>]) THEN Use(c, cache[<<Base(c), Day(now)>>])
         ELSE [c EXCEPT !.pc = "fetch", !.at = now]]
    /\ UNCHANGED <<now, cache>>

\* The table is kept under the day of the question; the broken variant takes the answer's.
DayOfAnswer(c) == Day(now)
DayOfKey(c) == Day(c.at)

Fetched(r) ==
    LET c == call[r] IN
    /\ c.pc = "fetch"
    /\ \E table \in Latest(Base(c), c.at) :
         /\ cache' = [cache EXCEPT ![<<Base(c), DayOfKey(c)>>] = table]
         /\ call' = [call EXCEPT ![r] = Use([c EXCEPT !.at = 0], table)]
    /\ UNCHANGED now

Tick == now < LastTime /\ now' = now + 1 /\ UNCHANGED <<cache, call>>

Next == Tick \/ \E r \in Request : Begin(r) \/ Ask(r) \/ Fetched(r)

Spec == Init /\ [][Next]_vars

-----------------------------------------------------------------------------
TypeOK ==
    /\ now \in 0..LastTime
    /\ cache \in [Currency \X Days -> Table]
    /\ call \in [Request -> CallState]

\* What a leg may yield to a request: the user's rate, or one of a day the request was on
LegRates(c, x, y) ==
    IF HasOverride(c.ov, x, y) THEN {OverrideRate(c.ov, x, y)}
    ELSE {Worth[d][x] - Worth[d][y] : d \in c.since..c.at}

\* A conversion uses the user's rate of the pair if there is one, and else the pair's rate or
\* a cross rate of the days the request was under way: of its day if it saw no midnight
\* (converter.go:206-252).
RateRight ==
    \A r \in Request : LET c == call[r] IN
        (c.pc = "done" /\ c.ok) =>
            \/ c.rate \in LegRates(c, c.pair[1], c.pair[2])
            \/ /\ ~HasOverride(c.ov, c.pair[1], c.pair[2])
               /\ \E k \in Through(c.pair) : LET p == Pivots[k] IN
                    \E a \in LegRates(c, c.pair[1], p), b \in LegRates(c, p, c.pair[2]) : c.rate = a + b

\* Two currencies the full tables and the user's rates relate, directly or by one pivot
Related(ov, x, y) == HasOverride(ov, x, y) \/ y \in FullTable(x) \/ x \in FullTable(y)
Linked(ov, x, y) ==
    Related(ov, x, y) \/ \E i \in DOMAIN Pivots : Related(ov, x, Pivots[i]) /\ Related(ov, Pivots[i], y)

\* "No rate" is the answer only where there is none, in whichever direction it is asked, or
\* after an upstream failed (converter.go:78-121, 206-252).
FoundIfLinked ==
    \A r \in Request : LET c == call[r] IN
        (c.pc = "done" /\ ~c.ok /\ ~c.poor) => ~Linked(c.ov, c.pair[1], c.pair[2])

\* No table of an earlier day is kept as today's (converter.go:177-203).
NotYesterdays ==
    \A b \in Currency, d \in Days :
        LET t == cache[<<b, d>>] IN (t.known /\ ~t.err) => t.of >= d
=============================================================================
