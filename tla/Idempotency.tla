---------------------------- MODULE Idempotency ----------------------------
(***************************************************************************)
(* The Idempotency-Key middleware (internal/idempotency/idempotency.go)    *)
(* and the idempotency_keys row it keeps for one (user id, key) pair.      *)
(*                                                                         *)
(* A Request is one HTTP request that carries the key: the client's first  *)
(* attempt, a retry, or a duplicate sent while an earlier one still runs.  *)
(* Rows of different (user, key) pairs never meet: the table's primary key *)
(* is the pair and every statement but Cleanup names it.                   *)
(*                                                                         *)
(* Time is kept as ages, capped at TTL, past which no statement tells two  *)
(* ages apart: created_at and expires_at are both written by the           *)
(* reservation and never again, so one age stands for both.                *)
(***************************************************************************)
EXTENDS Naturals

CONSTANTS
    Request,   \* HTTP requests carrying the key
    Body,      \* request fingerprints: method, path and body hash
    TTL,       \* how long a response is kept (DefaultTTL, 24h)
    Lease,     \* how long a pending reservation blocks (DefaultLease, 2 min)
    Faults,    \* the faults of the environment, a subset of AllFaults
    NoRow      \* the table holds no row for the key

AllFaults ==
    { "crash",      \* the server process dies and restarts
      "slow",       \* a handler runs longer than the lease
      "late5xx",    \* a handler commits its write and then answers 5xx
      "db" }        \* a statement of the middleware fails, applied or not

MaxAttempts == 3    \* the reserve/read loop of Wrap

ASSUME LeaseAssumption == /\ TTL \in Nat /\ Lease \in Nat
                          /\ 0 < Lease /\ Lease <= TTL
ASSUME FaultAssumption == Faults \subseteq AllFaults

Status   == {"2xx", "4xx", "5xx"}
Response == [status : Status, by : Request]
Row == [fp : Body, state : {"pending", "completed"}, token : Request,
        age : 0..TTL, resp : Response]

ASSUME NoRowAssumption == NoRow \notin Row

PC == {"idle", "reserve", "get", "run", "book", "done"}
Answers == {"none", "ran", "replayed", "in_progress", "key_reused",
            "error", "lost"}

VARIABLES
    row,       \* the idempotency_keys row, or NoRow
    pc,        \* where each request is in Wrap and run
    tries,     \* reservations it has tried
    fp,        \* its fingerprint
    age,       \* time since it took the reservation it runs under
    effect,    \* its handler committed the write
    status,    \* the status its handler wrote
    answer,    \* what its client was told
    copied     \* the response it was answered with (ran and replayed)

vars == <<row, pc, tries, fp, age, effect, status, answer, copied>>

Running(r) == pc[r] \in {"run", "book"}

\* Broken variants of Available: a pending row never blocks, a row is never taken over.
PendingIsFree == \/ row = NoRow
                 \/ row.age >= TTL
                 \/ row.state = "pending"
NoTakeover == row = NoRow

\* A reservation may be overwritten once it expired, or once its lease lapsed.
Available == \/ row = NoRow
             \/ row.age >= TTL
             \/ row.state = "pending" /\ row.age >= Lease

\* The row the upsert leaves; its response columns are null until completion.
Reserved(r) == [fp |-> fp[r], state |-> "pending", token |-> r, age |-> 0,
                resp |-> [status |-> "5xx", by |-> r]]

\* UPDATE/DELETE ... WHERE lock_token = $3 AND state = 'pending'
Owns(r) == row # NoRow /\ row.token = r /\ row.state = "pending"

Completed(r) == [fp |-> row.fp, state |-> "completed", token |-> r,
                 age |-> row.age, resp |-> [status |-> status[r], by |-> r]]

Older(a) == IF a < TTL THEN a + 1 ELSE a

Init ==
    /\ row = NoRow
    /\ pc = [r \in Request |-> "idle"]
    /\ tries = [r \in Request |-> 0]
    /\ fp \in [Request -> Body]
    /\ age = [r \in Request |-> 0]
    /\ effect = [r \in Request |-> FALSE]
    /\ status = [r \in Request |-> "5xx"]
    /\ answer = [r \in Request |-> "none"]
    /\ copied = [r \in Request |-> [status |-> "5xx", by |-> r]]

(***************************************************************************)
(* The client.  The outbox sends a request again after 409 IN_PROGRESS     *)
(* ("retry later"); such a request never ran, so its slot starts over.     *)
(***************************************************************************)
Send(r) ==
    /\ \/ pc[r] = "idle"
       \/ pc[r] = "done" /\ answer[r] = "in_progress"
    /\ pc' = [pc EXCEPT ![r] = "reserve"]
    /\ tries' = [tries EXCEPT ![r] = 0]
    /\ answer' = [answer EXCEPT ![r] = "none"]
    /\ UNCHANGED <<row, fp, age, effect, status, copied>>

Reply(r, a) ==
    /\ pc' = [pc EXCEPT ![r] = "done"]
    /\ answer' = [answer EXCEPT ![r] = a]

(***************************************************************************)
(* Wrap: reserve, and read the row when the reservation returns no row.    *)
(* The token is uuid.New(); a request takes at most one reservation, so    *)
(* its own name serves as the token.                                       *)
(***************************************************************************)
Reserve(r) ==
    /\ pc[r] = "reserve"
    /\ IF Available
       THEN /\ row' = Reserved(r)
            /\ pc' = [pc EXCEPT ![r] = "run"]
            /\ age' = [age EXCEPT ![r] = 0]
       ELSE /\ pc' = [pc EXCEPT ![r] = "get"]
            /\ UNCHANGED <<row, age>>
    /\ tries' = [tries EXCEPT ![r] = @ + 1]
    /\ UNCHANGED <<fp, effect, status, answer, copied>>

\* The statement errors; a lost acknowledgement may hide that it applied.
ReserveFails(r) ==
    /\ "db" \in Faults
    /\ pc[r] = "reserve"
    /\ row' \in {row} \cup (IF Available THEN {Reserved(r)} ELSE {})
    /\ Reply(r, "error")
    /\ UNCHANGED <<tries, fp, age, effect, status, copied>>

\* SELECT ... WHERE expires_at > now()
Visible == row # NoRow /\ row.age < TTL

\* The loop tries once more.
TriesAgain(r) == tries[r] < MaxAttempts

\* Method, path and body hash are those of the row; the broken variant trusts
\* the key alone.
TrustsKey(r) == Visible
SameRequest(r) == row.fp = fp[r]

GetKey(r) ==
    /\ pc[r] = "get"
    /\ \/ /\ ~Visible
          /\ IF TriesAgain(r)
             THEN pc' = [pc EXCEPT ![r] = "reserve"] /\ UNCHANGED answer
             ELSE Reply(r, "in_progress")
          /\ UNCHANGED copied
       \/ /\ Visible /\ ~SameRequest(r)
          /\ Reply(r, "key_reused")
          /\ UNCHANGED copied
       \/ /\ Visible /\ SameRequest(r) /\ row.state # "completed"
          /\ Reply(r, "in_progress")
          /\ UNCHANGED copied
       \/ /\ Visible /\ SameRequest(r) /\ row.state = "completed"
          /\ Reply(r, "replayed")
          /\ copied' = [copied EXCEPT ![r] = row.resp]
    /\ UNCHANGED <<row, tries, fp, age, effect, status>>

\* The read errors.
GetFails(r) ==
    /\ "db" \in Faults
    /\ pc[r] = "get"
    /\ Reply(r, "error")
    /\ UNCHANGED <<row, tries, fp, age, effect, status, copied>>

(***************************************************************************)
(* run: the handler commits its write, or not, and writes a status; the    *)
(* response reaches the client before the bookkeeping.                     *)
(***************************************************************************)
HandlerCommits(r) ==
    /\ pc[r] = "run" /\ ~effect[r]
    /\ effect' = [effect EXCEPT ![r] = TRUE]
    /\ UNCHANGED <<row, pc, tries, fp, age, status, answer, copied>>

HandlerReturns(r) ==
    /\ pc[r] = "run"
    /\ \E s \in Status :
         /\ s = "2xx" => effect[r]
         /\ s = "4xx" => ~effect[r]
         /\ s = "5xx" => (~effect[r] \/ "late5xx" \in Faults)
         /\ status' = [status EXCEPT ![r] = s]
         /\ copied' = [copied EXCEPT ![r] = [status |-> s, by |-> r]]
    /\ pc' = [pc EXCEPT ![r] = "book"]
    /\ answer' = [answer EXCEPT ![r] = "ran"]
    /\ UNCHANGED <<row, tries, fp, age, effect>>

Complete(r) ==
    /\ pc[r] = "book" /\ status[r] # "5xx"
    /\ row' = IF Owns(r) THEN Completed(r) ELSE row
    /\ pc' = [pc EXCEPT ![r] = "done"]
    /\ UNCHANGED <<tries, fp, age, effect, status, answer, copied>>

Release(r) ==
    /\ pc[r] = "book" /\ status[r] = "5xx"
    /\ row' = IF Owns(r) THEN NoRow ELSE row
    /\ pc' = [pc EXCEPT ![r] = "done"]
    /\ UNCHANGED <<tries, fp, age, effect, status, answer, copied>>

\* The bookkeeping statement fails; the error is only logged.
BookkeepingFails(r) ==
    /\ "db" \in Faults
    /\ pc[r] = "book"
    /\ pc' = [pc EXCEPT ![r] = "done"]
    /\ UNCHANGED <<row, tries, fp, age, effect, status, answer, copied>>

(***************************************************************************)
(* The server: the quarter-hourly cleanup, a crash, and time.              *)
(***************************************************************************)
Cleanup ==
    /\ row # NoRow /\ row.age >= TTL
    /\ row' = NoRow
    /\ UNCHANGED <<pc, tries, fp, age, effect, status, answer, copied>>

InFlight(r) == pc[r] \notin {"idle", "done"}

Crash ==
    /\ "crash" \in Faults
    /\ \E r \in Request : InFlight(r)
    /\ pc' = [r \in Request |-> IF InFlight(r) THEN "done" ELSE pc[r]]
    /\ answer' = [r \in Request |->
                    IF InFlight(r) /\ answer[r] = "none"
                    THEN "lost" ELSE answer[r]]
    /\ UNCHANGED <<row, tries, fp, age, effect, status, copied>>

Tick ==
    /\ \A r \in Request :
         Running(r) => (age[r] + 1 < Lease \/ "slow" \in Faults)
    /\ row' = IF row = NoRow THEN NoRow
              ELSE [row EXCEPT !.age = Older(row.age)]
    /\ age' = [r \in Request |-> Older(age[r])]
    /\ UNCHANGED <<pc, tries, fp, effect, status, answer, copied>>

Step(r) == \/ Reserve(r) \/ GetKey(r) \/ HandlerReturns(r)
           \/ Complete(r) \/ Release(r)

Next ==
    \/ \E r \in Request : \/ Send(r) \/ Step(r) \/ HandlerCommits(r)
                          \/ ReserveFails(r) \/ GetFails(r) \/ BookkeepingFails(r)
    \/ Cleanup \/ Crash \/ Tick

Spec == Init /\ [][Next]_vars

(***************************************************************************)
(* Fairness: a request the server took is worked on (the Go scheduler and  *)
(* the server's timeouts), time passes, the client resends after a 409.    *)
(***************************************************************************)
FairSpec == /\ Spec
            /\ WF_vars(Tick)
            /\ \A r \in Request : WF_vars(Step(r)) /\ WF_vars(Send(r))

-----------------------------------------------------------------------------
TypeOK ==
    /\ row \in Row \cup {NoRow}
    /\ pc \in [Request -> PC]
    /\ tries \in [Request -> 0..MaxAttempts]
    /\ fp \in [Request -> Body]
    /\ age \in [Request -> 0..TTL]
    /\ effect \in [Request -> BOOLEAN]
    /\ status \in [Request -> Status]
    /\ answer \in [Request -> Answers]
    /\ copied \in [Request -> Response]

\* Two handlers never run for one key while both are within their lease: the
\* reservation is a lock that only the passing of its lease can break.
LeaseExclusion ==
    \A r, q \in Request :
        Running(r) /\ Running(q) /\ r # q => age[r] >= Lease \/ age[q] >= Lease

\* A replayed response is one a handler wrote, below 500, for a request with
\* the same method, path and body; a crash or takeover never mixes two up.
ReplayFaithful ==
    \A r \in Request : answer[r] = "replayed" =>
        LET q == copied[r].by IN
            /\ q # r
            /\ fp[q] = fp[r]
            /\ answer[q] = "ran"
            /\ copied[r] = [status |-> status[q], by |-> q]
            /\ status[q] # "5xx"

\* A stored response stays as it is until it expires: no late request, stale
\* holder, retry or crash rewrites or removes it within its TTL.
KeepsStored ==
    row # NoRow /\ row.state = "completed" /\ row.age < TTL
        => row' # NoRow /\ row' = [row EXCEPT !.age = row'.age]
StoredResponseSticks == [][KeepsStored]_vars

\* Retries do not create duplicates: of the requests that committed a write
\* at most one began within the last TTL.
NoDuplicateWrites ==
    \A r, q \in Request :
        effect[r] /\ effect[q] /\ r # q => age[r] >= TTL \/ age[q] >= TTL

\* A client that keeps retrying is answered for good: a 409 does not repeat
\* forever, whatever became of the request that held the key.
Settled(r) == pc[r] = "done" /\ answer[r] # "in_progress"
EveryRequestSettles ==
    \A r \in Request : pc[r] = "reserve" ~> Settled(r)

-----------------------------------------------------------------------------
(***************************************************************************)
(* The inductive strengthenings the proofs use; runs check them as well.   *)
(***************************************************************************)
AttemptsLeft == \A r \in Request : pc[r] = "reserve" => tries[r] < MaxAttempts

\* A request running within its lease is the one the pending row names.
Holder == \A r \in Request :
            Running(r) /\ age[r] < Lease => Owns(r) /\ row.age = age[r]

\* How far a request got and what its client was told agree.
AnswerFits ==
    \A r \in Request :
        /\ answer[r] = "ran" => /\ pc[r] \in {"book", "done"}
                                /\ copied[r] = [status |-> status[r], by |-> r]
        /\ answer[r] = "replayed" => pc[r] = "done"
        /\ pc[r] = "book" => answer[r] = "ran"
        /\ pc[r] \in {"reserve", "get", "run"} => answer[r] = "none"
        /\ effect[r] => Running(r) \/ (pc[r] = "done" /\ answer[r] \in {"ran", "lost"})

\* The row carries its holder's fingerprint and, once completed, the response
\* its holder wrote.
RowFaithful ==
    row # NoRow =>
        /\ row.fp = fp[row.token]
        /\ row.state = "completed" =>
              /\ pc[row.token] = "done"
              /\ answer[row.token] = "ran"
              /\ status[row.token] # "5xx"
              /\ row.resp = [status |-> status[row.token], by |-> row.token]

IInv == /\ TypeOK /\ AttemptsLeft /\ Holder
        /\ AnswerFits /\ RowFaithful /\ ReplayFaithful

\* Without faults a request whose write is younger than the TTL still has the
\* row: it runs under it, or its response is stored in it.
WriteRemembered ==
    /\ \A r \in Request : Running(r) => age[r] < Lease
    /\ \A r \in Request : effect[r] => answer[r] # "lost" /\ (pc[r] = "book" => status[r] # "5xx")
    /\ \A r \in Request : effect[r] /\ age[r] < TTL =>
          /\ row # NoRow /\ row.token = r /\ row.age = age[r]
          /\ Running(r) \/ row.state = "completed"
=============================================================================
