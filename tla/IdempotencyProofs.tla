------------------------- MODULE IdempotencyProofs -------------------------
(***************************************************************************)
(* What a client may rely on in an answer.  First the Idempotency-Key      *)
(* middleware, for any set of requests, any fingerprints, any faults and   *)
(* any TTL no shorter than the lease; then the exports, for any rows, any  *)
(* writes in between and any size of pages.                                *)
(***************************************************************************)
EXTENDS Idempotency, Integers, Sequences, FiniteSetTheorems, WellFoundedInduction, TLAPS

\* ReserveIdempotencyKey writes a well-typed row.
LEMMA ReservedType ==
    ASSUME TypeOK, NEW r \in Request
    PROVE  /\ Reserved(r) \in Row
           /\ Reserved(r) # NoRow
           /\ Reserved(r).fp = fp[r] /\ Reserved(r).token = r
           /\ Reserved(r).age = 0 /\ Reserved(r).state = "pending"
  BY LeaseAssumption, NoRowAssumption
  DEF TypeOK, Reserved, Row, Response, Status

\* CompleteIdempotencyKey writes a well-typed row.
LEMMA CompletedType ==
    ASSUME TypeOK, NEW r \in Request, Owns(r)
    PROVE  /\ Completed(r) \in Row /\ Completed(r) # NoRow
           /\ Completed(r).fp = row.fp /\ Completed(r).token = r
           /\ Completed(r).age = row.age /\ Completed(r).state = "completed"
           /\ Completed(r).resp = [status |-> status[r], by |-> r]
<1>1. row \in Row
  BY DEF TypeOK, Owns
<1> QED BY <1>1, NoRowAssumption DEF TypeOK, Completed, Row, Response

\* Ageing a row keeps its type.
LEMMA OlderType ==
    ASSUME NEW a \in 0..TTL
    PROVE  Older(a) \in 0..TTL /\ Older(a) >= a /\ (a < TTL => Older(a) = a + 1)
  BY LeaseAssumption DEF Older

(* What each step does to the row: nothing, a fresh reservation where one  *)
(* may be taken, the holder's completion or release, expiry, or ageing.    *)
LEMMA RowType ==
    ASSUME TypeOK, [Next]_vars
    PROVE  row' \in Row \cup {NoRow}
<1> USE DEF TypeOK
<1>1. ASSUME NEW r \in Request, Reserve(r) \/ ReserveFails(r)
      PROVE  row' \in Row \cup {NoRow}
  <2>1. row' = row \/ row' = Reserved(r)
    BY <1>1 DEF Reserve, ReserveFails
  <2>2. Reserved(r) \in Row
    BY ReservedType
  <2> QED BY <2>1, <2>2
<1>2. ASSUME NEW r \in Request, Complete(r) \/ Release(r)
      PROVE  row' \in Row \cup {NoRow}
  <2>1. row' \in {row, NoRow} \/ (Owns(r) /\ row' = Completed(r))
    BY <1>2 DEF Complete, Release
  <2>2. Owns(r) => Completed(r) \in Row
    BY CompletedType
  <2> QED BY <2>1, <2>2
<1>3. ASSUME Tick PROVE row' \in Row \cup {NoRow}
  <2>1. CASE row = NoRow
    BY <1>3, <2>1 DEF Tick
  <2>2. CASE row # NoRow
    <3>1. row.age \in 0..TTL
      BY <2>2 DEF Row
    <3> QED BY <1>3, <2>2, <3>1, OlderType DEF Tick, Row
  <2> QED BY <2>1, <2>2
<1>4. ASSUME NEW r \in Request,
             Send(r) \/ GetKey(r) \/ HandlerReturns(r) \/ HandlerCommits(r)
             \/ GetFails(r) \/ BookkeepingFails(r)
      PROVE  row' \in Row \cup {NoRow}
  BY <1>4 DEF Send, GetKey, HandlerReturns, HandlerCommits, GetFails, BookkeepingFails
<1>5. ASSUME Cleanup \/ Crash \/ UNCHANGED vars
      PROVE  row' \in Row \cup {NoRow}
  BY <1>5 DEF Cleanup, Crash, vars
<1> QED BY <1>1, <1>2, <1>3, <1>4, <1>5 DEF Next, Step

\* Every step keeps the types and the bound of Wrap's loop.
LEMMA TypeStep ==
    ASSUME TypeOK, AttemptsLeft, [Next]_vars
    PROVE  TypeOK' /\ AttemptsLeft'
<1> USE DEF TypeOK, AttemptsLeft, PC, Answers, MaxAttempts
<1>0. row' \in Row \cup {NoRow}
  BY RowType
<1>1. ASSUME NEW r \in Request, Send(r) PROVE TypeOK' /\ AttemptsLeft'
  BY <1>0, <1>1 DEF Send
<1>2. ASSUME NEW r \in Request, Reserve(r) PROVE TypeOK' /\ AttemptsLeft'
  <2>1. 0 \in 0..TTL
    BY LeaseAssumption
  <2>2. tries[r] + 1 \in 0..MaxAttempts
    BY <1>2 DEF Reserve
  <2> QED BY <1>0, <1>2, <2>1, <2>2 DEF Reserve
<1>3. ASSUME NEW r \in Request, ReserveFails(r) \/ GetFails(r) PROVE TypeOK' /\ AttemptsLeft'
  BY <1>0, <1>3 DEF ReserveFails, GetFails, Reply
<1>4. ASSUME NEW r \in Request, GetKey(r) PROVE TypeOK' /\ AttemptsLeft'
  <2>1. Visible => row.resp \in Response
    BY DEF Visible, Row
  <2> QED BY <1>0, <1>4, <2>1 DEF GetKey, Reply, TriesAgain
<1>5. ASSUME NEW r \in Request, HandlerCommits(r) PROVE TypeOK' /\ AttemptsLeft'
  BY <1>0, <1>5 DEF HandlerCommits
<1>6. ASSUME NEW r \in Request, HandlerReturns(r) PROVE TypeOK' /\ AttemptsLeft'
  BY <1>0, <1>6 DEF HandlerReturns, Response
<1>7. ASSUME NEW r \in Request, Complete(r) \/ Release(r) \/ BookkeepingFails(r)
      PROVE  TypeOK' /\ AttemptsLeft'
  BY <1>0, <1>7 DEF Complete, Release, BookkeepingFails
<1>8. ASSUME Cleanup PROVE TypeOK' /\ AttemptsLeft'
  BY <1>0, <1>8 DEF Cleanup
<1>9. ASSUME Crash PROVE TypeOK' /\ AttemptsLeft'
  BY <1>0, <1>9 DEF Crash, InFlight
<1>10. ASSUME Tick PROVE TypeOK' /\ AttemptsLeft'
  BY <1>0, <1>10, OlderType DEF Tick
<1>11. CASE UNCHANGED vars
  BY <1>11 DEF vars
<1> QED BY <1>1, <1>2, <1>3, <1>4, <1>5, <1>6, <1>7, <1>8, <1>9, <1>10, <1>11
        DEF Next, Step

(* The row, the clock and every request's progress keep their types, and   *)
(* the reserve/read loop of Wrap never exceeds its attempts.               *)
THEOREM TypeCorrect == Spec => [](TypeOK /\ AttemptsLeft)
<1>1. Init => TypeOK /\ AttemptsLeft
  BY LeaseAssumption
  DEF Init, TypeOK, AttemptsLeft, MaxAttempts, PC, Answers, Status, Response
<1>2. TypeOK /\ AttemptsLeft /\ [Next]_vars => (TypeOK /\ AttemptsLeft)'
  BY TypeStep
<1> QED BY <1>1, <1>2, PTL DEF Spec

(***************************************************************************)
(* The full invariant, one lemma per action for the steps that disturb it. *)
(***************************************************************************)
\* A fresh reservation keeps the invariant: nobody else is within its lease.
LEMMA NewReservation ==
    ASSUME IInv, NEW r \in Request, pc[r] = "reserve", Available,
           row' = Reserved(r), UNCHANGED <<fp, effect, status, copied>>,
           \/ /\ pc' = [pc EXCEPT ![r] = "run"] /\ age' = [age EXCEPT ![r] = 0]
              /\ UNCHANGED answer
           \/ /\ pc' = [pc EXCEPT ![r] = "done"] /\ UNCHANGED age
              /\ answer' = [answer EXCEPT ![r] = "error"]
    PROVE  Holder' /\ AnswerFits' /\ RowFaithful' /\ ReplayFaithful'
<1> USE DEF IInv, TypeOK
<1>1. \A q \in Request : ~(Running(q) /\ age[q] < Lease)
  BY LeaseAssumption DEF Holder, Available, Owns, Running
<1>2. Holder'
  BY <1>1, ReservedType DEF Holder, Running, Owns
<1>3. AnswerFits'
  BY DEF AnswerFits, Running
<1>4. RowFaithful'
  BY ReservedType DEF RowFaithful
<1>5. ReplayFaithful'
  BY DEF ReplayFaithful, AnswerFits, Running, Response
<1> QED BY <1>2, <1>3, <1>4, <1>5

\* Every step keeps the invariant.
LEMMA IInvStep ==
    ASSUME IInv, [Next]_vars
    PROVE  Holder' /\ AnswerFits' /\ RowFaithful' /\ ReplayFaithful'
<1> USE DEF IInv, TypeOK
<1>0. row' \in Row \cup {NoRow}
  BY RowType
<1>1. ASSUME NEW r \in Request, Send(r)
      PROVE  Holder' /\ AnswerFits' /\ RowFaithful' /\ ReplayFaithful'
  BY <1>1 DEF Send, Holder, AnswerFits, RowFaithful, ReplayFaithful, Running, Owns,
      Row, Response
<1>2. ASSUME NEW r \in Request, Reserve(r)
      PROVE  Holder' /\ AnswerFits' /\ RowFaithful' /\ ReplayFaithful'
  <2>1. CASE Available
    BY <1>2, <2>1, NewReservation DEF Reserve
  <2>2. CASE ~Available
    BY <1>2, <2>2
    DEF Reserve, Holder, AnswerFits, RowFaithful, ReplayFaithful, Running, Owns,
      Row, Response
  <2> QED BY <2>1, <2>2
<1>3. ASSUME NEW r \in Request, ReserveFails(r)
      PROVE  Holder' /\ AnswerFits' /\ RowFaithful' /\ ReplayFaithful'
  <2>1. CASE Available /\ row' = Reserved(r)
    BY <1>3, <2>1, NewReservation DEF ReserveFails, Reply
  <2>2. CASE row' = row
    BY <1>3, <2>2
    DEF ReserveFails, Reply, Holder, AnswerFits, RowFaithful, ReplayFaithful, Running, Owns,
      Row, Response
  <2> QED BY <1>3, <2>1, <2>2 DEF ReserveFails
<1>4. ASSUME NEW r \in Request, GetKey(r)
      PROVE  Holder' /\ AnswerFits' /\ RowFaithful' /\ ReplayFaithful'
  <2> USE <1>4 DEF GetKey, Reply, SameRequest
  <2>1. Holder' /\ AnswerFits' /\ RowFaithful'
    BY DEF Holder, AnswerFits, RowFaithful, Running, Owns, Row
  <2>2. CASE Visible /\ row.fp = fp[r] /\ row.state = "completed"
    <3>1. row.token \in Request
      BY <2>2 DEF Visible, Row
    <3>2. row.token # r
      BY <2>2 DEF RowFaithful, Visible
    <3> DEFINE q == row.token
    <3>3. /\ fp[q] = fp[r] /\ answer[q] = "ran" /\ status[q] # "5xx"
          /\ row.resp = [status |-> status[q], by |-> q]
      BY <2>2 DEF RowFaithful, Visible
    <3>4. copied' = [copied EXCEPT ![r] = row.resp] /\ answer' = [answer EXCEPT ![r] = "replayed"]
      BY <2>2
    <3>5. UNCHANGED <<fp, status>>
      OBVIOUS
    <3>6. copied'[r] = row.resp /\ copied'[r].by = q /\ answer'[q] = "ran"
      BY <3>1, <3>2, <3>3, <3>4
    <3>7. \A p \in Request \ {r} : answer'[p] = answer[p] /\ copied'[p] = copied[p]
      BY <3>4
    <3>8. answer[r] = "none"
      BY DEF AnswerFits
    <3>9. \A p \in Request \ {r} : answer[p] = "replayed" => answer'[copied[p].by] = "ran"
      BY <3>4, <3>8 DEF ReplayFaithful
    <3>10. q \in Request /\ q # r
      BY <3>1, <3>2
    <3>14. ReplayFaithful
      OBVIOUS
    <3> HIDE DEF q, GetKey, TypeOK, IInv
    <3>11. ASSUME NEW p \in Request \ {r}, answer'[p] = "replayed"
           PROVE  LET s == copied'[p].by IN
                     /\ s # p /\ fp'[s] = fp'[p] /\ answer'[s] = "ran"
                     /\ copied'[p] = [status |-> status'[s], by |-> s] /\ status'[s] # "5xx"
      <4> DEFINE s == copied[p].by
      <4>1. p \in Request /\ answer[p] = "replayed" /\ copied'[p] = copied[p] /\ answer'[s] = "ran"
        BY <3>7, <3>9, <3>11
      <4>2. s # p /\ fp[s] = fp[p] /\ copied[p] = [status |-> status[s], by |-> s] /\ status[s] # "5xx"
        BY <3>14, <4>1 DEF ReplayFaithful
      <4> HIDE DEF s
      <4>3. copied'[p].by = s
        BY <4>1 DEF s
      <4> QED BY <3>5, <4>1, <4>2, <4>3
    <3>12. LET s == copied'[r].by IN
              /\ s # r /\ fp'[s] = fp'[r] /\ answer'[s] = "ran"
              /\ copied'[r] = [status |-> status'[s], by |-> s] /\ status'[s] # "5xx"
      BY <3>3, <3>5, <3>6, <3>10
    <3>13. ReplayFaithful'
      BY <3>11, <3>12 DEF ReplayFaithful
    <3> QED BY <2>1, <3>13
  <2>3. CASE ~(Visible /\ row.fp = fp[r] /\ row.state = "completed")
    BY <2>1, <2>3 DEF ReplayFaithful, AnswerFits, Response
  <2> QED BY <2>2, <2>3
<1>5. ASSUME NEW r \in Request, HandlerCommits(r)
      PROVE  Holder' /\ AnswerFits' /\ RowFaithful' /\ ReplayFaithful'
  BY <1>5
  DEF HandlerCommits, Holder, AnswerFits, RowFaithful, ReplayFaithful, Running, Owns,
      Row, Response
<1>6. ASSUME NEW r \in Request, HandlerReturns(r)
      PROVE  Holder' /\ AnswerFits' /\ RowFaithful' /\ ReplayFaithful'
  <2>1. PICK s \in Status :
             /\ status' = [status EXCEPT ![r] = s]
             /\ copied' = [copied EXCEPT ![r] = [status |-> s, by |-> r]]
    BY <1>6 DEF HandlerReturns
  <2> USE <1>6, <2>1 DEF HandlerReturns
  <2>2. Holder' /\ RowFaithful'
    BY DEF Holder, RowFaithful, Running, Owns, Row
  <2>3. AnswerFits'
    BY DEF AnswerFits, Running
  <2>4. answer[r] # "ran" /\ answer[r] # "replayed"
    BY DEF AnswerFits
  <2>5. ReplayFaithful'
    BY <2>4 DEF ReplayFaithful, Response
  <2> QED BY <2>2, <2>3, <2>5
<1>7. ASSUME NEW r \in Request, Complete(r)
      PROVE  Holder' /\ AnswerFits' /\ RowFaithful' /\ ReplayFaithful'
  <2> USE <1>7 DEF Complete
  <2>1. AnswerFits' /\ ReplayFaithful'
    BY DEF AnswerFits, ReplayFaithful, Running, Response
  <2>2. CASE Owns(r)
    <3>1. Holder'
      BY <2>2, CompletedType DEF Holder, Running, Owns
    <3>2. RowFaithful'
      BY <2>2, CompletedType DEF RowFaithful, AnswerFits, Owns
    <3> QED BY <2>1, <3>1, <3>2
  <2>3. CASE ~Owns(r)
    BY <2>1, <2>3 DEF Holder, RowFaithful, Running, Owns, Row
  <2> QED BY <2>2, <2>3
<1>8. ASSUME NEW r \in Request, Release(r)
      PROVE  Holder' /\ AnswerFits' /\ RowFaithful' /\ ReplayFaithful'
  BY <1>8
  DEF Release, Holder, AnswerFits, RowFaithful, ReplayFaithful, Running, Owns,
      Row, Response
<1>9. ASSUME NEW r \in Request, GetFails(r) \/ BookkeepingFails(r)
      PROVE  Holder' /\ AnswerFits' /\ RowFaithful' /\ ReplayFaithful'
  BY <1>9
  DEF GetFails, Reply, BookkeepingFails, Holder, AnswerFits, RowFaithful, ReplayFaithful, Running, Owns,
      Row, Response
<1>10. ASSUME Cleanup
       PROVE  Holder' /\ AnswerFits' /\ RowFaithful' /\ ReplayFaithful'
  BY <1>10, LeaseAssumption
  DEF Cleanup, Holder, AnswerFits, RowFaithful, ReplayFaithful, Running, Owns,
      Row, Response
<1>11. ASSUME Crash
       PROVE  Holder' /\ AnswerFits' /\ RowFaithful' /\ ReplayFaithful'
  <2> USE <1>11 DEF Crash, InFlight
  <2>1. \A q \in Request : /\ answer'[q] = "ran" <=> answer[q] = "ran"
                           /\ answer'[q] = "replayed" <=> answer[q] = "replayed"
                           /\ answer[q] = "ran" => pc'[q] = "done"
    BY DEF AnswerFits
  <2>2. Holder'
    BY DEF Holder, Running
  <2>3. AnswerFits'
    BY <2>1 DEF AnswerFits, Running
  <2>4. RowFaithful'
    BY <2>1 DEF RowFaithful, Row
  <2>5. ReplayFaithful'
    BY <2>1 DEF ReplayFaithful, Response
  <2> QED BY <2>2, <2>3, <2>4, <2>5
<1>12. ASSUME Tick
       PROVE  Holder' /\ AnswerFits' /\ RowFaithful' /\ ReplayFaithful'
  <2> USE <1>12 DEF Tick
  <2>1. AnswerFits' /\ ReplayFaithful'
    BY DEF AnswerFits, ReplayFaithful, Running, Response
  <2>2. CASE row = NoRow
    BY <2>1, <2>2, OlderType, LeaseAssumption
    DEF Holder, RowFaithful, Running, Owns
  <2>3. CASE row # NoRow
    <3>1. /\ row \in Row /\ row.age \in 0..TTL
          /\ row' = [row EXCEPT !.age = Older(row.age)]
      BY <2>3 DEF Row
    <3>2. /\ row'.fp = row.fp /\ row'.token = row.token
          /\ row'.state = row.state /\ row'.resp = row.resp
          /\ row'.age = Older(row.age) /\ row' # NoRow
      BY <3>1, OlderType, NoRowAssumption DEF Row
    <3>3. Holder'
      BY <3>1, <3>2, OlderType, LeaseAssumption DEF Holder, Running, Owns
    <3>4. RowFaithful'
      BY <3>2, <2>3 DEF RowFaithful
    <3> QED BY <2>1, <3>3, <3>4
  <2> QED BY <2>2, <2>3
<1>13. CASE UNCHANGED vars
  BY <1>13 DEF vars, Holder, AnswerFits, RowFaithful, ReplayFaithful, Running, Owns,
      Row, Response
<1> QED BY <1>1, <1>2, <1>3, <1>4, <1>5, <1>6, <1>7, <1>8, <1>9, <1>10, <1>11,
           <1>12, <1>13 DEF Next, Step

(***************************************************************************)
(* IInv is inductive: with it the safety properties hold in every state.   *)
(***************************************************************************)
THEOREM Inductive == Spec => []IInv
<1>1. Init => IInv
  BY LeaseAssumption
  DEF Init, IInv, TypeOK, AttemptsLeft, MaxAttempts, PC, Answers, Status, Response,
      Holder, AnswerFits, RowFaithful, ReplayFaithful, Running
<1>2. IInv /\ [Next]_vars => IInv'
  BY TypeStep, IInvStep DEF IInv
<1> QED BY <1>1, <1>2, PTL DEF Spec

(* Two handlers never run for one key while both are within their lease:   *)
(* what Wrap's reservation and its token-guarded bookkeeping guarantee     *)
(* through crashes, takeovers and failed statements.                       *)
THEOREM Exclusion == Spec => []LeaseExclusion
<1>1. IInv => LeaseExclusion
  <2> SUFFICES ASSUME IInv, NEW r \in Request, NEW q \in Request,
                      Running(r), Running(q), r # q,
                      ~(age[r] >= Lease), ~(age[q] >= Lease)
               PROVE  FALSE
    BY DEF LeaseExclusion
  <2>1. age[r] < Lease /\ age[q] < Lease
    BY LeaseAssumption DEF IInv, TypeOK
  <2> QED BY <2>1 DEF IInv, Holder, Owns
<1> QED BY <1>1, Inductive, PTL

(* A replayed response (replay) is the one a handler wrote, below 500, for *)
(* a request with the same fingerprint.                                    *)
THEOREM FaithfulReplay == Spec => []ReplayFaithful
<1>1. IInv => ReplayFaithful
  BY DEF IInv
<1> QED BY <1>1, Inductive, PTL

(* A response stored by CompleteIdempotencyKey is neither changed nor      *)
(* removed before it expires, whatever the late holders of the key do.     *)
THEOREM SticksUntilExpiry == Spec => StoredResponseSticks
<1>1. IInv /\ [Next]_vars => [KeepsStored]_vars
  <2> SUFFICES ASSUME IInv, Next, row # NoRow, row.state = "completed", row.age < TTL
               PROVE  row' # NoRow /\ row' = [row EXCEPT !.age = row'.age]
    BY DEF vars, KeepsStored
  <2>1. row \in Row /\ row.age \in 0..TTL
    BY DEF IInv, TypeOK, Row
  <2>2. ~Available /\ \A r \in Request : ~Owns(r)
    BY <2>1, LeaseAssumption DEF Available, Owns
  <2>3. row = [row EXCEPT !.age = row.age]
    BY <2>1 DEF Row
  <2>4. CASE Tick
    <3>1. row' = [row EXCEPT !.age = Older(row.age)]
      BY <2>4 DEF Tick
    <3>2. row'.age = Older(row.age) /\ row' \in Row
      BY <3>1, <2>1, OlderType DEF Row
    <3> QED BY <3>1, <3>2, NoRowAssumption
  <2>5. ASSUME ~Tick PROVE row' = row
    <3>1. ASSUME NEW r \in Request, Step(r) PROVE row' = row
      BY <2>2, <3>1 DEF Step, Reserve, GetKey, HandlerReturns, Complete, Release
    <3>2. ASSUME NEW r \in Request,
                 Send(r) \/ HandlerCommits(r) \/ ReserveFails(r) \/ GetFails(r)
                   \/ BookkeepingFails(r)
          PROVE  row' = row
      BY <2>2, <3>2 DEF Send, HandlerCommits, ReserveFails, GetFails, BookkeepingFails
    <3>3. CASE Cleanup
      BY <2>1, <3>3, LeaseAssumption DEF Cleanup
    <3>4. CASE Crash
      BY <3>4 DEF Crash
    <3> QED BY <2>5, <3>1, <3>2, <3>3, <3>4 DEF Next
  <2> QED BY <2>3, <2>4, <2>5
<1> QED BY <1>1, Inductive, PTL DEF Spec, StoredResponseSticks

(***************************************************************************)
(* Without faults the middleware keeps its promise outright.               *)
(***************************************************************************)
\* Without faults, a committed write is remembered by the row of its key.
LEMMA RememberedStep ==
    ASSUME Faults = {}, IInv, WriteRemembered, [Next]_vars
    PROVE  WriteRemembered'
<1> USE DEF IInv, TypeOK
<1>1. ASSUME NEW r \in Request, Send(r) PROVE WriteRemembered'
  BY <1>1 DEF Send, WriteRemembered, AnswerFits, Running
<1>2. ASSUME NEW r \in Request, Reserve(r) PROVE WriteRemembered'
  <2>1. CASE ~Available
    BY <1>2, <2>1 DEF Reserve, WriteRemembered, AnswerFits, Running
  <2>2. CASE Available
    <3>1. \A q \in Request : ~(effect[q] /\ age[q] < TTL)
      BY <2>2, LeaseAssumption DEF Available, WriteRemembered, Holder, Owns
    <3>2. ~effect[r]
      BY <1>2 DEF Reserve, AnswerFits, Running
    <3> QED BY <1>2, <2>2, <3>1, <3>2, LeaseAssumption
            DEF Reserve, WriteRemembered, Running
  <2> QED BY <2>1, <2>2
<1>3. ASSUME NEW r \in Request, GetKey(r) PROVE WriteRemembered'
  BY <1>3 DEF GetKey, Reply, WriteRemembered, AnswerFits, Running
<1>4. ASSUME NEW r \in Request, HandlerCommits(r) PROVE WriteRemembered'
  <2>1. age[r] < Lease /\ Owns(r) /\ row.age = age[r]
    BY <1>4 DEF HandlerCommits, WriteRemembered, Holder, Running
  <2>2. answer[r] = "none"
    BY <1>4 DEF HandlerCommits, AnswerFits
  <2> QED BY <1>4, <2>1, <2>2 DEF HandlerCommits, WriteRemembered, Running, Owns
<1>5. ASSUME NEW r \in Request, HandlerReturns(r) PROVE WriteRemembered'
  BY <1>5 DEF HandlerReturns, WriteRemembered, Running
<1>6. ASSUME NEW r \in Request, Complete(r) PROVE WriteRemembered'
  <2>1. Owns(r)
    BY <1>6 DEF Complete, WriteRemembered, Holder, Running
  <2>2. \A q \in Request : effect[q] /\ age[q] < TTL => q = r
    BY <2>1 DEF WriteRemembered, Owns
  <2>3. age[r] = row.age
    BY <1>6 DEF Complete, WriteRemembered, Holder, Running
  <2>4. row' = Completed(r)
    BY <1>6, <2>1 DEF Complete
  <2>5. row' # NoRow /\ row'.token = r /\ row'.age = age[r] /\ row'.state = "completed"
    BY <2>1, <2>3, <2>4, CompletedType
  <2> QED BY <1>6, <2>2, <2>5 DEF Complete, WriteRemembered, Running
<1>7. ASSUME NEW r \in Request, Release(r) PROVE WriteRemembered'
  <2>1. Owns(r) /\ ~effect[r]
    BY <1>7 DEF Release, WriteRemembered, Holder, Running
  <2> QED BY <1>7, <2>1 DEF Release, WriteRemembered, Running, Owns
<1>8. ASSUME Cleanup PROVE WriteRemembered'
  BY <1>8, LeaseAssumption DEF Cleanup, WriteRemembered, Running
<1>9. ASSUME Tick PROVE WriteRemembered'
  <2>1. \A r \in Request : Running(r) => age'[r] < Lease
    BY <1>9, LeaseAssumption DEF Tick, WriteRemembered, Older
  <2>2. ASSUME NEW r \in Request, effect[r], age'[r] < TTL
        PROVE  /\ row' # NoRow /\ row'.token = r /\ row'.age = age'[r]
               /\ Running(r) \/ row'.state = "completed"
    <3>1. age[r] < TTL /\ age'[r] = age[r] + 1
      BY <1>9, <2>2, OlderType DEF Tick, Older
    <3>2. /\ row \in Row /\ row.token = r /\ row.age = age[r]
          /\ Running(r) \/ row.state = "completed"
      BY <2>2, <3>1 DEF WriteRemembered
    <3>3. row' = [row EXCEPT !.age = Older(row.age)]
      BY <1>9, <3>2, NoRowAssumption DEF Tick
    <3>4. /\ row'.token = r /\ row'.state = row.state
          /\ row'.age = Older(row.age) /\ row' \in Row
      BY <3>2, <3>3, OlderType DEF Row
    <3> QED BY <3>1, <3>2, <3>4, NoRowAssumption DEF Older
  <2> QED BY <1>9, <2>1, <2>2 DEF Tick, WriteRemembered, Running
<1>10. CASE UNCHANGED vars
  BY <1>10 DEF vars, WriteRemembered, Running
<1> QED BY <1>1, <1>2, <1>3, <1>4, <1>5, <1>6, <1>7, <1>8, <1>9, <1>10
        DEF Next, Step, ReserveFails, GetFails, BookkeepingFails, Crash

(* When no handler outlives the lease, no handler commits and then answers *)
(* 5xx, no middleware statement fails and the process does not die, a key  *)
(* commits at most one write per TTL, however often and however            *)
(* concurrently its request is sent.                                       *)
THEOREM AtMostOnce == ASSUME Faults = {} PROVE Spec => []NoDuplicateWrites
<1>1. Init => WriteRemembered
  BY DEF Init, WriteRemembered, Running
<1>2. IInv /\ WriteRemembered /\ [Next]_vars => WriteRemembered'
  BY RememberedStep
<1>3. IInv /\ WriteRemembered => NoDuplicateWrites
  <2> SUFFICES ASSUME IInv, WriteRemembered, NEW r \in Request, NEW q \in Request,
                      effect[r], effect[q], r # q, ~(age[r] >= TTL), ~(age[q] >= TTL)
               PROVE  FALSE
    BY DEF NoDuplicateWrites
  <2>1. age[r] < TTL /\ age[q] < TTL
    BY LeaseAssumption DEF IInv, TypeOK
  <2> QED BY <2>1 DEF WriteRemembered
<1> QED BY <1>1, <1>2, <1>3, Inductive, PTL DEF Spec

-----------------------------------------------------------------------------
(***************************************************************************)
(* The backup, read statement by statement while handlers write.  What     *)
(* holds of the rows at any time, that a row refers to rows that exist,    *)
(* carries over to the document: what was read stays as it is unless it is *)
(* written, and what a row refers to was read before it or is to come.     *)
(***************************************************************************)
CONSTANTS Account, Tag, Plan, Budget, Loan, Record, Expense, Settlement, Category, Others, Team, Txn,
          SortAt, World, Paid, PageSize, MaxWrites

VARIABLES live, gone, refs, occurred, export, writes

B == INSTANCE Backup

\* The tables in the order they are read, and what a row of each may refer to
Table == <<Account, Category, Tag, Plan, Budget, Loan, Record, {Team}, Expense, Settlement, Txn>>
Names == <<{}, {}, {}, Account \cup Category \cup Tag, Account \cup Category, Account, Account \cup Loan, {},
           Account \cup Category \cup Others, Account,
           Account \cup Category \cup Tag \cup Plan \cup Loan \cup Record>>

At(x) == CHOOSE i \in 1..11 : x \in Table[i]

\* What a reference may outlive
Outlives(g, x, y) ==
    \/ y \in g /\ (x \in Budget \/ (x \in Txn /\ y \in Plan))
    \/ x \in Expense /\ y \in Others

\* Rows refer to rows that exist, an occurrence to one plan, and the booking of a record
\* to its loan, too.
Tied(l, g, f) ==
    /\ \A x \in l : f[x] \subseteq Names[At(x)]
    /\ \A x \in l : \A y \in f[x] : y \in l \/ Outlives(g, x, y)
    /\ \A t \in l \cap Txn : \A p, q \in f[t] \cap Plan : p = q
    /\ \A t \in l \cap Txn : \A k \in f[t] \cap Record : f[k] \cap Loan \subseteq f[t]

\* Rows of different tables are different, and the first ones are as the handlers leave them.
BackupSetting ==
    /\ \A i, j \in 1..11 : i # j => Table[i] \cap Table[j] = {}
    /\ Others \cap B!Row = {}
    /\ Txn \subseteq Nat \ {0} /\ IsFiniteSet(Txn) /\ SortAt \in [Txn -> Int]
    /\ PageSize \in Nat \ {0} /\ MaxWrites \in Nat /\ Paid \subseteq Txn
    /\ DOMAIN World \subseteq B!Row /\ \A x \in DOMAIN World : World[x] \subseteq B!Row \cup Others
    /\ Tied(DOMAIN World, {}, World)

\* The pages have come past t.
Passed(t) == export.cursor # 0 /\ (t = export.cursor \/ B!Ahead(export.kind, t, export.cursor))

\* The statement that finds x has run.
WasRead(x) == IF At(x) < 11 THEN export.pc > At(x) ELSE Passed(x)

Kept == live \ export.touched

\* The request has begun and not failed.
Going == export.pc \in 1..12

Steps ==
    /\ DOMAIN export = {"kind", "pc", "cursor", "doc", "listed", "touched"}
    /\ export.cursor \in Txn \cup {0}
    /\ export.pc < 11 => export.cursor = 0

\* Pages list what they have come past,
Listing ==
    Going =>
        /\ \A t \in Txn : export.listed[t] > 0 => t \in live \cup export.touched
        /\ \A t \in Txn : ~Passed(t) => export.listed[t] = 0
        /\ \A t \in Txn \cap Kept : Passed(t) => export.listed[t] = 1
        /\ export.pc = 12 => \A t \in Txn \cap Kept : Passed(t)

\* the document holds what was read and is as it was,
Holding ==
    (Going /\ export.kind = "json") =>
        /\ \A x \in Kept : WasRead(x) /\ (x \in Expense \cup Settlement => Team \in Kept) =>
               x \in DOMAIN export.doc /\ export.doc[x] = refs[x]
        /\ export.pc > 6 => \A k \in Kept \cap Record : refs[k] \cap Loan \subseteq DOMAIN export.doc

\* and what it refers to is there, or still to come.
Inside ==
    (Going /\ export.kind = "json") =>
        \A x \in DOMAIN export.doc : \A y \in export.doc[x] :
            \/ y \in DOMAIN export.doc \cup export.touched \/ Outlives(gone, x, y)
            \/ y \in live /\ At(y) <= 7 /\ ~WasRead(y)

BackupInv == B!TypeOK /\ Tied(live, gone, refs) /\ Steps /\ Listing /\ Holding /\ Inside

\* The place of a row tells its table.
Sorted ==
    /\ \A x \in B!Row : At(x) \in 1..11
    /\ \A x \in B!Row : /\ x \in Account <=> At(x) = 1
                        /\ x \in Category <=> At(x) = 2
                        /\ x \in Tag <=> At(x) = 3
                        /\ x \in Plan <=> At(x) = 4
                        /\ x \in Budget <=> At(x) = 5
                        /\ x \in Loan <=> At(x) = 6
                        /\ x \in Record <=> At(x) = 7
                        /\ x = Team <=> At(x) = 8
                        /\ x \in Expense <=> At(x) = 9
                        /\ x \in Settlement <=> At(x) = 10
                        /\ x \in Txn <=> At(x) = 11
    /\ \A x \in Others : x \notin B!Row

\* Tables are disjoint, so a row is in the table at its place and in no other.
LEMMA RowsSorted == ASSUME BackupSetting PROVE Sorted
<1>1. \A x, i, j : i \in 1..11 /\ j \in 1..11 /\ x \in Table[i] /\ x \in Table[j] => i = j
  BY DEF BackupSetting
<1>2. /\ Table[1] = Account /\ Table[2] = Category /\ Table[3] = Tag /\ Table[4] = Plan
      /\ Table[5] = Budget /\ Table[6] = Loan /\ Table[7] = Record /\ Table[8] = {Team}
      /\ Table[9] = Expense /\ Table[10] = Settlement /\ Table[11] = Txn
  BY DEF Table
<1>3. \A x \in B!Row : \E i \in 1..11 : x \in Table[i]
  BY <1>2 DEF B!Row
<1>4. \A x \in B!Row : At(x) \in 1..11 /\ x \in Table[At(x)]
  BY <1>3 DEF At
<1>5. \A x \in B!Row : \A i \in 1..11 : x \in Table[i] <=> At(x) = i
  BY <1>1, <1>4
<1>6. \A x \in B!Row : /\ x \in Account <=> At(x) = 1
                       /\ x \in Category <=> At(x) = 2
                       /\ x \in Tag <=> At(x) = 3
                       /\ x \in Plan <=> At(x) = 4
                       /\ x \in Budget <=> At(x) = 5
                       /\ x \in Loan <=> At(x) = 6
                       /\ x \in Record <=> At(x) = 7
                       /\ x = Team <=> At(x) = 8
                       /\ x \in Expense <=> At(x) = 9
                       /\ x \in Settlement <=> At(x) = 10
                       /\ x \in Txn <=> At(x) = 11
  BY <1>2, <1>5
<1>7. \A x \in Others : x \notin B!Row
  BY DEF BackupSetting
<1> QED BY <1>4, <1>6, <1>7 DEF Sorted

\* What the rows of each table refer to
Refer(l, f) ==
    \A x \in l :
        /\ At(x) \in {1, 2, 3, 8} => f[x] = {}
        /\ At(x) = 4 => f[x] \subseteq Account \cup Category \cup Tag
        /\ At(x) = 5 => f[x] \subseteq Account \cup Category
        /\ At(x) = 6 => f[x] \subseteq Account
        /\ At(x) = 7 => f[x] \subseteq Account \cup Loan
        /\ At(x) = 9 => f[x] \subseteq Account \cup Category \cup Others
        /\ At(x) = 10 => f[x] \subseteq Account
        /\ At(x) = 11 => f[x] \subseteq Account \cup Category \cup Tag \cup Plan \cup Loan \cup Record

\* Spelled out, so that no table is looked up
LEMMA ReferByNames ==
  ASSUME NEW l, NEW f, l \subseteq B!Row, Sorted
  PROVE  (\A x \in l : f[x] \subseteq Names[At(x)]) <=> Refer(l, f)
<1>1. /\ Names[1] = {} /\ Names[2] = {} /\ Names[3] = {}
      /\ Names[4] = Account \cup Category \cup Tag
      /\ Names[5] = Account \cup Category /\ Names[6] = Account
      /\ Names[7] = Account \cup Loan /\ Names[8] = {}
      /\ Names[9] = Account \cup Category \cup Others /\ Names[10] = Account
      /\ Names[11] = Account \cup Category \cup Tag \cup Plan \cup Loan \cup Record
  BY DEF Names
<1>2. \A x \in l : At(x) \in 1..11
  BY DEF Sorted
<1>3. ASSUME NEW x \in l
      PROVE  f[x] \subseteq Names[At(x)] <=>
        /\ At(x) \in {1, 2, 3, 8} => f[x] = {}
        /\ At(x) = 4 => f[x] \subseteq Account \cup Category \cup Tag
        /\ At(x) = 5 => f[x] \subseteq Account \cup Category
        /\ At(x) = 6 => f[x] \subseteq Account
        /\ At(x) = 7 => f[x] \subseteq Account \cup Loan
        /\ At(x) = 9 => f[x] \subseteq Account \cup Category \cup Others
        /\ At(x) = 10 => f[x] \subseteq Account
        /\ At(x) = 11 => f[x] \subseteq Account \cup Category \cup Tag \cup Plan \cup Loan \cup Record
  <2>1. CASE At(x) \in {1, 2, 3, 8}
    BY <2>1, <1>1
  <2>2. CASE At(x) \in {4, 5, 6, 7}
    BY <2>2, <1>1
  <2>3. CASE At(x) \in {9, 10, 11}
    BY <2>3, <1>1
  <2> QED BY <1>2, <2>1, <2>2, <2>3
<1> QED BY <1>3 DEF Refer

\* There are ten sections before the pages.
LEMMA Places ==
  /\ Len(B!Sections) = 10 /\ B!Pages = 11 /\ B!Done = 12 /\ B!Aborted = 13
  /\ B!Pages' = 11 /\ B!Done' = 12 /\ B!Aborted' = 13
<1>1. ASSUME NEW a, NEW b, NEW c, NEW d, NEW e, NEW f, NEW g, NEW h, NEW i, NEW j
      PROVE  Len(<<a, b, c, d, e, f, g, h, i, j>>) = 10
  OBVIOUS
<1>2. Len(B!Sections) = 10 /\ Len(B!Sections') = 10
  BY <1>1 DEF B!Sections
<1> QED BY <1>2 DEF B!Pages, B!Done, B!Aborted

\* lt orders T strictly.
Strict(lt, T) ==
    /\ \A s \in T : <<s, s>> \notin lt
    /\ \A r, s, t \in T : <<r, s>> \in lt /\ <<s, t>> \in lt => <<r, t>> \in lt
    /\ \A s, t \in T : s # t => <<s, t>> \in lt \/ <<t, s>> \in lt

\* Those of S before t
Under(lt, S, t) == {s \in S : <<s, t>> \in lt}

\* The page that starts S
Front(lt, S) == {t \in S : Cardinality(Under(lt, S, t)) < PageSize}

\* The order the export of a kind goes by, as a set of pairs
Order(kind) == {q \in Txn \X Txn : B!Ahead(kind, q[1], q[2])}

\* A finite set has a first element.
LEMMA FirstThere ==
  ASSUME NEW lt, NEW T, Strict(lt, T), NEW S, S \subseteq T, IsFiniteSet(S), S # {}
  PROVE  \E m \in S : \A s \in S : <<s, m>> \notin lt
<1> DEFINE parts == {Under(lt, S, t) : t \in S}
<1>1. parts \subseteq SUBSET S /\ parts # {}
  BY DEF Under
<1>2. IsWellFoundedOn(StrictSubsetOrdering(S), SUBSET S)
  BY FS_StrictSubsetOrderingWellFounded, FS_FiniteSubsetsOfFinite
<1>3. PICK U \in parts : \A V \in parts : ~(<<V, U>> \in StrictSubsetOrdering(S))
  <2> HIDE DEF parts
  <2> QED BY <1>1, <1>2, WFMin
<1>4. PICK m \in S : U = Under(lt, S, m)
  OBVIOUS
<1>5. ASSUME NEW s \in S, <<s, m>> \in lt PROVE FALSE
  <2>1. Under(lt, S, s) \subseteq U
    BY <1>4, <1>5 DEF Under, Strict
  <2>2. s \in U /\ s \notin Under(lt, S, s)
    BY <1>4, <1>5 DEF Under, Strict
  <2>3. <<Under(lt, S, s), U>> \in StrictSubsetOrdering(S)
    <3>1. Under(lt, S, s) \in SUBSET S /\ U \in SUBSET S
      BY <1>1
    <3> QED BY <2>1, <2>2, <3>1 DEF StrictSubsetOrdering
  <2>4. Under(lt, S, s) \in parts
    OBVIOUS
  <2> QED BY <1>3, <2>3, <2>4
<1> QED BY <1>5

\* And a last one.
LEMMA LastThere ==
  ASSUME NEW lt, NEW T, Strict(lt, T), NEW S, S \subseteq T, IsFiniteSet(S), S # {}
  PROVE  \E m \in S : \A s \in S \ {m} : <<s, m>> \in lt
<1> DEFINE gt == {q \in T \X T : <<q[2], q[1]>> \in lt}
<1>1. \A s, t \in T : <<s, t>> \in gt <=> <<t, s>> \in lt
  OBVIOUS
<1> HIDE DEF gt
<1>2. Strict(gt, T)
  BY <1>1 DEF Strict
<1>3. PICK m \in S : \A s \in S : <<s, m>> \notin gt
  BY <1>2, FirstThere
<1> QED BY <1>1, <1>3 DEF Strict

\* What is before a row of the page is on the page, the page of a set that has rows is not
\* empty, and one that is not full is the whole set.
LEMMA PageOf ==
  ASSUME NEW lt, NEW T, Strict(lt, T), NEW S, S \subseteq T, IsFiniteSet(S),
         PageSize \in Nat \ {0}
  PROVE  /\ Front(lt, S) \subseteq S
         /\ \A t \in Front(lt, S) : \A s \in S : <<s, t>> \in lt => s \in Front(lt, S)
         /\ S # {} => Front(lt, S) # {}
         /\ Cardinality(Front(lt, S)) < PageSize => Front(lt, S) = S
<1>1. Front(lt, S) \subseteq S /\ IsFiniteSet(Front(lt, S))
  <2>1. Front(lt, S) \subseteq S
    BY DEF Front
  <2> QED BY <2>1, FS_Subset
<1>2. \A t : Under(lt, S, t) \subseteq S /\ IsFiniteSet(Under(lt, S, t))
  <2>1. \A t : Under(lt, S, t) \subseteq S
    BY DEF Under
  <2> QED BY <2>1, FS_Subset
<1>3. ASSUME NEW t \in Front(lt, S), NEW s \in S, <<s, t>> \in lt PROVE s \in Front(lt, S)
  <2>1. Under(lt, S, s) \subseteq Under(lt, S, t)
    BY <1>1, <1>3 DEF Under, Strict
  <2>2. Cardinality(Under(lt, S, s)) <= Cardinality(Under(lt, S, t))
    BY <1>2, <2>1, FS_Subset
  <2>3. /\ Cardinality(Under(lt, S, s)) \in Nat
        /\ Cardinality(Under(lt, S, t)) \in Nat
    BY <1>2, FS_CardinalityType
  <2>4. Cardinality(Under(lt, S, t)) < PageSize
    BY DEF Front
  <2>5. Cardinality(Under(lt, S, s)) < PageSize
    BY <2>2, <2>3, <2>4
  <2> QED BY <2>5 DEF Front
<1>4. ASSUME S # {} PROVE Front(lt, S) # {}
  <2>1. PICK m \in S : \A s \in S : <<s, m>> \notin lt
    BY <1>4, FirstThere
  <2>2. Under(lt, S, m) = {}
    BY <2>1 DEF Under
  <2>3. Cardinality(Under(lt, S, m)) < PageSize
    BY <2>2, FS_EmptySet
  <2> QED BY <2>3 DEF Front
<1>5. ASSUME Cardinality(Front(lt, S)) < PageSize, Front(lt, S) # S PROVE FALSE
  <2> DEFINE rest == S \ Front(lt, S)
  <2>1. rest # {} /\ rest \subseteq S /\ rest \subseteq T /\ IsFiniteSet(rest)
    <3>1. rest # {} /\ rest \subseteq S /\ rest \subseteq T
      BY <1>1, <1>5
    <3> QED BY <3>1, FS_Subset
  <2>2. PICK m \in rest : \A s \in rest : <<s, m>> \notin lt
    <3> HIDE DEF rest
    <3> QED BY <2>1, FirstThere
  <2>3. Under(lt, S, m) \subseteq Front(lt, S)
    BY <2>2 DEF Under
  <2>4. Cardinality(Under(lt, S, m)) <= Cardinality(Front(lt, S))
    BY <1>1, <2>3, FS_Subset
  <2>5. Cardinality(Under(lt, S, m)) \in Nat /\ Cardinality(Front(lt, S)) \in Nat
    BY <1>1, <1>2, FS_CardinalityType
  <2>6. Cardinality(Under(lt, S, m)) < PageSize
    BY <1>5, <2>4, <2>5
  <2>7. m \in Front(lt, S)
    BY <2>6 DEF Front
  <2> QED BY <2>2, <2>7
<1> QED BY <1>1, <1>3, <1>4, <1>5

\* Ids order transactions, and so do times with ids.
LEMMA OrderStrict ==
  ASSUME BackupSetting, NEW kind
  PROVE  Strict(Order(kind), Txn) /\ \A s, t \in Txn : <<s, t>> \in Order(kind) <=> B!Ahead(kind, s, t)
<1>1. \A s, t \in Txn : <<s, t>> \in Order(kind) <=> B!Ahead(kind, s, t)
  BY DEF Order
<1>2. /\ \A t \in Txn : t \in Nat /\ SortAt[t] \in Int
  BY DEF BackupSetting
<1>3. /\ \A s \in Txn : ~B!Ahead(kind, s, s)
      /\ \A r, s, t \in Txn : B!Ahead(kind, r, s) /\ B!Ahead(kind, s, t) => B!Ahead(kind, r, t)
      /\ \A s, t \in Txn : s # t => B!Ahead(kind, s, t) \/ B!Ahead(kind, t, s)
  <2>1. CASE kind = "json"
    BY <1>2, <2>1 DEF B!Ahead
  <2>2. CASE kind # "json"
    BY <1>2, <2>2 DEF B!Ahead, B!Newer
  <2> QED BY <2>1, <2>2
<1> QED BY <1>1, <1>3 DEF Strict

\* The rows a page is taken from are those the pages have not come past.
LEMMA RestIsAhead ==
  ASSUME BackupSetting, Steps, export.kind \in {"json", "csv"}
  PROVE  B!Rest(export.kind) = {t \in live \cap Txn : ~Passed(t)}
<1>1. \A t \in Txn : t \in Nat /\ t # 0
  BY DEF BackupSetting
<1>2. export.cursor \in Txn \cup {0}
  BY DEF Steps
<1>3. ASSUME NEW t \in live \cap Txn
      PROVE  (IF export.kind = "json" THEN B!AfterId(t) ELSE export.cursor = 0 \/ B!CSVOrder(export.cursor, t))
               <=> ~Passed(t)
  <2> DEFINE c == export.cursor
  <2>1. t \in Txn /\ c \in Txn \cup {0}
    BY <1>2
  <2>2. CASE export.kind = "json"
    BY <1>1, <2>1, <2>2 DEF Passed, B!Ahead, B!AfterId
  <2>3. CASE export.kind = "csv"
    <3>1. c # 0 /\ c # t => (B!Newer(c, t) <=> ~B!Newer(t, c))
      <4>1. \A s \in Txn : s \in Nat /\ SortAt[s] \in Int
        BY DEF BackupSetting
      <4> QED BY <2>1, <4>1 DEF B!Newer
    <3>2. ~B!Newer(t, t)
      <4>1. t \in Nat /\ SortAt[t] \in Int
        BY <2>1 DEF BackupSetting
      <4> QED BY <4>1 DEF B!Newer
    <3>3. B!Ahead(export.kind, t, c) = B!Newer(t, c)
      BY <2>3 DEF B!Ahead
    <3>4. B!CSVOrder(c, t) = B!Newer(c, t)
      BY DEF B!CSVOrder
    <3> QED BY <2>1, <2>3, <3>1, <3>2, <3>3, <3>4 DEF Passed
  <2> QED BY <2>2, <2>3
<1>4. B!Rest(export.kind) = {t \in live \cap Txn :
        IF export.kind = "json" THEN B!AfterId(t) ELSE export.cursor = 0 \/ B!CSVOrder(export.cursor, t)}
  BY DEF B!Rest, B!Live
<1> QED BY <1>3, <1>4

\* The page the export of a kind takes now
NextPage == B!FirstOf(export.kind, B!Rest(export.kind))

\* A page lists rows that exist and were not passed; the pages have come past it then, and
\* past nothing else that exists.
Turned(page) ==
    /\ page \subseteq live \cap Txn
    /\ \A t \in page : ~Passed(t) /\ Passed(t)'
    /\ \A t \in Txn : Passed(t) => Passed(t)'
    /\ \A t \in live \cap Txn : Passed(t)' => Passed(t) \/ t \in page
    /\ Cardinality(page) < PageSize => \A t \in live \cap Txn : Passed(t)'
    /\ export.cursor' \in Txn \cup {0}

\* What the step leaves in the request
Fields(page) ==
    /\ export.kind' = export.kind /\ export.touched' = export.touched
    /\ export.pc = 11 /\ export.pc' = IF Cardinality(page) < PageSize THEN 12 ELSE 11
    /\ export.cursor' = IF page = {} THEN export.cursor
                        ELSE CHOOSE t \in page : \A s \in page \ {t} : B!Ahead(export.kind, s, t)
    /\ export.doc' = IF export.kind = "json" THEN B!Written(page) ELSE export.doc
    /\ export.listed' = [t \in Txn |-> IF t \in page THEN export.listed[t] + 1 ELSE export.listed[t]]
    /\ DOMAIN export' = DOMAIN export
    /\ live' = live /\ gone' = gone /\ refs' = refs /\ occurred' = occurred /\ writes' = writes

\* Fields of the request that a step sets, and those it leaves alone
LEMMA Edited ==
  ASSUME NEW e, DOMAIN e = {"kind", "pc", "cursor", "doc", "listed", "touched"},
         NEW f, NEW p1, NEW c1, NEW d1, NEW l1,
         f = [e EXCEPT !.doc = d1, !.listed = l1, !.cursor = c1, !.pc = p1]
  PROVE  /\ f.kind = e.kind /\ f.pc = p1 /\ f.cursor = c1 /\ f.doc = d1 /\ f.listed = l1
         /\ f.touched = e.touched /\ DOMAIN f = DOMAIN e
  OBVIOUS

\* The module counts as the library does.
LEMMA SameCount == \A S : B!Cardinality(S) = Cardinality(S)
  BY DEF B!Cardinality, Cardinality

\* A page sets four fields.
LEMMA ReadsPage ==
  ASSUME Steps, NEW page, B!ReadPage(page)
  PROVE  Fields(page)
<1> DEFINE d1 == IF export.kind = "json" THEN B!Written(page) ELSE export.doc
           l1 == [t \in Txn |-> IF t \in page THEN export.listed[t] + 1 ELSE export.listed[t]]
           c1 == IF page = {} THEN export.cursor
                 ELSE CHOOSE t \in page : \A s \in page \ {t} : B!Ahead(export.kind, s, t)
           p1 == IF B!Cardinality(page) < PageSize THEN B!Done ELSE B!Pages
<1>1. export' = [export EXCEPT !.doc = d1, !.listed = l1, !.cursor = c1, !.pc = p1]
  BY DEF B!ReadPage
<1>2. /\ export.pc = 11
      /\ live' = live /\ gone' = gone /\ refs' = refs /\ occurred' = occurred /\ writes' = writes
  BY Places DEF B!ReadPage
<1>3. p1 = IF Cardinality(page) < PageSize THEN 12 ELSE 11
  BY Places, SameCount
<1>4. DOMAIN export = {"kind", "pc", "cursor", "doc", "listed", "touched"}
  BY DEF Steps
<1> SUFFICES /\ export.kind' = export.kind /\ export.touched' = export.touched
             /\ export.pc' = p1 /\ export.cursor' = c1 /\ export.doc' = d1 /\ export.listed' = l1
             /\ DOMAIN export' = DOMAIN export
  BY <1>2, <1>3 DEF Fields
<1> HIDE DEF d1, l1, c1, p1
<1> QED BY <1>1, <1>4, Edited

\* The next page turns.
LEMMA PageTurned ==
  ASSUME BackupSetting, Steps, export.kind \in {"json", "csv"}, B!ReadPage(NextPage)
  PROVE  Turned(NextPage) /\ Fields(NextPage)
<1> DEFINE kind == export.kind
           lt == Order(export.kind)
           R == {t \in live \cap Txn : ~Passed(t)}
           page == NextPage
<1>1. Strict(lt, Txn) /\ \A s, t \in Txn : <<s, t>> \in lt <=> B!Ahead(kind, s, t)
  BY OrderStrict
<1>2. B!Rest(kind) = R
  BY RestIsAhead
<1>3. R \subseteq Txn /\ IsFiniteSet(R) /\ PageSize \in Nat \ {0}
  <2>1. R \subseteq Txn /\ IsFiniteSet(Txn) /\ PageSize \in Nat \ {0}
    BY DEF BackupSetting
  <2> HIDE DEF R
  <2> QED BY <2>1, FS_Subset
<1>4. page = Front(lt, R)
  <2>1. \A t \in R : {s \in R : B!Ahead(kind, s, t)} = Under(lt, R, t)
    BY <1>1 DEF Under
  <2>2. page = {t \in R : Cardinality({s \in R : B!Ahead(kind, s, t)}) < PageSize}
    <3>1. page = {t \in R : B!Cardinality({s \in R : B!Ahead(kind, s, t)}) < PageSize}
      BY <1>2 DEF NextPage, B!FirstOf
    <3> HIDE DEF R, kind, page
    <3> QED BY <3>1, SameCount
  <2> HIDE DEF R, lt, kind, page
  <2> QED BY <2>1, <2>2 DEF Front
<1>5. /\ page \subseteq R
      /\ \A t \in page : \A s \in R : <<s, t>> \in lt => s \in page
      /\ R # {} => page # {}
      /\ Cardinality(page) < PageSize => page = R
  <2> HIDE DEF R, lt, page
  <2> QED BY <1>1, <1>3, <1>4, PageOf
<1>6. Fields(page)
  <2> DEFINE q == NextPage
  <2>1. B!ReadPage(q)
    OBVIOUS
  <2> HIDE DEF q
  <2>2. Fields(q)
    BY <2>1, ReadsPage
  <2> QED BY <2>2 DEF q
<1>7. CASE page = {}
  <2>1. export.cursor' = export.cursor /\ export.kind' = export.kind
    BY <1>6, <1>7 DEF Fields
  <2>2. \A t \in Txn : Passed(t)' <=> Passed(t)
    BY <2>1 DEF Passed
  <2>3. R = {}
    BY <1>5, <1>7
  <2>4. export.cursor' \in Txn \cup {0}
    BY <2>1 DEF Steps
  <2> QED BY <1>6, <1>7, <2>2, <2>3, <2>4 DEF Turned
<1>8. CASE page # {}
  <2> DEFINE c == export.cursor'
             last == CHOOSE t \in page : \A s \in page \ {t} : B!Ahead(kind, s, t)
  <2>1. c = last /\ export.kind' = kind
    BY <1>6, <1>8 DEF Fields
  <2>2. page \subseteq Txn /\ IsFiniteSet(page)
    <3> HIDE DEF R, page
    <3> QED BY <1>3, <1>5, FS_Subset
  <2>3. \E m \in page : \A s \in page \ {m} : B!Ahead(kind, s, m)
    <3>1. \E m \in page : \A s \in page \ {m} : <<s, m>> \in lt
      <4> HIDE DEF lt, page
      <4> QED BY <1>1, <1>8, <2>2, LastThere
    <3> HIDE DEF page, lt
    <3> QED BY <1>1, <2>2, <3>1
  <2>4. last \in page /\ \A s \in page \ {last} : B!Ahead(kind, s, last)
    <3> HIDE DEF page, kind
    <3> QED BY <2>3
  <2>5. c \in page /\ c \in Txn /\ c \in R /\ \A s \in page \ {c} : <<s, c>> \in lt
    <3> HIDE DEF page, last, R, lt
    <3> QED BY <1>1, <1>5, <2>1, <2>2, <2>4
  <2>6. c # 0
    BY <2>5 DEF BackupSetting
  <2>7. \A t \in Txn : Passed(t)' <=> t = c \/ <<t, c>> \in lt
    <3>1. \A t \in Txn : Passed(t)' <=> t = c \/ B!Ahead(kind, t, c)
      BY <2>1, <2>6 DEF Passed, B!Ahead, B!Newer
    <3> HIDE DEF c, lt
    <3> QED BY <1>1, <2>5, <3>1
  <2>8. \A t \in page : ~Passed(t) /\ Passed(t)'
    <3>1. \A t \in page : ~Passed(t)
      BY <1>5
    <3> HIDE DEF page, c, lt, R
    <3> QED BY <2>2, <2>5, <2>7, <3>1
  <2>9. ASSUME NEW t \in Txn, Passed(t) PROVE Passed(t)'
    <3>1. ~Passed(c)
      BY <2>5
    <3>2. export.cursor \in Txn /\ export.cursor # 0
      BY <2>9 DEF Passed, Steps
    <3>3. \A s \in Txn : Passed(s) <=> s = export.cursor \/ <<s, export.cursor>> \in lt
      <4>1. \A s \in Txn : Passed(s) <=> s = export.cursor \/ B!Ahead(kind, s, export.cursor)
        BY <3>2 DEF Passed
      <4> HIDE DEF lt
      <4> QED BY <1>1, <3>2, <4>1
    <3> HIDE DEF lt, c, R, page
    <3>4. <<export.cursor, c>> \in lt
      BY <1>1, <2>5, <3>1, <3>2, <3>3 DEF Strict
    <3>5. t = export.cursor \/ <<t, export.cursor>> \in lt
      BY <2>9, <3>3
    <3>6. <<t, c>> \in lt
      BY <1>1, <2>5, <3>2, <3>4, <3>5 DEF Strict
    <3> QED BY <2>7, <3>6
  <2>10. ASSUME NEW t \in live \cap Txn, Passed(t)', ~Passed(t) PROVE t \in page
    <3>1. t \in R /\ t \in Txn
      BY <2>10
    <3> HIDE DEF lt, c, R, page
    <3> QED BY <1>5, <2>5, <2>7, <2>10, <3>1
  <2>11. ASSUME Cardinality(page) < PageSize, NEW t \in live \cap Txn PROVE Passed(t)'
    <3>1. page = R
      BY <1>5, <2>11
    <3>2. CASE Passed(t)
      BY <2>9, <3>2
    <3>3. CASE ~Passed(t)
      BY <2>8, <3>1, <3>3
    <3> QED BY <3>2, <3>3
  <2>12. page \subseteq live \cap Txn
    BY <1>5
  <2> QED
    <3>1. export.cursor' \in Txn \cup {0}
      BY <2>5
    <3> HIDE DEF lt, c, R, page
    <3>2. Turned(page)
      BY <2>8, <2>9, <2>10, <2>11, <2>12, <3>1 DEF Turned
    <3> QED BY <1>6, <3>2 DEF page
<1> QED BY <1>7, <1>8

\* A statement of the backup adds rows as they are: those it finds that were not written
\* meanwhile are among them.
Reads(rows) ==
    /\ rows \subseteq live /\ export.doc' = B!Written(rows)
    /\ export.kind = "json" /\ export.kind' = "json" /\ export.touched' = export.touched
    /\ Going /\ Going' /\ live' = live /\ gone' = gone /\ refs' = refs
    /\ \A x \in B!Row : WasRead(x) => WasRead(x)'
    /\ \A x \in Kept : WasRead(x)' /\ (x \in Expense \cup Settlement => Team \in Kept) => WasRead(x) \/ x \in rows
    /\ export.pc' > 6 => \A k \in Kept \cap Record : refs[k] \cap Loan \subseteq DOMAIN export.doc \cup rows

\* Rows refer to rows of the first seven tables, which exist, or to what they may outlive.
LEMMA RefersEarly ==
  ASSUME Sorted, live \subseteq B!Row, Tied(live, gone, refs), NEW x \in live, NEW y \in refs[x]
  PROVE  (y \in live /\ At(y) <= 7) \/ Outlives(gone, x, y)
<1>1. Refer(live, refs)
  BY ReferByNames DEF Tied
<1>2. At(x) \in 1..11
  BY DEF Sorted
<1>3. y \in Account \cup Category \cup Tag \cup Plan \cup Loan \cup Record \cup Others
  <2>1. CASE At(x) \in {1, 2, 3, 8}
    BY <1>1, <2>1 DEF Refer
  <2>2. CASE At(x) \in {4, 5, 6, 7}
    BY <1>1, <2>2 DEF Refer
  <2>3. CASE At(x) \in {9, 10, 11}
    BY <1>1, <2>3 DEF Refer
  <2> QED BY <1>2, <2>1, <2>2, <2>3
<1>4. y \in live \/ Outlives(gone, x, y)
  BY DEF Tied
<1>5. ASSUME y \in live PROVE At(y) <= 7
  <2>1. y \in B!Row /\ y \notin Others
    BY <1>5 DEF Sorted
  <2>2. y \in Account \/ y \in Category \/ y \in Tag \/ y \in Plan \/ y \in Loan \/ y \in Record
    BY <1>3, <2>1
  <2>3. At(y) \in {1, 2, 3, 4, 6, 7}
    BY <2>1, <2>2 DEF Sorted
  <2> QED BY <2>3
<1> QED BY <1>4, <1>5

\* The document holds what was read, and what a row of it refers to.
LEMMA ReadKeeps ==
  ASSUME Sorted, live \subseteq B!Row, Tied(live, gone, refs), Holding, Inside, NEW rows, Reads(rows)
  PROVE  Holding' /\ Inside'
<1>1. /\ Kept' = Kept /\ live' = live /\ gone' = gone /\ refs' = refs
      /\ export.touched' = export.touched /\ rows \subseteq live
  BY DEF Reads, Kept
<1>2. /\ DOMAIN export.doc' = DOMAIN export.doc \cup rows
      /\ \A x \in rows : export.doc'[x] = refs[x]
      /\ \A x \in DOMAIN export.doc \ rows : export.doc'[x] = export.doc[x]
  BY DEF Reads, B!Written
<1>3. Going /\ export.kind = "json" /\ Going' /\ export.kind' = "json"
  BY DEF Reads
<1>4. ASSUME NEW x \in Kept, WasRead(x)', x \in Expense \cup Settlement => Team \in Kept
      PROVE  x \in DOMAIN export.doc' /\ export.doc'[x] = refs[x]
  <2>1. WasRead(x) \/ x \in rows
    BY <1>4 DEF Reads
  <2>2. CASE x \in rows
    BY <1>2, <2>2
  <2>3. CASE x \notin rows
    <3>1. x \in DOMAIN export.doc /\ export.doc[x] = refs[x]
      BY <1>3, <1>4, <2>1, <2>3 DEF Holding
    <3> QED BY <1>2, <2>3, <3>1
  <2> QED BY <2>2, <2>3
<1>5. export.pc' > 6 => \A k \in Kept \cap Record : refs[k] \cap Loan \subseteq DOMAIN export.doc'
  BY <1>2 DEF Reads
<1>6. Holding'
  BY <1>1, <1>4, <1>5 DEF Holding
<1>7. ASSUME NEW y \in live, At(y) <= 7
      PROVE  y \in DOMAIN export.doc' \cup export.touched \/ ~WasRead(y)'
  <2>1. y \notin Expense \cup Settlement
    <3>1. y \in B!Row
      BY <1>7
    <3> QED BY <1>7, <3>1 DEF Sorted
  <2> QED BY <1>4, <2>1 DEF Kept
<1>8. ASSUME NEW x \in DOMAIN export.doc', NEW y \in export.doc'[x]
      PROVE  \/ y \in DOMAIN export.doc' \cup export.touched \/ Outlives(gone, x, y)
             \/ y \in live /\ At(y) <= 7 /\ ~WasRead(y)'
  <2>1. CASE x \in rows
    <3>1. x \in live /\ y \in refs[x]
      BY <1>1, <1>2, <1>8, <2>1
    <3>2. (y \in live /\ At(y) <= 7) \/ Outlives(gone, x, y)
      BY <3>1, RefersEarly
    <3> QED BY <1>7, <3>2
  <2>2. CASE x \notin rows
    <3>1. x \in DOMAIN export.doc /\ y \in export.doc[x]
      BY <1>2, <1>8, <2>2
    <3>2. \/ y \in DOMAIN export.doc \cup export.touched \/ Outlives(gone, x, y)
          \/ y \in live /\ At(y) <= 7 /\ ~WasRead(y)
      BY <1>3, <3>1 DEF Inside
    <3> QED BY <1>2, <1>7, <3>2
  <2> QED BY <2>1, <2>2
<1>9. Inside'
  BY <1>1, <1>8 DEF Inside, Outlives
<1> QED BY <1>6, <1>9

\* A page leaves everything but the request.
LEMMA PageKeeps ==
  ASSUME BackupSetting, Sorted, BackupInv, export.kind \in {"json", "csv"}, B!ReadPage(NextPage)
  PROVE  BackupInv'
<1> DEFINE page == NextPage
<1>1. Turned(page) /\ Fields(page)
  BY PageTurned DEF BackupInv
<1> HIDE DEF page
<1>2. /\ export.kind' = export.kind /\ export.touched' = export.touched
      /\ export.pc = 11 /\ export.pc' = IF Cardinality(page) < PageSize THEN 12 ELSE 11
      /\ export.doc' = IF export.kind = "json" THEN B!Written(page) ELSE export.doc
      /\ export.listed' = [t \in Txn |-> IF t \in page THEN export.listed[t] + 1 ELSE export.listed[t]]
      /\ DOMAIN export' = DOMAIN export
      /\ live' = live /\ gone' = gone /\ refs' = refs /\ occurred' = occurred /\ writes' = writes
  BY <1>1 DEF Fields
<1>3. /\ page \subseteq live /\ page \subseteq Txn
      /\ \A t \in page : ~Passed(t) /\ Passed(t)'
      /\ \A t \in Txn : Passed(t) => Passed(t)'
      /\ \A t \in live \cap Txn : Passed(t)' => Passed(t) \/ t \in page
      /\ Cardinality(page) < PageSize => \A t \in live \cap Txn : Passed(t)'
      /\ export.cursor' \in Txn \cup {0}
  BY <1>1 DEF Turned
<1>4. B!TypeOK /\ Tied(live, gone, refs) /\ Steps /\ Listing /\ Holding /\ Inside
  BY DEF BackupInv
<1>5. Going /\ Going' /\ Kept' = Kept /\ export.pc' \in {11, 12}
  BY <1>2 DEF Going, Kept
<1>6. Txn \subseteq B!Row /\ live \subseteq B!Row
  BY <1>4 DEF B!Row, B!TypeOK
<1>7. B!TypeOK'
  <2>1. export.listed' \in [Txn -> Nat]
    <3>1. export.listed \in [Txn -> Nat]
      BY <1>4 DEF B!TypeOK
    <3> QED BY <1>2, <3>1
  <2>2. DOMAIN export.doc' \subseteq DOMAIN export.doc \cup page
    BY <1>2 DEF B!Written
  <2>3. DOMAIN export.doc' \cup export.touched' \subseteq B!Row
    BY <1>2, <1>3, <1>4, <1>6, <2>2 DEF B!TypeOK
  <2>4. export.pc' \in 0..B!Aborted'
    BY <1>5, Places
  <2>5. /\ live' \subseteq B!Row /\ gone' \subseteq B!Row \ live' /\ occurred' \subseteq Txn
        /\ refs' \in [B!Row -> SUBSET (B!Row \cup Others)] /\ writes' \in 0..MaxWrites
        /\ export.kind' \in {"none", "json", "csv"}
    BY <1>2, <1>4 DEF B!TypeOK
  <2> QED BY <2>1, <2>3, <2>4, <2>5 DEF B!TypeOK
<1>8. Tied(live, gone, refs)'
  BY <1>2, <1>4
<1>9. Steps'
  <2>1. DOMAIN export' = {"kind", "pc", "cursor", "doc", "listed", "touched"}
    BY <1>2, <1>4 DEF Steps
  <2> QED BY <1>3, <1>5, <2>1 DEF Steps
<1>10. Listing'
  <2>1. \A t \in Txn : export.listed'[t] = IF t \in page THEN export.listed[t] + 1 ELSE export.listed[t]
    BY <1>2
  <2>2. \A t \in Txn : export.listed[t] \in Nat
    BY <1>4 DEF B!TypeOK
  <2>3. /\ \A t \in Txn : export.listed[t] > 0 => t \in live \cup export.touched
        /\ \A t \in Txn : ~Passed(t) => export.listed[t] = 0
        /\ \A t \in Txn \cap Kept : Passed(t) => export.listed[t] = 1
    BY <1>4, <1>5 DEF Listing
  <2>4. ASSUME NEW t \in Txn, export.listed'[t] > 0 PROVE t \in live \cup export.touched
    BY <1>3, <2>1, <2>3, <2>4
  <2>5. ASSUME NEW t \in Txn, ~Passed(t)' PROVE export.listed'[t] = 0
    <3>1. ~Passed(t) /\ t \notin page
      BY <1>3, <2>5
    <3> QED BY <2>1, <2>3, <3>1
  <2>6. ASSUME NEW t \in Txn \cap Kept, Passed(t)' PROVE export.listed'[t] = 1
    <3>1. CASE t \in page
      BY <1>3, <2>1, <2>3, <3>1
    <3>2. CASE t \notin page
      <4>1. Passed(t)
        BY <1>3, <2>6, <3>2 DEF Kept
      <4> QED BY <2>1, <2>3, <3>2, <4>1
    <3> QED BY <3>1, <3>2
  <2>7. ASSUME export.pc' = 12, NEW t \in Txn \cap Kept PROVE Passed(t)'
    <3>1. Cardinality(page) < PageSize
      BY <1>2, <2>7
    <3> QED BY <1>3, <3>1 DEF Kept
  <2>8. \A t \in Txn : export.listed'[t] > 0 => t \in live' \cup export.touched'
    BY <1>2, <2>4
  <2>9. \A t \in Txn \cap Kept' : Passed(t)' => export.listed'[t] = 1
    BY <1>5, <2>6
  <2>10. export.pc' = 12 => \A t \in Txn \cap Kept' : Passed(t)'
    BY <1>5, <2>7
  <2> QED BY <2>5, <2>8, <2>9, <2>10 DEF Listing
<1>11. Holding' /\ Inside'
  <2>1. CASE export.kind # "json"
    BY <1>2, <2>1 DEF Holding, Inside
  <2>2. CASE export.kind = "json"
    <3>1. export.doc' = B!Written(page)
      BY <1>2, <2>2
    <3>2. ASSUME NEW x \in B!Row PROVE WasRead(x) => WasRead(x)'
      <4>0. At(x) \in 1..11
        BY DEF Sorted
      <4>1. CASE At(x) < 11
        BY <1>5, <4>0, <4>1 DEF WasRead
      <4>2. CASE ~(At(x) < 11)
        <5>1. x \in Txn
          BY <4>2 DEF Sorted
        <5> QED BY <1>3, <4>2, <5>1 DEF WasRead
      <4> QED BY <4>1, <4>2
    <3>3. ASSUME NEW x \in Kept, WasRead(x)' PROVE WasRead(x) \/ x \in page
      <4>0. x \in B!Row /\ x \in live
        BY <1>6 DEF Kept
      <4>1. CASE At(x) < 11
        BY <1>2, <4>1 DEF WasRead
      <4>2. CASE ~(At(x) < 11)
        <5>1. x \in Txn
          BY <4>0, <4>2 DEF Sorted
        <5> QED BY <1>3, <3>3, <4>0, <4>2, <5>1 DEF WasRead
      <4> QED BY <4>1, <4>2
    <3>4. \A k \in Kept \cap Record : refs[k] \cap Loan \subseteq DOMAIN export.doc \cup page
      BY <1>2, <1>4, <1>5, <2>2 DEF Holding
    <3>5. Reads(page)
      BY <1>2, <1>3, <1>5, <2>2, <3>1, <3>2, <3>3, <3>4 DEF Reads
    <3> QED BY <1>4, <1>6, <3>5, ReadKeeps
  <2> QED BY <2>1, <2>2
<1> QED BY <1>7, <1>8, <1>9, <1>10, <1>11 DEF BackupInv

\* The statement of a section finds the rows of its table, of records those whose loan
\* exists and of a group's those of a member.
Found(i, rows) ==
    \A x : x \in rows <=> /\ x \in live /\ At(x) = i
                          /\ i = 7 => refs[x] \cap Loan \subseteq live
                          /\ i \in {9, 10} => Team \in live

\* Section by section
LEMMA SectionRows ==
  ASSUME Sorted, live \subseteq B!Row, NEW i \in 1..10
  PROVE  Found(i, B!Sections[i])
<1>1. ASSUME NEW a, NEW b, NEW c, NEW d, NEW e, NEW f, NEW g, NEW h, NEW j, NEW k, NEW s,
             s = <<a, b, c, d, e, f, g, h, j, k>>
      PROVE  /\ s[1] = a /\ s[2] = b /\ s[3] = c /\ s[4] = d /\ s[5] = e
             /\ s[6] = f /\ s[7] = g /\ s[8] = h /\ s[9] = j /\ s[10] = k
  BY <1>1
<1>2. /\ B!Sections[1] = B!ExportAccounts /\ B!Sections[2] = B!ExportOwnedCategories
      /\ B!Sections[3] = B!ExportTags /\ B!Sections[4] = B!ExportPlannedPayments
      /\ B!Sections[5] = B!ExportBudgets /\ B!Sections[6] = B!ExportLoans
      /\ B!Sections[7] = B!ExportLoanRecords /\ B!Sections[8] = B!ExportMyGroups
      /\ B!Sections[9] = B!ExportMyGroupExpenses /\ B!Sections[10] = B!ExportMyGroupSettlements
  BY <1>1 DEF B!Sections
<1>3. \A x \in live : At(x) \in 1..11
  BY DEF Sorted
<1>4. \A x \in live : /\ x \in Account <=> At(x) = 1
                      /\ x \in Category <=> At(x) = 2
                      /\ x \in Tag <=> At(x) = 3
                      /\ x \in Plan <=> At(x) = 4
                      /\ x \in Budget <=> At(x) = 5
                      /\ x \in Loan <=> At(x) = 6
                      /\ x \in Record <=> At(x) = 7
                      /\ x = Team <=> At(x) = 8
                      /\ x \in Expense <=> At(x) = 9
                      /\ x \in Settlement <=> At(x) = 10
  BY DEF Sorted
<1>5. CASE i \in {1, 2, 3}
  <2>1. CASE i = 1
    BY <1>2, <1>4, <2>1 DEF Found, B!ExportAccounts, B!Live
  <2>2. CASE i = 2
    BY <1>2, <1>4, <2>2 DEF Found, B!ExportOwnedCategories, B!Live
  <2>3. CASE i = 3
    BY <1>2, <1>4, <2>3 DEF Found, B!ExportTags, B!Live
  <2> QED BY <1>5, <2>1, <2>2, <2>3
<1>6. CASE i \in {4, 5, 6}
  <2>1. CASE i = 4
    BY <1>2, <1>4, <2>1 DEF Found, B!ExportPlannedPayments, B!Live
  <2>2. CASE i = 5
    BY <1>2, <1>4, <2>2 DEF Found, B!ExportBudgets, B!Live
  <2>3. CASE i = 6
    BY <1>2, <1>4, <2>3 DEF Found, B!ExportLoans, B!Live
  <2> QED BY <1>6, <2>1, <2>2, <2>3
<1>7. CASE i \in {7, 8}
  <2>1. CASE i = 7
    BY <1>2, <1>4, <2>1 DEF Found, B!ExportLoanRecords, B!Live
  <2>2. CASE i = 8
    BY <1>2, <1>4, <2>2 DEF Found, B!ExportMyGroups, B!Live
  <2> QED BY <1>7, <2>1, <2>2
<1>8. CASE i \in {9, 10}
  <2>1. CASE i = 9
    BY <1>2, <1>4, <2>1 DEF Found, B!ExportMyGroupExpenses, B!Live
  <2>2. CASE i = 10
    BY <1>2, <1>4, <2>2 DEF Found, B!ExportMyGroupSettlements, B!Live
  <2> QED BY <1>8, <2>1, <2>2
<1> QED BY <1>5, <1>6, <1>7, <1>8

\* A record refers to a loan that exists.
LEMMA LoanThere ==
  ASSUME Sorted, live \subseteq B!Row, Tied(live, gone, refs), NEW k \in live \cap Record
  PROVE  refs[k] \cap Loan \subseteq live
<1>1. SUFFICES ASSUME NEW y \in refs[k] \cap Loan PROVE y \in live
  OBVIOUS
<1>2. (y \in live) \/ Outlives(gone, k, y)
  BY DEF Tied
<1>3. k \notin Budget /\ k \notin Txn /\ k \notin Expense
  <2>1. k \in B!Row
    OBVIOUS
  <2> QED BY <2>1 DEF Sorted
<1> QED BY <1>2, <1>3 DEF Outlives

\* What a section leaves in the request
Section(i, rows) ==
    /\ i = export.pc /\ i \in 1..10 /\ rows = B!Nested(B!Sections[i])
    /\ export.pc' = i + 1 /\ export.doc' = B!Written(rows)
    /\ export.kind' = export.kind /\ export.cursor' = export.cursor
    /\ export.listed' = export.listed /\ export.touched' = export.touched
    /\ DOMAIN export' = DOMAIN export
    /\ live' = live /\ gone' = gone /\ refs' = refs /\ occurred' = occurred /\ writes' = writes

\* A section sets two fields.
LEMMA ReadsSection ==
  ASSUME Steps, B!ReadSection
  PROVE  Section(export.pc, B!Nested(B!Sections[export.pc]))
<1> DEFINE rows == B!Nested(B!Sections[export.pc])
           d1 == B!Written(rows)
<1>1. ASSUME NEW e, DOMAIN e = {"kind", "pc", "cursor", "doc", "listed", "touched"},
             NEW f, NEW p1, NEW d2, f = [e EXCEPT !.pc = p1, !.doc = d2]
      PROVE  /\ f.kind = e.kind /\ f.pc = p1 /\ f.cursor = e.cursor /\ f.doc = d2
             /\ f.listed = e.listed /\ f.touched = e.touched /\ DOMAIN f = DOMAIN e
  BY <1>1
<1>2. export' = [export EXCEPT !.pc = export.pc + 1, !.doc = d1]
  BY DEF B!ReadSection
<1>3. /\ export.pc \in 1..10
      /\ live' = live /\ gone' = gone /\ refs' = refs /\ occurred' = occurred /\ writes' = writes
  BY Places DEF B!ReadSection
<1>4. DOMAIN export = {"kind", "pc", "cursor", "doc", "listed", "touched"}
  BY DEF Steps
<1> SUFFICES /\ export.pc' = export.pc + 1 /\ export.doc' = d1
             /\ export.kind' = export.kind /\ export.cursor' = export.cursor
             /\ export.listed' = export.listed /\ export.touched' = export.touched
             /\ DOMAIN export' = DOMAIN export
  BY <1>3 DEF Section
<1> HIDE DEF d1
<1> QED BY <1>1, <1>2, <1>4

\* A section of the backup leaves everything but the request.
LEMMA SectionKeeps ==
  ASSUME Sorted, BackupInv, B!ReadSection
  PROVE  BackupInv'
<1> DEFINE i == export.pc
           rows == B!Nested(B!Sections[export.pc])
<1>1. Section(i, rows)
  BY ReadsSection DEF BackupInv
<1>2. /\ i \in 1..10 /\ rows = B!Nested(B!Sections[i])
      /\ export.pc' = i + 1 /\ export.doc' = B!Written(rows)
      /\ export.kind' = export.kind /\ export.cursor' = export.cursor
      /\ export.listed' = export.listed /\ export.touched' = export.touched
      /\ DOMAIN export' = DOMAIN export
      /\ live' = live /\ gone' = gone /\ refs' = refs /\ occurred' = occurred /\ writes' = writes
  <2> HIDE DEF i, rows
  <2> QED BY <1>1 DEF Section
<1>3. B!TypeOK /\ Tied(live, gone, refs) /\ Steps /\ Listing /\ Holding /\ Inside
  BY DEF BackupInv
<1>4. live \subseteq B!Row
  BY <1>3 DEF B!TypeOK
<1>5. Found(i, B!Sections[i])
  <2> HIDE DEF i
  <2> QED BY <1>2, <1>4, SectionRows
<1>6. rows \subseteq live
  <2>1. rows \subseteq B!Sections[i]
    BY DEF B!Nested
  <2> HIDE DEF rows
  <2> QED BY <1>5, <2>1 DEF Found
<1>7. Going /\ Going' /\ Kept' = Kept /\ i = export.pc
  <2>1. i = export.pc
    OBVIOUS
  <2> HIDE DEF i, rows
  <2> QED BY <1>2, <2>1 DEF Going, Kept
<1>8. /\ export.cursor = 0 /\ export.cursor' = 0
      /\ \A t : ~Passed(t) /\ ~Passed(t)'
  <2>1. export.cursor = 0 /\ export.cursor' = 0
    BY <1>2, <1>3 DEF Steps
  <2> QED BY <2>1 DEF Passed
<1> HIDE DEF i
<1>9. B!TypeOK'
  <2>1. DOMAIN export.doc' \subseteq DOMAIN export.doc \cup rows
    BY <1>2 DEF B!Written
  <2>2. DOMAIN export.doc' \cup export.touched' \subseteq B!Row
    BY <1>2, <1>3, <1>4, <1>6, <2>1 DEF B!TypeOK
  <2>3. export.pc' \in 0..B!Aborted'
    BY <1>2, Places
  <2>4. /\ live' \subseteq B!Row /\ gone' \subseteq B!Row \ live' /\ occurred' \subseteq Txn
        /\ refs' \in [B!Row -> SUBSET (B!Row \cup Others)] /\ writes' \in 0..MaxWrites
        /\ export.kind' \in {"none", "json", "csv"} /\ export.listed' \in [Txn -> Nat]
    BY <1>2, <1>3 DEF B!TypeOK
  <2> QED BY <2>2, <2>3, <2>4 DEF B!TypeOK
<1>10. Tied(live, gone, refs)'
  BY <1>2, <1>3
<1>11. Steps'
  BY <1>2, <1>3, <1>8 DEF Steps
<1>12. Listing'
  <2>1. /\ \A t \in Txn : export.listed'[t] > 0 => t \in live' \cup export.touched'
        /\ \A t \in Txn : ~Passed(t)' => export.listed'[t] = 0
    BY <1>2, <1>3, <1>7, <1>8 DEF Listing
  <2>2. export.pc' # 12
    BY <1>2
  <2> QED BY <1>8, <2>1, <2>2 DEF Listing
<1>13. Holding' /\ Inside'
  <2>1. CASE export.kind # "json"
    BY <1>2, <2>1 DEF Holding, Inside
  <2>2. CASE export.kind = "json"
    <3>1. ASSUME NEW x \in B!Row, WasRead(x) PROVE WasRead(x)'
      <4>1. At(x) \in 1..11
        BY DEF Sorted
      <4> QED BY <1>2, <1>7, <1>8, <3>1, <4>1 DEF WasRead
    <3>2. ASSUME NEW x \in Kept, WasRead(x)', x \in Expense \cup Settlement => Team \in Kept
          PROVE  WasRead(x) \/ x \in rows
      <4>1. x \in live /\ x \in B!Row /\ At(x) \in 1..11
        BY <1>4 DEF Kept, Sorted
      <4>2. CASE At(x) # i
        BY <1>2, <1>7, <1>8, <3>2, <4>1, <4>2 DEF WasRead
      <4>3. CASE At(x) = i
        <5>1. /\ x \in Record <=> i = 7
              /\ x \in Settlement <=> i = 10
              /\ x \in Expense <=> i = 9
          BY <4>1, <4>3 DEF Sorted
        <5>2. i \in {9, 10} => Team \in Kept
          BY <3>2, <5>1
        <5>3. i = 7 => refs[x] \cap Loan \subseteq live
          BY <1>3, <1>4, <4>1, <5>1, LoanThere
        <5>4. x \in B!Sections[i]
          BY <1>5, <4>1, <4>3, <5>2, <5>3 DEF Found, Kept
        <5>5. x \in Record => refs[x] \cap Loan \subseteq DOMAIN export.doc
          BY <1>3, <1>7, <2>2, <3>2, <5>1 DEF Holding
        <5>6. x \in Settlement => Team \in DOMAIN export.doc
          <6>1. SUFFICES ASSUME x \in Settlement PROVE Team \in DOMAIN export.doc
            OBVIOUS
          <6>2. i = 10 /\ Team \in Kept
            BY <5>1, <5>2, <6>1
          <6>3. At(Team) = 8 /\ Team \notin Expense \cup Settlement
            <7>1. Team \in B!Row
              BY DEF B!Row
            <7> QED BY <7>1 DEF Sorted
          <6>4. WasRead(Team)
            BY <1>7, <6>2, <6>3 DEF WasRead
          <6> QED BY <1>3, <1>7, <2>2, <6>2, <6>3, <6>4 DEF Holding
        <5> QED BY <5>4, <5>5, <5>6, <1>2 DEF B!Nested
      <4> QED BY <4>2, <4>3
    <3>3. ASSUME export.pc' > 6, NEW k \in Kept \cap Record
          PROVE  refs[k] \cap Loan \subseteq DOMAIN export.doc \cup rows
      <4>1. CASE i > 6
        BY <1>3, <1>7, <2>2, <3>3, <4>1 DEF Holding
      <4>2. CASE ~(i > 6)
        <5>1. i = 6
          BY <1>2, <3>3, <4>2
        <5>2. ASSUME NEW y \in refs[k] \cap Loan PROVE y \in rows
          <6>1. y \in live
            BY <1>3, <1>4, LoanThere DEF Kept
          <6>2. y \in B!Row /\ At(y) = 6 /\ y \notin Record /\ y \notin Settlement
            <7>1. y \in B!Row
              BY <1>4, <6>1
            <7> QED BY <7>1 DEF Sorted
          <6>3. y \in B!Sections[i]
            BY <1>5, <5>1, <6>1, <6>2 DEF Found
          <6> QED BY <1>2, <6>2, <6>3 DEF B!Nested
        <5> QED BY <5>2
      <4> QED BY <4>1, <4>2
    <3> HIDE DEF rows
    <3>4. Reads(rows)
      BY <1>2, <1>6, <1>7, <2>2, <3>1, <3>2, <3>3 DEF Reads
    <3> QED BY <1>3, <1>4, <3>4, ReadKeeps
  <2> QED BY <2>1, <2>2
<1> QED BY <1>9, <1>10, <1>11, <1>12, <1>13 DEF BackupInv

\* A write that leaves references as they should be: what it writes refers to what the table
\* may name and what exists then; whoever named a deleted row is deleted, written or may
\* outlive it; occurrences and bookings stay tied; no record changes its loan.
Good(changed, dead) ==
    /\ DOMAIN changed \subseteq B!Row \ gone /\ dead \subseteq live
    /\ \A x \in DOMAIN changed : changed[x] \subseteq Names[At(x)]
    /\ \A x \in DOMAIN changed : \A y \in changed[x] :
           y \in (live \cup DOMAIN changed) \ dead \/ Outlives(gone \cup dead, x, y)
    /\ \A x \in live \ (DOMAIN changed \cup dead) : \A y \in refs[x] \cap dead : Outlives(gone \cup dead, x, y)
    /\ \A t \in DOMAIN changed \cap Txn : \A p, q \in changed[t] \cap Plan : p = q
    /\ \A t \in DOMAIN changed \cap Txn : \A k \in changed[t] \cap Record :
           (IF k \in DOMAIN changed THEN changed[k] ELSE refs[k]) \cap Loan \subseteq changed[t]
    /\ \A k \in DOMAIN changed \cap Record \cap live : changed[k] \cap Loan \subseteq refs[k]

\* Names are rows or categories of others.
LEMMA NamesTyped == ASSUME NEW i \in 1..11 PROVE Names[i] \subseteq B!Row \cup Others
<1>1. /\ Names[1] = {} /\ Names[2] = {} /\ Names[3] = {}
      /\ Names[4] = Account \cup Category \cup Tag
      /\ Names[5] = Account \cup Category /\ Names[6] = Account
      /\ Names[7] = Account \cup Loan /\ Names[8] = {}
      /\ Names[9] = Account \cup Category \cup Others /\ Names[10] = Account
      /\ Names[11] = Account \cup Category \cup Tag \cup Plan \cup Loan \cup Record
  BY DEF Names
<1>2. CASE i \in {1, 2, 3, 8}
  BY <1>1, <1>2
<1>3. CASE i \in {4, 5, 6, 7}
  BY <1>1, <1>3 DEF B!Row
<1>4. CASE i \in {9, 10, 11}
  BY <1>1, <1>4 DEF B!Row
<1> QED BY <1>2, <1>3, <1>4

\* What a write does to the rows
Wrote(changed, dead) ==
    /\ live' = (live \cup DOMAIN changed) \ dead /\ gone' = gone \cup dead
    /\ \A x \in B!Row : refs'[x] = IF x \in DOMAIN changed THEN changed[x] ELSE refs[x]

\* References stay as they should be.
LEMMA StaysTied ==
  ASSUME Sorted, live \subseteq B!Row, Tied(live, gone, refs), NEW changed, NEW dead,
         Wrote(changed, dead), Good(changed, dead)
  PROVE  Tied(live, gone, refs)'
<1> DEFINE D == DOMAIN changed
<1>1. /\ live' = (live \cup D) \ dead /\ gone' = gone \cup dead
      /\ \A x \in D : refs'[x] = changed[x]
      /\ \A x \in live \ D : refs'[x] = refs[x]
      /\ live' \subseteq B!Row /\ D \subseteq B!Row
  BY DEF Wrote, Good
<1>2. /\ D \subseteq B!Row \ gone /\ dead \subseteq live
      /\ \A x \in D : changed[x] \subseteq Names[At(x)]
      /\ \A x \in D : \A y \in changed[x] : y \in (live \cup D) \ dead \/ Outlives(gone \cup dead, x, y)
      /\ \A x \in live \ (D \cup dead) : \A y \in refs[x] \cap dead : Outlives(gone \cup dead, x, y)
      /\ \A t \in D \cap Txn : \A p, q \in changed[t] \cap Plan : p = q
      /\ \A t \in D \cap Txn : \A k \in changed[t] \cap Record :
             (IF k \in D THEN changed[k] ELSE refs[k]) \cap Loan \subseteq changed[t]
      /\ \A k \in D \cap Record \cap live : changed[k] \cap Loan \subseteq refs[k]
  BY DEF Good
<1> HIDE DEF D
<1>3. /\ \A x \in live : refs[x] \subseteq Names[At(x)]
      /\ \A x \in live : \A y \in refs[x] : y \in live \/ Outlives(gone, x, y)
      /\ \A t \in live \cap Txn : \A p, q \in refs[t] \cap Plan : p = q
      /\ \A t \in live \cap Txn : \A k \in refs[t] \cap Record : refs[k] \cap Loan \subseteq refs[t]
  BY DEF Tied
<1>4. \A x \in live' : refs'[x] \subseteq Names[At(x)]
  BY <1>1, <1>2, <1>3
<1>5. ASSUME NEW x \in live', NEW y \in refs'[x] PROVE y \in live' \/ Outlives(gone', x, y)
  <2>1. CASE x \in D
    BY <1>1, <1>2, <1>5, <2>1
  <2>2. CASE x \notin D
    <3>1. x \in live \ (D \cup dead) /\ y \in refs[x]
      BY <1>1, <1>5, <2>2
    <3>2. CASE y \in dead
      BY <1>1, <1>2, <3>1, <3>2
    <3>3. CASE y \notin dead
      <4>1. y \in live \/ Outlives(gone, x, y)
        BY <1>3, <3>1
      <4> QED BY <1>1, <3>3, <4>1 DEF Outlives
    <3> QED BY <3>2, <3>3
  <2> QED BY <2>1, <2>2
<1>6. \A t \in live' \cap Txn : \A p, q \in refs'[t] \cap Plan : p = q
  BY <1>1, <1>2, <1>3
<1>7. ASSUME NEW t \in live' \cap Txn, NEW k \in refs'[t] \cap Record
      PROVE  refs'[k] \cap Loan \subseteq refs'[t]
  <2>0. \A x \in B!Row : refs'[x] = IF x \in D THEN changed[x] ELSE refs[x]
    BY DEF Wrote, D
  <2>1. Record \subseteq B!Row /\ k \in Record /\ k \in B!Row
    BY DEF B!Row
  <2>2. CASE t \in D
    <3>1. refs'[t] = changed[t] /\ k \in changed[t] \cap Record
      BY <1>1, <1>7, <2>2
    <3> QED BY <1>2, <2>0, <2>1, <2>2, <3>1
  <2>3. CASE t \notin D
    <3>1. t \in live /\ refs'[t] = refs[t] /\ k \in refs[t] \cap Record
      BY <1>1, <1>7, <2>3
    <3>2. k \in live
      <4>1. t \notin Budget /\ t \notin Expense /\ k \notin Plan
        BY <2>1, <3>1 DEF Sorted
      <4> QED BY <1>3, <3>1, <4>1 DEF Outlives
    <3>3. refs[k] \cap Loan \subseteq refs[t]
      BY <1>3, <3>1
    <3>4. refs'[k] \cap Loan \subseteq refs[k]
      BY <1>2, <2>0, <2>1, <3>2
    <3> QED BY <3>1, <3>3, <3>4
  <2> QED BY <2>2, <2>3
<1> QED BY <1>4, <1>5, <1>6, <1>7 DEF Tied

\* A write while the export runs touches what it writes, and is otherwise none of the
\* export's business.
LEMMA SaveKeeps ==
  ASSUME BackupSetting, Sorted, BackupInv, export.pc < 12, NEW changed, NEW dead, B!Save(changed, dead),
         Good(changed, dead), occurred' \subseteq Txn
  PROVE  BackupInv'
<1> DEFINE D == DOMAIN changed
           h1 == IF export.pc = 0 THEN {} ELSE export.touched \cup D \cup dead
<1>1. B!TypeOK /\ Tied(live, gone, refs) /\ Steps /\ Listing /\ Holding /\ Inside
  BY DEF BackupInv
<1>2. /\ export.pc' = export.pc /\ export.kind' = export.kind /\ export.cursor' = export.cursor
      /\ export.doc' = export.doc /\ export.listed' = export.listed /\ export.touched' = h1
      /\ DOMAIN export' = DOMAIN export
  <2>1. ASSUME NEW e, DOMAIN e = {"kind", "pc", "cursor", "doc", "listed", "touched"},
               NEW f, NEW h, f = [e EXCEPT !.touched = h]
        PROVE  /\ f.pc = e.pc /\ f.kind = e.kind /\ f.cursor = e.cursor /\ f.doc = e.doc
               /\ f.listed = e.listed /\ f.touched = h /\ DOMAIN f = DOMAIN e
    BY <2>1
  <2>2. export' = [export EXCEPT !.touched = h1]
    BY DEF B!Save
  <2>3. DOMAIN export = {"kind", "pc", "cursor", "doc", "listed", "touched"}
    BY <1>1 DEF Steps
  <2> HIDE DEF h1
  <2> QED BY <2>1, <2>2, <2>3
<1>3. /\ writes < MaxWrites /\ writes' = writes + 1
      /\ live' = (live \cup D) \ dead /\ gone' = gone \cup dead
      /\ refs' = [x \in B!Row |-> IF x \in D THEN changed[x] ELSE refs[x]]
  BY DEF B!Save
<1>4. /\ D \subseteq B!Row \ gone /\ dead \subseteq live
      /\ \A x \in D : changed[x] \subseteq B!Row \cup Others
  <2>1. /\ D \subseteq B!Row \ gone /\ dead \subseteq live
        /\ \A x \in D : changed[x] \subseteq Names[At(x)]
    BY DEF Good
  <2>2. \A x \in B!Row : At(x) \in 1..11
    BY DEF Sorted
  <2>3. \A x \in D : Names[At(x)] \subseteq B!Row \cup Others
    BY <2>1, <2>2, NamesTyped
  <2> QED BY <2>1, <2>3
<1> HIDE DEF D
<1>5. /\ live \subseteq B!Row /\ gone \subseteq B!Row \ live
      /\ refs \in [B!Row -> SUBSET (B!Row \cup Others)]
      /\ export.kind \in {"none", "json", "csv"} /\ export.pc \in 0..13
      /\ export.listed \in [Txn -> Nat] /\ DOMAIN export.doc \subseteq B!Row
      /\ export.touched \subseteq B!Row /\ writes \in 0..MaxWrites
  BY <1>1, Places DEF B!TypeOK
<1>6. \A x \in live' : x \notin D => x \in live /\ refs'[x] = refs[x]
  BY <1>3, <1>4, <1>5
<1>7. h1 \subseteq B!Row
  BY <1>4, <1>5
<1>8. B!TypeOK'
  <2>1. live' \subseteq B!Row /\ gone' \subseteq B!Row \ live'
    BY <1>3, <1>4, <1>5
  <2>2. refs' \in [B!Row -> SUBSET (B!Row \cup Others)]
    BY <1>3, <1>4, <1>5
  <2>3. writes' \in 0..MaxWrites
    <3>1. MaxWrites \in Nat
      BY DEF BackupSetting
    <3> QED BY <1>3, <1>5, <3>1
  <2>4. /\ export.kind' \in {"none", "json", "csv"} /\ export.listed' \in [Txn -> Nat]
        /\ DOMAIN export.doc' \cup export.touched' \subseteq B!Row
    BY <1>2, <1>5, <1>7
  <2>5. export.pc' \in 0..B!Aborted'
    BY <1>2, <1>5, Places
  <2> QED BY <2>1, <2>2, <2>3, <2>4, <2>5 DEF B!TypeOK
<1>9. Tied(live, gone, refs)'
  <2>1. Wrote(changed, dead)
    BY <1>3 DEF Wrote, D
  <2> QED BY <1>1, <1>5, <2>1, StaysTied
<1>10. Steps'
  BY <1>1, <1>2 DEF Steps
<1>11. Going' => Going /\ h1 = export.touched \cup D \cup dead
  BY <1>2 DEF Going
<1>12. \A x : Passed(x)' <=> Passed(x)
  BY <1>2 DEF Passed, B!Ahead, B!Newer
<1>13. \A x : WasRead(x)' <=> WasRead(x)
  BY <1>2, <1>12 DEF WasRead
<1> HIDE DEF h1
<1>14. ASSUME Going' PROVE Kept' \subseteq Kept /\ \A x \in Kept' : refs'[x] = refs[x]
  BY <1>2, <1>6, <1>11, <1>14 DEF Kept
<1>15. Listing'
  <2>1. SUFFICES ASSUME Going'
        PROVE  /\ \A t \in Txn : export.listed'[t] > 0 => t \in live' \cup export.touched'
               /\ \A t \in Txn : ~Passed(t)' => export.listed'[t] = 0
               /\ \A t \in Txn \cap Kept' : Passed(t)' => export.listed'[t] = 1
               /\ export.pc' = 12 => \A t \in Txn \cap Kept' : Passed(t)'
    BY DEF Listing
  <2>2. /\ \A t \in Txn : export.listed[t] > 0 => t \in live \cup export.touched
        /\ \A t \in Txn : ~Passed(t) => export.listed[t] = 0
        /\ \A t \in Txn \cap Kept : Passed(t) => export.listed[t] = 1
    BY <1>1, <1>11, <2>1 DEF Listing
  <2>3. live \subseteq live' \cup export.touched' /\ export.touched \subseteq export.touched'
    BY <1>2, <1>3, <1>11, <2>1
  <2>4. export.pc' # 12
    BY <1>2, <1>5
  <2> QED BY <1>2, <1>12, <1>14, <2>1, <2>2, <2>3, <2>4
<1>16. Holding'
  <2>1. SUFFICES ASSUME Going', export.kind' = "json"
        PROVE  /\ \A x \in Kept' : WasRead(x)' /\ (x \in Expense \cup Settlement => Team \in Kept') =>
                      x \in DOMAIN export.doc' /\ export.doc'[x] = refs'[x]
               /\ export.pc' > 6 => \A k \in Kept' \cap Record : refs'[k] \cap Loan \subseteq DOMAIN export.doc'
    BY DEF Holding
  <2>2. /\ \A x \in Kept : WasRead(x) /\ (x \in Expense \cup Settlement => Team \in Kept) =>
               x \in DOMAIN export.doc /\ export.doc[x] = refs[x]
        /\ export.pc > 6 => \A k \in Kept \cap Record : refs[k] \cap Loan \subseteq DOMAIN export.doc
    BY <1>1, <1>2, <1>11, <2>1 DEF Holding
  <2> QED BY <1>2, <1>13, <1>14, <2>1, <2>2
<1>17. Inside'
  <2>1. SUFFICES ASSUME Going', export.kind' = "json", NEW x \in DOMAIN export.doc', NEW y \in export.doc'[x]
        PROVE  \/ y \in DOMAIN export.doc' \cup export.touched' \/ Outlives(gone', x, y)
               \/ y \in live' /\ At(y) <= 7 /\ ~WasRead(y)'
    BY DEF Inside
  <2>2. \/ y \in DOMAIN export.doc \cup export.touched \/ Outlives(gone, x, y)
        \/ y \in live /\ At(y) <= 7 /\ ~WasRead(y)
    BY <1>1, <1>2, <1>11, <2>1 DEF Inside
  <2>3. live \subseteq live' \cup export.touched' /\ export.touched \subseteq export.touched'
    BY <1>2, <1>3, <1>11, <2>1
  <2>4. Outlives(gone, x, y) => Outlives(gone', x, y)
    BY <1>3 DEF Outlives
  <2> QED BY <1>2, <1>13, <2>2, <2>3, <2>4
<1> QED BY <1>8, <1>9, <1>10, <1>15, <1>16, <1>17 DEF BackupInv

\* A state the invariant holds in, in which writes may happen
Writable == BackupSetting /\ Sorted /\ BackupInv /\ export.pc < 12

\* The rows of a writable state
LEMMA Rows ==
  ASSUME Writable
  PROVE  /\ Sorted /\ live \subseteq B!Row /\ gone \subseteq B!Row /\ live \cap gone = {}
         /\ occurred \subseteq Txn /\ Tied(live, gone, refs) /\ Refer(live, refs)
<1>1. /\ Sorted /\ live \subseteq B!Row /\ gone \subseteq B!Row /\ live \cap gone = {}
      /\ occurred \subseteq Txn /\ Tied(live, gone, refs)
  BY DEF Writable, BackupInv, B!TypeOK
<1> QED BY <1>1, ReferByNames DEF Tied

\* What the rows of a table may name, by table
LEMMA NamesByTable ==
  ASSUME Sorted, NEW x \in B!Row
  PROVE  /\ x \in Plan => Names[At(x)] = Account \cup Category \cup Tag
         /\ x \in Budget => Names[At(x)] = Account \cup Category
         /\ x \in Loan => Names[At(x)] = Account
         /\ x \in Record => Names[At(x)] = Account \cup Loan
         /\ x \in Expense => Names[At(x)] = Account \cup Category \cup Others
         /\ x \in Settlement => Names[At(x)] = Account
         /\ x \in Txn => Names[At(x)] = Account \cup Category \cup Tag \cup Plan \cup Loan \cup Record
<1>1. /\ Names[4] = Account \cup Category \cup Tag
      /\ Names[5] = Account \cup Category /\ Names[6] = Account
      /\ Names[7] = Account \cup Loan
      /\ Names[9] = Account \cup Category \cup Others /\ Names[10] = Account
      /\ Names[11] = Account \cup Category \cup Tag \cup Plan \cup Loan \cup Record
  BY DEF Names
<1>2. /\ x \in Plan => At(x) = 4
      /\ x \in Budget => At(x) = 5
      /\ x \in Loan => At(x) = 6
      /\ x \in Record => At(x) = 7
      /\ x \in Expense => At(x) = 9
      /\ x \in Settlement => At(x) = 10
      /\ x \in Txn => At(x) = 11
  BY DEF Sorted
<1> QED BY <1>1, <1>2

\* What a row inserted or updated alone has to obey
Proper(x, what) ==
    /\ x \in B!Row \ gone /\ what \subseteq Names[At(x)]
    /\ \A y \in what : y \in live \/ Outlives(gone, x, y)
    /\ x \in Txn => \A p, q \in what \cap Plan : p = q
    /\ x \in Txn => \A k \in what \cap Record : refs[k] \cap Loan \subseteq what
    /\ x \in Record => x \notin live

\* Such an insert keeps the invariant.
LEMMA InsertKeeps ==
  ASSUME Writable, NEW x, NEW what, Proper(x, what), B!Insert(x, what), occurred' \subseteq Txn
  PROVE  BackupInv'
<1> DEFINE changed == [y \in {x} |-> what]
<1>1. B!Save(changed, {})
  BY DEF B!Insert
<1>2. DOMAIN changed = {x} /\ changed[x] = what
  OBVIOUS
<1>3. Sorted
  BY Rows
<1> HIDE DEF changed
<1>4. Good(changed, {})
  <2>1. /\ DOMAIN changed \subseteq B!Row \ gone
        /\ \A z \in DOMAIN changed : changed[z] \subseteq Names[At(z)]
        /\ \A z \in DOMAIN changed \cap Txn : \A p, q \in changed[z] \cap Plan : p = q
        /\ \A k \in DOMAIN changed \cap Record \cap live : changed[k] \cap Loan \subseteq refs[k]
    BY <1>2 DEF Proper
  <2>2. \A z \in DOMAIN changed : \A y \in changed[z] :
           y \in (live \cup DOMAIN changed) \ {} \/ Outlives(gone \cup {}, z, y)
    BY <1>2 DEF Proper, Outlives
  <2>3. ASSUME NEW t \in DOMAIN changed \cap Txn, NEW k \in changed[t] \cap Record
        PROVE  (IF k \in DOMAIN changed THEN changed[k] ELSE refs[k]) \cap Loan \subseteq changed[t]
    <3>1. t = x /\ x \in Txn /\ x \in B!Row
      BY <1>2 DEF Proper
    <3>2. k \notin DOMAIN changed
      BY <1>2, <1>3, <3>1 DEF Sorted
    <3> QED BY <1>2, <3>1, <3>2 DEF Proper
  <2> QED BY <2>1, <2>2, <2>3 DEF Good
<1> QED BY <1>1, <1>4, SaveKeeps DEF Writable

\* Whoever named a row that is deleted goes with it or may outlive it.
Cut(dead) == dead \subseteq live /\ \A x \in live \ dead : \A y \in refs[x] \cap dead : Outlives(dead, x, y)

\* Such a deletion keeps the invariant.
LEMMA DeleteKeeps ==
  ASSUME Writable, NEW dead, Cut(dead), B!Save([x \in {} |-> {}], dead), occurred' = occurred
  PROVE  BackupInv'
<1> DEFINE changed == [x \in {} |-> {}]
<1>1. B!Save(changed, dead) /\ DOMAIN changed = {}
  OBVIOUS
<1> HIDE DEF changed
<1>2. occurred' \subseteq Txn
  BY Rows
<1>3. Good(changed, dead)
  BY <1>1 DEF Good, Cut, Outlives
<1> QED BY <1>1, <1>2, <1>3, SaveKeeps DEF Writable

\* What validate accepts exists and belongs to the user.
LEMMA Accepted ==
  /\ \A P \in B!Places : P \subseteq Account \cap live
  /\ \A L \in B!AtMostOne(Category) : L \subseteq Category \cap live
  /\ \A L \in B!Labels : L \subseteq (Category \cup Tag) \cap live
<1>1. \A P \in B!Places : P \subseteq Account \cap live
  BY DEF B!Places, B!Live
<1>2. \A L \in B!AtMostOne(Category) : L \subseteq Category \cap live
  BY DEF B!AtMostOne, B!Live
<1>3. \A L \in B!Labels : L \subseteq (Category \cup Tag) \cap live
  BY <1>2 DEF B!Labels, B!Live
<1> QED BY <1>1, <1>2, <1>3

\* Accounts, categories and tags are created without references.
LEMMA CreatePlainKeeps ==
  ASSUME Writable, B!CreateAccount \/ B!CreateCategory \/ B!CreateTag
  PROVE  BackupInv'
<1>1. PICK x \in (Account \cup Category \cup Tag) \ (live \cup gone) : B!Insert(x, {}) /\ occurred' = occurred
  BY DEF B!CreateAccount, B!CreateCategory, B!CreateTag, B!Free
<1>2. x \in B!Row /\ x \notin Record
  <2>1. x \in B!Row
    BY DEF B!Row
  <2>2. x \in Account \/ x \in Category \/ x \in Tag
    OBVIOUS
  <2>3. At(x) # 7
    BY <2>1, <2>2, Rows DEF Sorted
  <2> QED BY <2>1, <2>3, Rows DEF Sorted
<1>3. Proper(x, {})
  BY <1>2 DEF Proper
<1> QED BY <1>1, <1>3, Rows, InsertKeeps

\* Transactions by hand
LEMMA CreateTransactionKeeps == ASSUME Writable, B!CreateTransaction PROVE BackupInv'
<1>1. PICK t \in B!Free(Txn), P \in B!Places, L \in B!Labels :
        B!Insert(t, P \cup L) /\ occurred' \in {occurred, occurred \cup {t}}
  BY DEF B!CreateTransaction
<1>2. t \in Txn /\ t \in B!Row \ gone
  BY DEF B!Free, B!Row
<1>3. P \cup L \subseteq (Account \cup Category \cup Tag) \cap live
  BY Accepted
<1>4. \A y \in P \cup L : y \notin Plan /\ y \notin Record
  <2>1. SUFFICES ASSUME NEW y \in P \cup L PROVE y \notin Plan /\ y \notin Record
    OBVIOUS
  <2>2. y \in B!Row /\ (y \in Account \/ y \in Category \/ y \in Tag)
    BY <1>3, Rows
  <2>3. At(y) \in {1, 2, 3}
    BY <2>2, Rows DEF Sorted
  <2> QED BY <2>2, <2>3, Rows DEF Sorted
<1>5. t \notin Record
  BY <1>2, Rows DEF Sorted
<1>6. Proper(t, P \cup L)
  <2>1. P \cup L \subseteq Names[At(t)]
    <3>1. Names[At(t)] = Account \cup Category \cup Tag \cup Plan \cup Loan \cup Record
      BY <1>2, Rows, NamesByTable
    <3> QED BY <1>3, <3>1
  <2> QED BY <1>2, <1>3, <1>4, <1>5, <2>1 DEF Proper
<1>7. occurred' \subseteq Txn
  BY <1>1, <1>2, Rows
<1> QED BY <1>1, <1>6, <1>7, InsertKeeps

\* An update keeps the plan.
LEMMA UpdateTransactionKeeps == ASSUME Writable, B!UpdateTransaction PROVE BackupInv'
<1>1. PICK t \in B!Live(Txn), P \in B!Places, L \in B!Labels :
        B!Insert(t, P \cup L \cup (refs[t] \cap Plan)) /\ occurred' = occurred
  BY DEF B!UpdateTransaction
<1> DEFINE what == P \cup L \cup (refs[t] \cap Plan)
<1>2. t \in Txn /\ t \in live /\ t \in B!Row \ gone
  BY Rows DEF B!Live
<1>3. P \cup L \subseteq (Account \cup Category \cup Tag) \cap live
  BY Accepted
<1>4. \A y \in P \cup L : y \notin Plan /\ y \notin Record
  <2>1. SUFFICES ASSUME NEW y \in P \cup L PROVE y \notin Plan /\ y \notin Record
    OBVIOUS
  <2>2. y \in B!Row /\ (y \in Account \/ y \in Category \/ y \in Tag)
    BY <1>3, Rows
  <2>3. At(y) \in {1, 2, 3}
    BY <2>2, Rows DEF Sorted
  <2> QED BY <2>2, <2>3, Rows DEF Sorted
<1>5. t \notin Record
  BY <1>2, Rows DEF Sorted
<1>6. what \cap Plan = refs[t] \cap Plan /\ what \cap Record = {}
  <2>1. Plan \cap Record = {}
    <3>1. Plan \subseteq B!Row
      BY DEF B!Row
    <3> QED BY <3>1, Rows DEF Sorted
  <2> QED BY <1>4, <2>1
<1>7. /\ \A y \in refs[t] : y \in live \/ Outlives(gone, t, y)
      /\ \A p, q \in refs[t] \cap Plan : p = q
  BY <1>2, Rows DEF Tied
<1>8. Proper(t, what)
  <2>1. what \subseteq Names[At(t)]
    <3>1. Names[At(t)] = Account \cup Category \cup Tag \cup Plan \cup Loan \cup Record
      BY <1>2, Rows, NamesByTable
    <3> QED BY <1>3, <3>1
  <2>2. \A y \in what : y \in live \/ Outlives(gone, t, y)
    BY <1>3, <1>7
  <2> HIDE DEF what
  <2> QED BY <1>2, <1>5, <1>6, <1>7, <2>1, <2>2 DEF Proper
<1> HIDE DEF what
<1>9. B!Insert(t, what)
  BY <1>1 DEF what
<1>10. occurred' \subseteq Txn
  BY <1>1, Rows
<1> QED BY <1>8, <1>9, <1>10, InsertKeeps

\* Who refers to what
LEMMA NamedBy ==
  ASSUME Writable, NEW x \in live, NEW y \in refs[x] \cap B!Row
  PROVE  /\ y \in Account => x \in Plan \cup Budget \cup Loan \cup Record \cup Expense \cup Settlement \cup Txn
         /\ y \in Category => x \in Plan \cup Budget \cup Expense \cup Txn
         /\ y \in Tag => x \in Plan \cup Txn
         /\ y \in Plan \cup Record => x \in Txn
         /\ y \in Loan => x \in Record \cup Txn
         /\ y \notin Budget /\ y \notin Txn /\ y # Team
<1>1. x \in B!Row /\ At(x) \in 1..11
  BY Rows DEF Sorted
<1>2. /\ x \in Plan <=> At(x) = 4
      /\ x \in Budget <=> At(x) = 5
      /\ x \in Loan <=> At(x) = 6
      /\ x \in Record <=> At(x) = 7
      /\ x \in Expense <=> At(x) = 9
      /\ x \in Settlement <=> At(x) = 10
      /\ x \in Txn <=> At(x) = 11
  BY <1>1, Rows DEF Sorted
<1>3. /\ y \notin Others
      /\ y \in Account <=> At(y) = 1
      /\ y \in Category <=> At(y) = 2
      /\ y \in Tag <=> At(y) = 3
      /\ y \in Plan <=> At(y) = 4
      /\ y \in Budget <=> At(y) = 5
      /\ y \in Loan <=> At(y) = 6
      /\ y \in Record <=> At(y) = 7
      /\ y = Team <=> At(y) = 8
      /\ y \in Txn <=> At(y) = 11
  BY Rows DEF Sorted
<1>4. /\ At(x) \notin {1, 2, 3, 8}
      /\ At(x) = 4 => y \in Account \/ y \in Category \/ y \in Tag
      /\ At(x) = 5 => y \in Account \/ y \in Category
      /\ At(x) = 6 => y \in Account
      /\ At(x) = 7 => y \in Account \/ y \in Loan
      /\ At(x) = 9 => y \in Account \/ y \in Category
      /\ At(x) = 10 => y \in Account
      /\ At(x) = 11 => y \in Account \/ y \in Category \/ y \in Tag \/ y \in Plan \/ y \in Loan \/ y \in Record
  <2>1. Refer(live, refs)
    BY Rows
  <2> QED BY <1>3, <2>1 DEF Refer
<1> HIDE DEF At
<1>5. CASE At(x) \in {4, 5}
  BY <1>2, <1>3, <1>4, <1>5
<1>6. CASE At(x) \in {6, 7}
  BY <1>2, <1>3, <1>4, <1>6
<1>7. CASE At(x) \in {9, 10}
  BY <1>2, <1>3, <1>4, <1>7
<1>8. CASE At(x) = 11
  BY <1>2, <1>3, <1>4, <1>8
<1> QED BY <1>1, <1>4, <1>5, <1>6, <1>7, <1>8

\* A budget refers to rows that exist and to those it had.
LEMMA BudgetKeeps ==
  ASSUME Writable, B!CreateBudget \/ B!UpdateBudget \/ B!DeleteBudget
  PROVE  BackupInv'
<1>1. ASSUME NEW b \in Budget \ gone, NEW what \in SUBSET ((Account \cup Category) \cap live),
             NEW old \in SUBSET gone, old = {} \/ (b \in live /\ old \subseteq refs[b]),
             B!Insert(b, what \cup old), occurred' = occurred
      PROVE  BackupInv'
  <2>1. b \in B!Row \ gone
    BY DEF B!Row
  <2>2. b \notin Txn /\ b \notin Record
    BY <2>1, Rows DEF Sorted
  <2>3. Names[At(b)] = Account \cup Category
    BY <2>1, Rows, NamesByTable
  <2>4. old \subseteq Names[At(b)]
    BY <1>1, Rows DEF Tied
  <2>5. Proper(b, what \cup old)
    BY <2>1, <2>2, <2>3, <2>4 DEF Proper, Outlives
  <2>6. occurred' \subseteq Txn
    BY <1>1, Rows
  <2> QED BY <1>1, <2>5, <2>6, InsertKeeps
<1>2. CASE B!CreateBudget
  <2>1. PICK b \in B!Free(Budget), what \in SUBSET B!Live(Account \cup Category) :
          B!Insert(b, what) /\ occurred' = occurred
    BY <1>2 DEF B!CreateBudget
  <2>2. b \in Budget \ gone /\ what \in SUBSET ((Account \cup Category) \cap live)
    BY DEF B!Free, B!Live
  <2>3. what \cup {} = what
    OBVIOUS
  <2>4. B!Insert(b, what \cup {})
    BY <2>1, <2>3
  <2> DEFINE old == {}
  <2>5. old \in SUBSET gone /\ old = {} /\ B!Insert(b, what \cup old)
    BY <2>4
  <2> HIDE DEF old
  <2> QED BY <1>1, <2>1, <2>2, <2>5
<1>3. CASE B!UpdateBudget
  <2>0. PICK b \in B!Live(Budget) :
          \E what \in SUBSET B!Live(Account \cup Category) : \E old \in SUBSET (refs[b] \cap gone) :
            B!Insert(b, what \cup old) /\ occurred' = occurred
    BY <1>3 DEF B!UpdateBudget
  <2>1. PICK what \in SUBSET B!Live(Account \cup Category), old \in SUBSET (refs[b] \cap gone) :
          B!Insert(b, what \cup old) /\ occurred' = occurred
    BY <2>0
  <2>2. /\ b \in Budget \ gone /\ what \in SUBSET ((Account \cup Category) \cap live)
        /\ b \in live /\ old \in SUBSET gone /\ old \subseteq refs[b]
    BY Rows DEF B!Live
  <2> QED BY <1>1, <2>1, <2>2
<1>4. CASE B!DeleteBudget
  <2>1. PICK b \in B!Live(Budget) : B!Save([x \in {} |-> {}], {b}) /\ occurred' = occurred
    BY <1>4 DEF B!DeleteBudget
  <2>2. Cut({b})
    <3>1. b \in Budget /\ b \in live /\ b \in B!Row
      BY Rows DEF B!Live
    <3> QED BY <3>1, NamedBy DEF Cut
  <2> QED BY <2>1, <2>2, DeleteKeeps
<1> QED BY <1>2, <1>3, <1>4

\* Expenses, settlements and the membership
LEMMA GroupKeeps ==
  ASSUME Writable, B!CreateExpense \/ B!Settle \/ B!Leave
  PROVE  BackupInv'
<1>1. CASE B!CreateExpense
  <2>1. PICK x \in B!Free(Expense) :
          /\ \/ \E a \in B!Live(Account), L \in B!AtMostOne(Category) : B!Insert(x, {a} \cup L)
             \/ \E c \in Others : B!Insert(x, {c})
          /\ occurred' = occurred
    BY <1>1 DEF B!CreateExpense
  <2>2. x \in B!Row \ gone /\ x \in Expense
    BY DEF B!Free, B!Row
  <2>3. x \notin Txn /\ x \notin Record
    BY <2>2, Rows DEF Sorted
  <2>4. Names[At(x)] = Account \cup Category \cup Others
    BY <2>2, Rows, NamesByTable
  <2>5. occurred' \subseteq Txn
    BY <2>1, Rows
  <2>6. ASSUME NEW a \in B!Live(Account), NEW L \in B!AtMostOne(Category), B!Insert(x, {a} \cup L)
        PROVE  BackupInv'
    <3>1. {a} \cup L \subseteq (Account \cup Category) \cap live
      BY Accepted DEF B!Live
    <3>2. Proper(x, {a} \cup L)
      BY <2>2, <2>3, <2>4, <3>1 DEF Proper
    <3> QED BY <2>5, <2>6, <3>2, InsertKeeps
  <2>7. ASSUME NEW c \in Others, B!Insert(x, {c}) PROVE BackupInv'
    <3>1. Proper(x, {c})
      BY <2>2, <2>3, <2>4 DEF Proper, Outlives
    <3> QED BY <2>5, <2>7, <3>1, InsertKeeps
  <2> QED BY <2>1, <2>6, <2>7
<1>2. CASE B!Settle
  <2>1. PICK s \in B!Free(Settlement), a \in B!Live(Account) : B!Insert(s, {a}) /\ occurred' = occurred
    BY <1>2 DEF B!Settle
  <2>2. s \in B!Row \ gone /\ s \in Settlement /\ a \in Account \cap live
    BY DEF B!Free, B!Row, B!Live
  <2>3. s \notin Txn /\ s \notin Record
    BY <2>2, Rows DEF Sorted
  <2>4. Names[At(s)] = Account
    BY <2>2, Rows, NamesByTable
  <2>5. Proper(s, {a})
    BY <2>2, <2>3, <2>4 DEF Proper
  <2>6. occurred' \subseteq Txn
    BY <2>1, Rows
  <2> QED BY <2>1, <2>5, <2>6, InsertKeeps
<1>3. CASE B!Leave
  <2>1. Team \in live /\ B!Save([x \in {} |-> {}], {Team}) /\ occurred' = occurred
    BY <1>3 DEF B!Leave
  <2>2. Cut({Team})
    <3>1. Team \in B!Row
      BY DEF B!Row
    <3> QED BY <2>1, <3>1, NamedBy DEF Cut
  <2> QED BY <2>1, <2>2, DeleteKeeps
<1> QED BY <1>1, <1>2, <1>3

\* A plan goes with its pending occurrences, those that occurred keep its id.
LEMMA DeletePlannedKeeps == ASSUME Writable, B!DeletePlanned PROVE BackupInv'
<1>1. PICK p \in B!Live(Plan) : B!Save([x \in {} |-> {}], {p} \cup B!Pending(p)) /\ occurred' = occurred
  BY DEF B!DeletePlanned
<1> DEFINE dead == {p} \cup B!Pending(p)
<1>2. p \in Plan /\ dead \subseteq live /\ dead \subseteq {p} \cup Txn
  BY DEF B!Live, B!Pending, B!Naming
<1>3. Cut(dead)
  <2>1. ASSUME NEW x \in live \ dead, NEW y \in refs[x] \cap dead PROVE Outlives(dead, x, y)
    <3>0. live \subseteq B!Row
      BY Rows
    <3>1. y \in B!Row /\ y \in dead
      BY <1>2, <3>0
    <3> HIDE DEF dead
    <3>2. y \notin Txn
      BY <3>1, NamedBy
    <3>3. y \in Plan
      BY <1>2, <3>1, <3>2
    <3>4. x \in Txn
      BY <3>1, <3>3, NamedBy
    <3> QED BY <3>1, <3>3, <3>4 DEF Outlives
  <2> HIDE DEF dead
  <2> QED BY <1>2, <2>1 DEF Cut
<1>4. B!Save([x \in {} |-> {}], dead) /\ occurred' = occurred
  BY <1>1
<1> HIDE DEF dead
<1> QED BY <1>3, <1>4, DeleteKeeps

\* A loan goes with its records and all bookings, a record with its booking.
LEMMA DeleteLoanKeeps == ASSUME Writable, B!DeleteLoan \/ B!DeleteLoanRecord PROVE BackupInv'
<1>0. live \subseteq B!Row /\ Tied(live, gone, refs)
  BY Rows
<1>1. CASE B!DeleteLoan
  <2>1. PICK l \in B!Live(Loan) :
          B!Save([x \in {} |-> {}], {l} \cup B!Naming(Record \cup Txn, l)) /\ occurred' = occurred
    BY <1>1 DEF B!DeleteLoan
  <2> DEFINE dead == {l} \cup B!Naming(Record \cup Txn, l)
  <2>2. /\ dead \subseteq live /\ l \in Loan
        /\ \A x \in live : x \in dead <=> x = l \/ (x \in Record \cup Txn /\ l \in refs[x])
    BY DEF B!Live, B!Naming
  <2> HIDE DEF dead
  <2>3. ASSUME NEW x \in live \ dead, NEW y \in refs[x] \cap dead PROVE FALSE
    <3>1. y \in B!Row /\ y \in live
      BY <1>0, <2>2
    <3>2. y \notin Txn
      BY <3>1, NamedBy
    <3>3. CASE y = l
      <4>1. x \in Record \cup Txn
        BY <2>2, <3>1, <3>3, NamedBy
      <4> QED BY <2>2, <3>3, <4>1
    <3>4. CASE y # l
      <4>1. y \in Record /\ l \in refs[y]
        BY <2>2, <3>1, <3>2, <3>4
      <4>2. x \in Txn
        BY <3>1, <4>1, NamedBy
      <4>3. refs[y] \cap Loan \subseteq refs[x]
        BY <1>0, <4>1, <4>2 DEF Tied
      <4> QED BY <2>2, <4>1, <4>2, <4>3
    <3> QED BY <3>3, <3>4
  <2>4. Cut(dead)
    BY <2>2, <2>3 DEF Cut
  <2>5. B!Save([x \in {} |-> {}], dead) /\ occurred' = occurred
    BY <2>1 DEF dead
  <2> QED BY <2>4, <2>5, DeleteKeeps
<1>2. CASE B!DeleteLoanRecord
  <2>1. PICK k \in B!Live(Record) :
          B!Save([x \in {} |-> {}], {k} \cup B!Naming(Txn, k)) /\ occurred' = occurred
    BY <1>2 DEF B!DeleteLoanRecord
  <2> DEFINE dead == {k} \cup B!Naming(Txn, k)
  <2>2. /\ dead \subseteq live /\ k \in Record /\ dead \subseteq {k} \cup Txn
        /\ \A x \in live : x \in Txn /\ k \in refs[x] => x \in dead
    BY DEF B!Live, B!Naming
  <2> HIDE DEF dead
  <2>3. ASSUME NEW x \in live \ dead, NEW y \in refs[x] \cap dead PROVE FALSE
    <3>1. y \in B!Row /\ y \in dead
      BY <1>0, <2>2
    <3>2. y = k
      BY <2>2, <3>1, NamedBy
    <3>3. x \in Txn
      BY <2>2, <3>1, <3>2, NamedBy
    <3> QED BY <2>2, <3>2, <3>3
  <2>4. Cut(dead)
    BY <2>2, <2>3 DEF Cut
  <2>5. B!Save([x \in {} |-> {}], dead) /\ occurred' = occurred
    BY <2>1 DEF dead
  <2> QED BY <2>4, <2>5, DeleteKeeps
<1> QED BY <1>1, <1>2

\* A plan, a loan or a record and the transaction that is its first
Booking(x, A, t, changed) ==
    /\ x \in B!Free(Plan \cup Loan \cup Record) /\ t \in B!Free(Txn)
    /\ A \subseteq live /\ A \subseteq Names[At(x)]
    /\ DOMAIN changed = {x, t} /\ changed[x] = A /\ changed[t] = {x} \cup A

\* Both are inserted in one write.
LEMMA BookingKeeps ==
  ASSUME Writable, NEW x, NEW A, NEW t, NEW changed, Booking(x, A, t, changed), B!Save(changed, {}),
         occurred' \subseteq Txn
  PROVE  BackupInv'
<1>1. /\ x \in B!Row /\ x \notin live /\ x \notin gone /\ x \in Plan \cup Loan \cup Record
      /\ t \in B!Row /\ t \notin live /\ t \notin gone /\ t \in Txn
      /\ A \subseteq live /\ A \subseteq Names[At(x)]
      /\ DOMAIN changed = {x, t} /\ changed[x] = A /\ changed[t] = {x} \cup A
  BY DEF Booking, B!Free, B!Row
<1>2. x \notin Txn /\ t \notin Record /\ x # t
  <2>1. At(t) = 11 /\ At(x) # 11
    BY <1>1, Rows DEF Sorted
  <2> QED BY <1>1, <2>1, Rows DEF Sorted
<1>3. A \subseteq Account \cup Category \cup Tag \cup Loan
  BY <1>1, Rows, NamesByTable
<1>4. \A y \in A : y \notin Plan /\ y \notin Record
  <2>1. SUFFICES ASSUME NEW y \in A PROVE y \notin Plan /\ y \notin Record
    OBVIOUS
  <2>2. y \in B!Row /\ (y \in Account \/ y \in Category \/ y \in Tag \/ y \in Loan)
    BY <1>1, <1>3, Rows
  <2>3. At(y) \in {1, 2, 3, 6}
    BY <2>2, Rows DEF Sorted
  <2> QED BY <2>2, <2>3, Rows DEF Sorted
<1>5. Names[At(t)] = Account \cup Category \cup Tag \cup Plan \cup Loan \cup Record
  BY <1>1, Rows, NamesByTable
<1>6. Good(changed, {})
  <2>1. /\ DOMAIN changed \subseteq B!Row \ gone /\ {} \subseteq live
        /\ \A z \in DOMAIN changed : changed[z] \subseteq Names[At(z)]
    BY <1>1, <1>3, <1>5
  <2>2. \A z \in DOMAIN changed : \A y \in changed[z] :
           y \in (live \cup DOMAIN changed) \ {} \/ Outlives(gone \cup {}, z, y)
    BY <1>1
  <2>3. \A z \in DOMAIN changed \cap Txn : \A p, q \in changed[z] \cap Plan : p = q
    BY <1>1, <1>2, <1>4
  <2>4. ASSUME NEW z \in DOMAIN changed \cap Txn, NEW k \in changed[z] \cap Record
        PROVE  (IF k \in DOMAIN changed THEN changed[k] ELSE refs[k]) \cap Loan \subseteq changed[z]
    <3>1. z = t /\ k = x
      BY <1>1, <1>2, <1>4
    <3> QED BY <1>1, <3>1
  <2>5. \A k \in DOMAIN changed \cap Record \cap live : changed[k] \cap Loan \subseteq refs[k]
    BY <1>1
  <2> QED BY <2>1, <2>2, <2>3, <2>4, <2>5 DEF Good
<1> QED BY <1>6, SaveKeeps DEF Writable

\* A plan and its first occurrence
LEMMA CreatePlannedKeeps == ASSUME Writable, B!CreatePlanned PROVE BackupInv'
<1>1. PICK p \in B!Free(Plan), n \in B!Free(Txn), P \in B!Places, L \in B!Labels :
        /\ B!Save([x \in {p, n} |-> IF x = p THEN P \cup L ELSE P \cup L \cup {p}], {})
        /\ occurred' = occurred
  BY DEF B!CreatePlanned
<1> DEFINE A == P \cup L
           changed == [x \in {p, n} |-> IF x = p THEN P \cup L ELSE P \cup L \cup {p}]
<1>2. p \in B!Row /\ p \in Plan /\ n \in B!Row /\ n \in Txn
  BY DEF B!Free, B!Row
<1>3. p # n
  BY <1>2, Rows DEF Sorted
<1>4. A \subseteq (Account \cup Category \cup Tag) \cap live
  BY Accepted
<1>5. Names[At(p)] = Account \cup Category \cup Tag
  BY <1>2, Rows, NamesByTable
<1>6. p \in B!Free(Plan \cup Loan \cup Record)
  BY DEF B!Free
<1>7. Booking(p, A, n, changed)
  BY <1>3, <1>4, <1>5, <1>6 DEF Booking
<1>8. B!Save(changed, {}) /\ occurred' \subseteq Txn
  BY <1>1, Rows
<1> HIDE DEF changed, A
<1> QED BY <1>7, <1>8, BookingKeeps

\* A loan and a record, booked or not
LEMMA CreateLoanKeeps == ASSUME Writable, B!CreateLoan \/ B!CreateLoanRecord PROVE BackupInv'
<1>1. ASSUME NEW x \in B!Free(Loan \cup Record), NEW A \in SUBSET live, A \subseteq Names[At(x)],
             NEW t \in B!Free(Txn), B!Save(B!WithBooking(x, A, {}, t), {}), occurred' = occurred \cup {t}
      PROVE  BackupInv'
  <2> DEFINE changed == B!WithBooking(x, A, {}, t)
  <2>1. t \in Txn /\ t \in B!Row /\ x \in B!Row /\ (x \in Loan \/ x \in Record)
    BY DEF B!Free, B!Row
  <2>2. x # t
    <3>1. At(x) # 11
      BY <2>1, Rows DEF Sorted
    <3> QED BY <2>1, <3>1, Rows DEF Sorted
  <2>3. DOMAIN changed = {x, t} /\ changed[x] = A /\ changed[t] = {x} \cup A
    BY <2>2 DEF B!WithBooking
  <2>4. x \in B!Free(Plan \cup Loan \cup Record)
    BY DEF B!Free
  <2> HIDE DEF changed
  <2>5. Booking(x, A, t, changed)
    BY <1>1, <2>3, <2>4 DEF Booking
  <2>6. B!Save(changed, {}) /\ occurred' \subseteq Txn
    BY <1>1, <2>1, Rows DEF changed
  <2> QED BY <2>5, <2>6, BookingKeeps
<1>2. ASSUME NEW x \in B!Free(Loan \cup Record), NEW A \in SUBSET live, A \subseteq Names[At(x)],
             B!Insert(x, A), occurred' = occurred
      PROVE  BackupInv'
  <2>1. x \in B!Row \ gone /\ x \notin live /\ (x \in Loan \/ x \in Record)
    BY DEF B!Free, B!Row
  <2>2. x \notin Txn
    <3>1. At(x) # 11
      BY <2>1, Rows DEF Sorted
    <3> QED BY <2>1, <3>1, Rows DEF Sorted
  <2>3. Proper(x, A)
    BY <1>2, <2>1, <2>2 DEF Proper
  <2>4. occurred' \subseteq Txn
    BY <1>2, Rows
  <2> QED BY <1>2, <2>3, <2>4, InsertKeeps
<1>3. CASE B!CreateLoan
  <2>1. PICK l \in B!Free(Loan), a \in B!Live(Account), t \in B!Free(Txn) :
          \/ B!Save(B!WithBooking(l, {}, {a}, t), {}) /\ occurred' = occurred \cup {t}
          \/ B!Insert(l, {}) /\ occurred' = occurred
    BY <1>3 DEF B!CreateLoan
  <2>2. /\ l \in B!Free(Loan \cup Record) /\ l \in Loan /\ l \in B!Row
        /\ a \in Account /\ a \in live
    BY DEF B!Free, B!Live, B!Row
  <2>3. Names[At(l)] = Account
    BY <2>2, Rows, NamesByTable
  <2>4. CASE B!Save(B!WithBooking(l, {}, {a}, t), {}) /\ occurred' = occurred \cup {t}
    <3> DEFINE A == {a}
    <3>1. A \in SUBSET live /\ A \subseteq Names[At(l)]
      BY <2>2, <2>3
    <3>2. B!WithBooking(l, A, {}, t) = B!WithBooking(l, {}, {a}, t)
      BY DEF B!WithBooking
    <3>3. B!Save(B!WithBooking(l, A, {}, t), {})
      <4> HIDE DEF A
      <4> QED BY <2>4, <3>2
    <3> HIDE DEF A
    <3> QED BY <1>1, <2>2, <2>4, <3>1, <3>3
  <2>5. CASE B!Insert(l, {}) /\ occurred' = occurred
    <3> DEFINE A == {}
    <3>1. A \in SUBSET live /\ A \subseteq Names[At(l)] /\ B!Insert(l, A)
      BY <2>5
    <3> HIDE DEF A
    <3> QED BY <1>2, <2>2, <2>5, <3>1
  <2> QED BY <2>1, <2>4, <2>5
<1>4. CASE B!CreateLoanRecord
  <2>1. PICK k \in B!Free(Record), l \in B!Live(Loan), a \in B!Live(Account), t \in B!Free(Txn) :
          \/ B!Save(B!WithBooking(k, {l}, {a}, t), {}) /\ occurred' = occurred \cup {t}
          \/ B!Insert(k, {l}) /\ occurred' = occurred
    BY <1>4 DEF B!CreateLoanRecord
  <2>2. /\ k \in B!Free(Loan \cup Record) /\ k \in Record /\ k \in B!Row
        /\ a \in Account /\ a \in live /\ l \in Loan /\ l \in live
    BY DEF B!Free, B!Live, B!Row
  <2>3. Names[At(k)] = Account \cup Loan
    BY <2>2, Rows, NamesByTable
  <2>4. CASE B!Save(B!WithBooking(k, {l}, {a}, t), {}) /\ occurred' = occurred \cup {t}
    <3> DEFINE A == {l} \cup {a}
    <3>1. A \in SUBSET live /\ A \subseteq Names[At(k)]
      BY <2>2, <2>3
    <3>2. B!WithBooking(k, A, {}, t) = B!WithBooking(k, {l}, {a}, t)
      <4>1. {k} \cup A \cup {} = {k} \cup {l} \cup {a} /\ A \cup {} = {l} \cup {a}
        OBVIOUS
      <4> QED BY <4>1 DEF B!WithBooking
    <3>3. B!Save(B!WithBooking(k, A, {}, t), {})
      <4> HIDE DEF A
      <4> QED BY <2>4, <3>2
    <3> HIDE DEF A
    <3> QED BY <1>1, <2>2, <2>4, <3>1, <3>3
  <2>5. CASE B!Insert(k, {l}) /\ occurred' = occurred
    <3> DEFINE A == {l}
    <3>1. A \in SUBSET live /\ A \subseteq Names[At(k)] /\ B!Insert(k, A)
      BY <2>2, <2>3, <2>5
    <3> HIDE DEF A
    <3> QED BY <1>2, <2>2, <2>5, <3>1
  <2> QED BY <2>1, <2>4, <2>5
<1> QED BY <1>3, <1>4

\* An occurrence that follows refers to its plan and to what the plan refers to.
LEMMA NextOccurrence ==
  ASSUME Writable, NEW p \in live \cap Plan, NEW new \in B!Following(p)
  PROVE  /\ DOMAIN new \subseteq B!Free(Txn)
         /\ \A n \in DOMAIN new : new[n] = refs[p] \cup {p}
         /\ refs[p] \cup {p} \subseteq live \cap (Account \cup Category \cup Tag \cup Plan)
         /\ (refs[p] \cup {p}) \cap Plan = {p} /\ (refs[p] \cup {p}) \cap (Record \cup Txn) = {}
<1>1. /\ DOMAIN new \subseteq B!Free(Txn)
      /\ \A n \in DOMAIN new : new[n] = refs[p] \cup {p}
  <2> DEFINE N == refs[p] \cup {p}
  <2>1. new = [t \in {} |-> {}] \/ \E n \in B!Free(Txn) : new = [t \in {n} |-> N]
    BY DEF B!Following
  <2> HIDE DEF N
  <2>2. CASE new = [t \in {} |-> {}]
    BY <2>2
  <2>3. ASSUME NEW n \in B!Free(Txn), new = [t \in {n} |-> N]
        PROVE  DOMAIN new \subseteq B!Free(Txn) /\ \A m \in DOMAIN new : new[m] = N
    BY <2>3
  <2> QED BY <2>1, <2>2, <2>3 DEF N
<1>2. p \in B!Row /\ At(p) = 4 /\ p \notin Budget /\ p \notin Txn /\ p \notin Expense /\ p \notin Record
  <2>1. p \in B!Row
    BY Rows
  <2> QED BY <2>1, Rows DEF Sorted
<1>3. refs[p] \subseteq Account \cup Category \cup Tag
  BY <1>2, Rows DEF Refer
<1>4. refs[p] \subseteq live
  BY <1>2, Rows DEF Tied, Outlives
<1>5. \A y \in refs[p] : y \notin Plan /\ y \notin Record /\ y \notin Txn
  <2>1. SUFFICES ASSUME NEW y \in refs[p] PROVE y \notin Plan /\ y \notin Record /\ y \notin Txn
    OBVIOUS
  <2>2. y \in B!Row /\ (y \in Account \/ y \in Category \/ y \in Tag)
    BY <1>3, <1>4, Rows
  <2>3. At(y) \in {1, 2, 3}
    BY <2>2, Rows DEF Sorted
  <2> QED BY <2>2, <2>3, Rows DEF Sorted
<1> QED BY <1>1, <1>2, <1>3, <1>4, <1>5

\* The plan of an occurrence, if it exists, is the only one it names.
LEMMA PlanOf ==
  ASSUME Writable, NEW t \in live \cap Txn, B!Live(refs[t] \cap Plan) # {}, NEW p \in refs[t] \cap Plan
  PROVE  p \in live \cap Plan
<1>1. PICK q \in refs[t] \cap Plan : q \in live
  BY DEF B!Live
<1>2. p = q
  BY Rows DEF Tied
<1> QED BY <1>1, <1>2

\* Paid, a transaction keeps its plan, its loan and what labels it.
LEMMA PaidFrom ==
  ASSUME Writable, NEW t \in live \cap Txn, NEW paid \in B!From(t)
  PROVE  Proper(t, paid)
<1>1. t \in B!Row \ gone /\ t \in Txn /\ t \notin Record
  <2>1. t \in B!Row \ gone
    BY Rows
  <2> QED BY <2>1, Rows DEF Sorted
<1>2. Names[At(t)] = Account \cup Category \cup Tag \cup Plan \cup Loan \cup Record
  BY <1>1, Rows, NamesByTable
<1>3. /\ refs[t] \subseteq Names[At(t)]
      /\ \A y \in refs[t] : y \in live \/ Outlives(gone, t, y)
      /\ \A p, q \in refs[t] \cap Plan : p = q
      /\ \A k \in refs[t] \cap Record : refs[k] \cap Loan \subseteq refs[t]
  BY Rows DEF Tied
<1>4. CASE paid = refs[t]
  BY <1>1, <1>3, <1>4 DEF Proper
<1>5. ASSUME NEW a \in B!Live(Account), paid = (refs[t] \ Account) \cup {a} PROVE Proper(t, paid)
  <2>1. a \in Account /\ a \in live /\ a \in B!Row
    BY Rows DEF B!Live
  <2>2. a \notin Plan /\ a \notin Record /\ a \notin Loan
    BY <2>1, Rows DEF Sorted
  <2>3. paid \subseteq Names[At(t)]
    BY <1>2, <1>3, <1>5, <2>1
  <2>4. \A y \in paid : y \in live \/ Outlives(gone, t, y)
    BY <1>3, <1>5, <2>1
  <2>5. \A p, q \in paid \cap Plan : p = q
    BY <1>3, <1>5, <2>2
  <2>6. ASSUME NEW k \in paid \cap Record PROVE refs[k] \cap Loan \subseteq paid
    <3>1. k \in refs[t] \cap Record
      BY <1>5, <2>2
    <3>2. refs[k] \cap Loan \subseteq refs[t]
      BY <1>3, <3>1
    <3>3. Loan \cap Account = {}
      <4>1. Loan \subseteq B!Row
        BY DEF B!Row
      <4> QED BY <4>1, Rows DEF Sorted
    <3> QED BY <1>5, <3>2, <3>3
  <2> QED BY <1>1, <2>3, <2>4, <2>5, <2>6 DEF Proper
<1> QED BY <1>4, <1>5 DEF B!From

\* Payment: the occurrence is rewritten and the next one inserted.
LEMMA PayTransactionKeeps == ASSUME Writable, B!PayTransaction PROVE BackupInv'
<1>1. PICK t \in B!Live(Txn) \ occurred : \E paid \in B!From(t) :
        /\ occurred' = occurred \cup {t}
        /\ IF B!Live(refs[t] \cap Plan) = {} THEN B!Insert(t, paid)
           ELSE \E p \in refs[t] \cap Plan : \E new \in B!Following(p) :
                  B!Save([x \in {t} \cup DOMAIN new |-> IF x = t THEN paid ELSE new[x]], {})
  BY DEF B!PayTransaction
<1>2. PICK paid \in B!From(t) :
        /\ occurred' = occurred \cup {t}
        /\ IF B!Live(refs[t] \cap Plan) = {} THEN B!Insert(t, paid)
           ELSE \E p \in refs[t] \cap Plan : \E new \in B!Following(p) :
                  B!Save([x \in {t} \cup DOMAIN new |-> IF x = t THEN paid ELSE new[x]], {})
  BY <1>1
<1>3. t \in live \cap Txn /\ occurred' \subseteq Txn
  BY <1>2, Rows DEF B!Live
<1>4. Proper(t, paid)
  BY <1>3, PaidFrom
<1>5. CASE B!Live(refs[t] \cap Plan) = {}
  <2>1. B!Insert(t, paid)
    BY <1>2, <1>5
  <2> QED BY <1>3, <1>4, <2>1, InsertKeeps
<1>6. CASE B!Live(refs[t] \cap Plan) # {}
  <2>1. PICK p \in refs[t] \cap Plan : \E new \in B!Following(p) :
          B!Save([x \in {t} \cup DOMAIN new |-> IF x = t THEN paid ELSE new[x]], {})
    BY <1>2, <1>6
  <2>2. PICK new \in B!Following(p) :
          B!Save([x \in {t} \cup DOMAIN new |-> IF x = t THEN paid ELSE new[x]], {})
    BY <2>1
  <2>3. p \in live \cap Plan
    BY <1>3, <1>6, PlanOf
  <2> DEFINE N == refs[p] \cup {p}
             changed == [x \in {t} \cup DOMAIN new |-> IF x = t THEN paid ELSE new[x]]
  <2>4. /\ DOMAIN new \subseteq B!Free(Txn)
        /\ \A n \in DOMAIN new : new[n] = N
        /\ N \subseteq live \cap (Account \cup Category \cup Tag \cup Plan)
        /\ N \cap Plan = {p} /\ N \cap (Record \cup Txn) = {}
    BY <2>3, NextOccurrence
  <2>5. /\ DOMAIN changed = {t} \cup DOMAIN new /\ changed[t] = paid
        /\ \A n \in DOMAIN new : n # t /\ changed[n] = N /\ n \in B!Row \ (live \cup gone) /\ n \in Txn
    <3>1. \A n \in DOMAIN new : n \in Txn \ (live \cup gone) /\ n \in B!Row
      BY <2>4 DEF B!Free, B!Row
    <3>2. \A n \in DOMAIN new : n # t
      BY <1>3, <3>1
    <3> QED BY <2>4, <3>1, <3>2
  <2>6. B!Save(changed, {})
    BY <2>2
  <2> HIDE DEF N, changed
  <2>7. /\ t \in B!Row \ gone /\ paid \subseteq Names[At(t)]
        /\ \A y \in paid : y \in live \/ Outlives(gone, t, y)
        /\ \A q, r \in paid \cap Plan : q = r
        /\ \A k \in paid \cap Record : refs[k] \cap Loan \subseteq paid
    BY <1>3, <1>4 DEF Proper
  <2>8. \A n \in DOMAIN new : Names[At(n)] = Account \cup Category \cup Tag \cup Plan \cup Loan \cup Record
    BY <2>5, Rows, NamesByTable
  <2>9. DOMAIN changed \cap Record = {}
    <3>1. \A x \in DOMAIN changed : x \in B!Row /\ x \in Txn
      BY <1>3, <2>5, <2>7
    <3> QED BY <3>1, Rows DEF Sorted
  <2>10. Good(changed, {})
    <3>1. /\ DOMAIN changed \subseteq B!Row \ gone /\ {} \subseteq live
          /\ \A x \in DOMAIN changed : changed[x] \subseteq Names[At(x)]
      BY <2>4, <2>5, <2>7, <2>8
    <3>2. \A x \in DOMAIN changed : \A y \in changed[x] :
             y \in (live \cup DOMAIN changed) \ {} \/ Outlives(gone \cup {}, x, y)
      BY <2>4, <2>5, <2>7 DEF Outlives
    <3>3. \A x \in DOMAIN changed \cap Txn : \A q, r \in changed[x] \cap Plan : q = r
      BY <2>4, <2>5, <2>7
    <3>4. \A x \in DOMAIN changed \cap Txn : \A k \in changed[x] \cap Record :
             (IF k \in DOMAIN changed THEN changed[k] ELSE refs[k]) \cap Loan \subseteq changed[x]
      BY <2>4, <2>5, <2>7, <2>9
    <3> QED BY <3>1, <3>2, <3>3, <3>4, <2>9 DEF Good
  <2> QED BY <1>3, <2>6, <2>10, SaveKeeps DEF Writable
<1> QED BY <1>5, <1>6

\* A pending occurrence that is deleted is followed by the next one.
LEMMA DeleteTransactionKeeps == ASSUME Writable, B!DeleteTransaction PROVE BackupInv'
<1>1. PICK t \in B!Live(Txn) :
        /\ occurred' = occurred
        /\ IF t \in occurred \/ B!Live(refs[t] \cap Plan) = {} THEN B!Save([x \in {} |-> {}], {t})
           ELSE \E p \in refs[t] \cap Plan : \E new \in B!Following(p) : B!Save(new, {t})
  BY DEF B!DeleteTransaction
<1>2. t \in live \cap Txn /\ t \in B!Row /\ occurred' \subseteq Txn
  BY <1>1, Rows DEF B!Live
<1>3. \A x \in live : t \notin refs[x]
  BY <1>2, NamedBy
<1>4. CASE t \in occurred \/ B!Live(refs[t] \cap Plan) = {}
  <2>1. B!Save([x \in {} |-> {}], {t})
    BY <1>1, <1>4
  <2>2. Cut({t})
    BY <1>2, <1>3 DEF Cut
  <2> QED BY <1>1, <2>1, <2>2, DeleteKeeps
<1>5. CASE ~(t \in occurred \/ B!Live(refs[t] \cap Plan) = {})
  <2>1. PICK p \in refs[t] \cap Plan : \E new \in B!Following(p) : B!Save(new, {t})
    BY <1>1, <1>5
  <2>2. PICK new \in B!Following(p) : B!Save(new, {t})
    BY <2>1
  <2>3. p \in live \cap Plan
    BY <1>2, <1>5, PlanOf
  <2> DEFINE N == refs[p] \cup {p}
  <2>4. /\ DOMAIN new \subseteq B!Free(Txn)
        /\ \A n \in DOMAIN new : new[n] = N
        /\ N \subseteq live \cap (Account \cup Category \cup Tag \cup Plan)
        /\ N \cap Plan = {p} /\ N \cap (Record \cup Txn) = {}
    BY <2>3, NextOccurrence
  <2> HIDE DEF N
  <2>5. \A n \in DOMAIN new : n \in B!Row /\ n \notin live /\ n \notin gone /\ n \in Txn
    BY <2>4 DEF B!Free, B!Row
  <2>6. \A n \in DOMAIN new : Names[At(n)] = Account \cup Category \cup Tag \cup Plan \cup Loan \cup Record
    BY <2>5, Rows, NamesByTable
  <2>7. Good(new, {t})
    <3>1. /\ DOMAIN new \subseteq B!Row \ gone /\ {t} \subseteq live
          /\ \A x \in DOMAIN new : new[x] \subseteq Names[At(x)]
      BY <1>2, <2>4, <2>5, <2>6
    <3>2. \A x \in DOMAIN new : \A y \in new[x] :
             y \in (live \cup DOMAIN new) \ {t} \/ Outlives(gone \cup {t}, x, y)
      BY <1>2, <2>4
    <3>3. \A x \in live \ (DOMAIN new \cup {t}) : \A y \in refs[x] \cap {t} : Outlives(gone \cup {t}, x, y)
      BY <1>3
    <3>4. \A x \in DOMAIN new \cap Txn : \A q, r \in new[x] \cap Plan : q = r
      BY <2>4
    <3>5. \A x \in DOMAIN new \cap Txn : \A k \in new[x] \cap Record :
             (IF k \in DOMAIN new THEN new[k] ELSE refs[k]) \cap Loan \subseteq new[x]
      BY <2>4
    <3>6. \A k \in DOMAIN new \cap Record \cap live : new[k] \cap Loan \subseteq refs[k]
      BY <2>5
    <3> QED BY <3>1, <3>2, <3>3, <3>4, <3>5, <3>6 DEF Good
  <2> QED BY <1>2, <2>2, <2>7, SaveKeeps DEF Writable
<1> QED BY <1>4, <1>5

\* A reference cut in some rows, and rows deleted: whoever named what is gone is deleted,
\* cut or may outlive it.
Unlinks(rows, x, dead) ==
    /\ rows \subseteq live \ dead /\ dead \subseteq live /\ x \notin Loan
    /\ \A y \in live \ dead : \A z \in refs[y] \cap dead : Outlives(dead, y, z) \/ (y \in rows /\ z = x)

\* Such a write keeps the invariant.
LEMMA UnlinkKeeps ==
  ASSUME Writable, NEW rows, NEW x, NEW dead, Unlinks(rows, x, dead), B!Save(B!Unlinked(rows, x), dead),
         occurred' = occurred
  PROVE  BackupInv'
<1> DEFINE changed == B!Unlinked(rows, x)
<1>1. DOMAIN changed = rows /\ \A y \in rows : changed[y] = refs[y] \ {x}
  BY DEF B!Unlinked
<1>2. /\ rows \subseteq live /\ dead \subseteq live /\ x \notin Loan /\ rows \cap dead = {}
      /\ \A y \in live \ dead : \A z \in refs[y] \cap dead : Outlives(dead, y, z) \/ (y \in rows /\ z = x)
  BY DEF Unlinks
<1>3. occurred' \subseteq Txn /\ B!Save(changed, dead)
  BY Rows
<1>4. /\ live \subseteq B!Row /\ live \cap gone = {}
      /\ \A y \in live : refs[y] \subseteq Names[At(y)]
      /\ \A y \in live : \A z \in refs[y] : z \in live \/ Outlives(gone, y, z)
      /\ \A t \in live \cap Txn : \A p, q \in refs[t] \cap Plan : p = q
      /\ \A t \in live \cap Txn : \A k \in refs[t] \cap Record : refs[k] \cap Loan \subseteq refs[t]
  BY Rows DEF Tied
<1> HIDE DEF changed
<1>5. Good(changed, dead)
  <2>1. /\ DOMAIN changed \subseteq B!Row \ gone /\ dead \subseteq live
        /\ \A y \in DOMAIN changed : changed[y] \subseteq Names[At(y)]
    BY <1>1, <1>2, <1>4
  <2>2. ASSUME NEW y \in rows, NEW z \in changed[y]
        PROVE  z \in (live \cup DOMAIN changed) \ dead \/ Outlives(gone \cup dead, y, z)
    <3>1. y \in live /\ y \notin dead /\ z \in refs[y] /\ z # x
      BY <1>1, <1>2
    <3>2. z \in live \/ Outlives(gone, y, z)
      BY <1>4, <3>1
    <3>3. z \in dead => Outlives(dead, y, z)
      BY <1>2, <3>1
    <3> QED BY <3>2, <3>3 DEF Outlives
  <2>3. ASSUME NEW y \in live \ (DOMAIN changed \cup dead), NEW z \in refs[y] \cap dead
        PROVE  Outlives(gone \cup dead, y, z)
    <3>1. Outlives(dead, y, z)
      BY <1>1, <1>2
    <3> QED BY <3>1 DEF Outlives
  <2>4. \A t \in DOMAIN changed \cap Txn : \A p, q \in changed[t] \cap Plan : p = q
    BY <1>1, <1>2, <1>4
  <2>5. ASSUME NEW t \in DOMAIN changed \cap Txn, NEW k \in changed[t] \cap Record
        PROVE  (IF k \in DOMAIN changed THEN changed[k] ELSE refs[k]) \cap Loan \subseteq changed[t]
    <3>1. t \in live \cap Txn /\ k \in refs[t] \cap Record /\ changed[t] = refs[t] \ {x}
      BY <1>1, <1>2
    <3>2. refs[k] \cap Loan \subseteq refs[t]
      BY <1>4, <3>1
    <3>3. k \in DOMAIN changed => changed[k] \subseteq refs[k]
      BY <1>1
    <3> QED BY <1>2, <3>1, <3>2, <3>3
  <2>6. \A k \in DOMAIN changed \cap Record \cap live : changed[k] \cap Loan \subseteq refs[k]
    BY <1>1
  <2> QED BY <1>1, <2>1, <2>2, <2>3, <2>4, <2>5, <2>6 DEF Good
<1> QED BY <1>3, <1>5, SaveKeeps DEF Writable

\* The account's transactions and plans go with it, the rest lets go of it.
LEMMA DeleteAccountKeeps == ASSUME Writable, B!DeleteAccount PROVE BackupInv'
<1> DEFINE cleared(a) == B!Naming(Expense, a) \cup B!Naming(Settlement, a) \cup B!Naming(Loan, a)
                           \cup B!Naming(Record, a)
           dead(a) == {a} \cup B!Naming(Txn, a) \cup B!Naming(Plan, a)
<1>1. PICK a \in B!Live(Account) : B!Save(B!Unlinked(cleared(a), a), dead(a)) /\ occurred' = occurred
  BY DEF B!DeleteAccount, B!ClearExpensePayerAccount, B!ClearSettlementFromAccount,
         B!ClearAccountFromLoans, B!ClearAccountFromLoanRecords, B!SoftDeleteAccountTransactions,
         B!SoftDeleteAccountPlannedPayments
<1> DEFINE rows == cleared(a)
           lost == dead(a)
<1>2. a \in Account /\ a \in live /\ a \in B!Row
  BY Rows DEF B!Live
<1>3. /\ \A y : y \in rows <=> y \in live /\ a \in refs[y] /\ y \in Expense \cup Settlement \cup Loan \cup Record
      /\ \A y : y \in lost <=> y = a \/ (y \in live /\ a \in refs[y] /\ y \in Txn \cup Plan)
  BY DEF B!Naming, B!Live
<1>4. B!Save(B!Unlinked(rows, a), lost) /\ occurred' = occurred
  BY <1>1
<1> HIDE DEF rows, lost
<1>5. live \subseteq B!Row /\ a \notin Loan
  BY <1>2, Rows DEF Sorted
<1>6. rows \subseteq live \ lost
  <2>1. SUFFICES ASSUME NEW y \in rows PROVE y \in live /\ y \notin lost
    OBVIOUS
  <2>2. y \in live /\ y \in B!Row /\ (y \in Expense \/ y \in Settlement \/ y \in Loan \/ y \in Record)
    BY <1>3, <1>5
  <2>3. At(y) \in {6, 7, 9, 10}
    BY <2>2, Rows DEF Sorted
  <2>4. y \notin Account /\ y \notin Txn /\ y \notin Plan
    BY <2>2, <2>3, Rows DEF Sorted
  <2> QED BY <1>2, <1>3, <2>2, <2>4
<1>7. ASSUME NEW y \in live \ lost, NEW z \in refs[y] \cap lost
      PROVE  Outlives(lost, y, z) \/ (y \in rows /\ z = a)
  <2>1. z \in B!Row /\ z \notin Txn
    <3>1. z \in B!Row
      BY <1>2, <1>3, <1>5
    <3> QED BY <3>1, NamedBy
  <2>2. CASE z = a
    <3>1. y \in Plan \cup Budget \cup Loan \cup Record \cup Expense \cup Settlement \cup Txn
      BY <1>2, <2>1, <2>2, NamedBy
    <3>2. y \notin Plan /\ y \notin Txn
      BY <1>3, <2>2
    <3>3. y \in Budget \/ y \in rows
      BY <1>3, <2>2, <3>1, <3>2
    <3> QED BY <2>2, <3>3 DEF Outlives
  <2>3. CASE z # a
    <3>1. z \in Plan
      BY <1>3, <2>1, <2>3
    <3>2. y \in Txn
      BY <2>1, <3>1, NamedBy
    <3> QED BY <3>1, <3>2 DEF Outlives
  <2> QED BY <2>2, <2>3
<1>8. Unlinks(rows, a, lost)
  BY <1>2, <1>3, <1>5, <1>6, <1>7 DEF Unlinks
<1> QED BY <1>4, <1>8, UnlinkKeeps

\* A category leaves the rows that name it, except a budget; a tag leaves all.
LEMMA DeleteLabelKeeps == ASSUME Writable, B!DeleteCategory \/ B!DeleteTag PROVE BackupInv'
<1>1. ASSUME NEW x \in live, x \notin Loan, x \notin Txn, x \notin Plan, x \notin Expense, NEW T,
             x \notin T, B!Save(B!Unlinked(B!Naming(T, x), x), {x}), occurred' = occurred,
             \A y \in live : x \in refs[y] => y \in T \/ y \in Budget
      PROVE  BackupInv'
  <2> DEFINE rows == B!Naming(T, x)
             lost == {x}
  <2>1. \A y : y \in rows <=> y \in live /\ y \in T /\ x \in refs[y]
    BY DEF B!Naming, B!Live
  <2>2. B!Save(B!Unlinked(rows, x), lost)
    BY <1>1
  <2> HIDE DEF rows
  <2>3. Unlinks(rows, x, lost)
    BY <1>1, <2>1 DEF Unlinks, Outlives
  <2> HIDE DEF lost
  <2> QED BY <1>1, <2>2, <2>3, UnlinkKeeps
<1>2. CASE B!DeleteCategory
  <2>1. PICK c \in B!Live(Category) :
          B!Save(B!Unlinked(B!Naming(Txn \cup Plan \cup Expense, c), c), {c}) /\ occurred' = occurred
    BY <1>2 DEF B!DeleteCategory
  <2>2. c \in live /\ c \in Category /\ c \in B!Row
    BY Rows DEF B!Live
  <2>3. c \notin Loan /\ c \notin Txn /\ c \notin Plan /\ c \notin Expense
    BY <2>2, Rows DEF Sorted
  <2> DEFINE T == Txn \cup Plan \cup Expense
  <2>4. c \notin T /\ \A y \in live : c \in refs[y] => y \in T \/ y \in Budget
    BY <2>2, <2>3, NamedBy
  <2>5. B!Save(B!Unlinked(B!Naming(T, c), c), {c})
    BY <2>1
  <2> HIDE DEF T
  <2> QED BY <1>1, <2>1, <2>2, <2>3, <2>4, <2>5
<1>3. CASE B!DeleteTag
  <2>1. PICK g \in B!Live(Tag) :
          B!Save(B!Unlinked(B!Naming(Txn \cup Plan, g), g), {g}) /\ occurred' = occurred
    BY <1>3 DEF B!DeleteTag
  <2>2. g \in live /\ g \in Tag /\ g \in B!Row
    BY Rows DEF B!Live
  <2>3. g \notin Loan /\ g \notin Txn /\ g \notin Plan /\ g \notin Expense
    BY <2>2, Rows DEF Sorted
  <2> DEFINE T == Txn \cup Plan
  <2>4. g \notin T /\ \A y \in live : g \in refs[y] => y \in T \/ y \in Budget
    BY <2>2, <2>3, NamedBy
  <2>5. B!Save(B!Unlinked(B!Naming(T, g), g), {g})
    BY <2>1
  <2> HIDE DEF T
  <2> QED BY <1>1, <2>1, <2>2, <2>3, <2>4, <2>5
<1> QED BY <1>2, <1>3

\* Every write keeps the invariant.
LEMMA WriteKeeps ==
  ASSUME BackupSetting, Sorted, BackupInv, export.pc < B!Done, B!Write
  PROVE  BackupInv'
<1>1. Writable
  BY Places DEF Writable
<1> QED
  BY <1>1, CreatePlainKeeps, DeleteAccountKeeps, DeleteLabelKeeps, CreateTransactionKeeps,
     UpdateTransactionKeeps, PayTransactionKeeps, DeleteTransactionKeeps, CreatePlannedKeeps,
     DeletePlannedKeeps, BudgetKeeps, CreateLoanKeeps, DeleteLoanKeeps, GroupKeeps DEF B!Write

\* An export that has not begun holds nothing.
LEMMA Blank ==
  /\ DOMAIN B!NoExport = {"kind", "pc", "cursor", "doc", "listed", "touched"}
  /\ B!NoExport.kind = "none" /\ B!NoExport.pc = 0 /\ B!NoExport.cursor = 0
  /\ DOMAIN B!NoExport.doc = {} /\ B!NoExport.touched = {}
  /\ B!NoExport.listed \in [Txn -> Nat] /\ \A t \in Txn : B!NoExport.listed[t] = 0
  BY DEF B!NoExport

\* At first the rows are as the handlers leave them and nobody exports.
LEMMA BackupStarts == ASSUME BackupSetting, Sorted, B!Init PROVE BackupInv
<1>1. /\ live = DOMAIN World /\ gone = {} /\ occurred = Paid /\ export = B!NoExport /\ writes = 0
      /\ refs = [x \in B!Row |-> IF x \in live THEN World[x] ELSE {}]
  BY DEF B!Init
<1>2. /\ DOMAIN World \subseteq B!Row /\ \A x \in DOMAIN World : World[x] \subseteq B!Row \cup Others
      /\ Tied(DOMAIN World, {}, World) /\ Paid \subseteq Txn /\ MaxWrites \in Nat
  BY DEF BackupSetting
<1>3. /\ DOMAIN export = {"kind", "pc", "cursor", "doc", "listed", "touched"}
      /\ export.kind = "none" /\ export.pc = 0 /\ export.cursor = 0
      /\ DOMAIN export.doc = {} /\ export.touched = {} /\ export.listed \in [Txn -> Nat]
  BY <1>1, Blank
<1>4. B!TypeOK
  <2>1. refs \in [B!Row -> SUBSET (B!Row \cup Others)]
    BY <1>1, <1>2
  <2>2. live \subseteq B!Row /\ gone \subseteq B!Row \ live /\ occurred \subseteq Txn /\ writes \in 0..MaxWrites
    BY <1>1, <1>2
  <2>3. /\ export.kind \in {"none", "json", "csv"} /\ export.pc \in 0..B!Aborted
        /\ DOMAIN export.doc \cup export.touched \subseteq B!Row
    BY <1>3, Places
  <2> QED BY <1>3, <2>1, <2>2, <2>3 DEF B!TypeOK
<1>5. Tied(live, gone, refs)
  <2>1. \A x \in live : refs[x] = World[x]
    BY <1>1, <1>2
  <2>2. ASSUME NEW t \in live \cap Txn, NEW k \in refs[t] \cap Record
        PROVE  refs[k] \cap Loan \subseteq refs[t]
    <3>1. t \notin Budget /\ t \notin Expense /\ k \notin Plan
      <4>1. t \in B!Row /\ k \in B!Row
        BY <1>1, <1>2 DEF B!Row
      <4> QED BY <4>1 DEF Sorted
    <3>2. k \in live
      BY <1>1, <1>2, <2>1, <3>1 DEF Tied, Outlives
    <3>3. World[k] \cap Loan \subseteq World[t]
      BY <1>1, <1>2, <2>1 DEF Tied
    <3> QED BY <2>1, <3>2, <3>3
  <2>3. /\ \A x \in live : refs[x] \subseteq Names[At(x)]
        /\ \A x \in live : \A y \in refs[x] : y \in live \/ Outlives(gone, x, y)
        /\ \A t \in live \cap Txn : \A p, q \in refs[t] \cap Plan : p = q
    BY <1>1, <1>2, <2>1 DEF Tied
  <2> QED BY <2>2, <2>3 DEF Tied
<1>6. Steps
  BY <1>3 DEF Steps
<1>7. Listing /\ Holding /\ Inside
  BY <1>3 DEF Listing, Holding, Inside, Going
<1> QED BY <1>4, <1>5, <1>6, <1>7 DEF BackupInv

\* A request that begins or fails has nothing yet, or no more.
Empty(kind, step) ==
    /\ DOMAIN export' = {"kind", "pc", "cursor", "doc", "listed", "touched"}
    /\ export.kind' = kind /\ export.pc' = step /\ export.cursor' = 0
    /\ DOMAIN export.doc' = {} /\ export.touched' = {}
    /\ export.listed' \in [Txn -> Nat] /\ \A t \in Txn : export.listed'[t] = 0
    /\ live' = live /\ gone' = gone /\ refs' = refs /\ occurred' = occurred /\ writes' = writes

\* Such a step keeps the invariant.
LEMMA EmptyKeeps ==
  ASSUME Sorted, BackupInv, NEW kind \in {"none", "json", "csv"}, NEW step \in {1, 11, 13},
         step = 11 => kind # "json", Empty(kind, step)
  PROVE  BackupInv'
<1>1. B!TypeOK /\ Tied(live, gone, refs)
  BY DEF BackupInv
<1>2. /\ DOMAIN export' = {"kind", "pc", "cursor", "doc", "listed", "touched"}
      /\ export.kind' = kind /\ export.pc' = step /\ export.cursor' = 0
      /\ DOMAIN export.doc' = {} /\ export.touched' = {}
      /\ export.listed' \in [Txn -> Nat] /\ \A t \in Txn : export.listed'[t] = 0
      /\ live' = live /\ gone' = gone /\ refs' = refs /\ occurred' = occurred /\ writes' = writes
  BY DEF Empty
<1>3. B!TypeOK'
  <2>1. export.pc' \in 0..B!Aborted'
    BY <1>2, Places
  <2>2. /\ export.kind' \in {"none", "json", "csv"} /\ DOMAIN export.doc' \cup export.touched' \subseteq B!Row
    BY <1>2
  <2>3. /\ live' \subseteq B!Row /\ gone' \subseteq B!Row \ live' /\ occurred' \subseteq Txn
        /\ refs' \in [B!Row -> SUBSET (B!Row \cup Others)] /\ writes' \in 0..MaxWrites
    BY <1>1, <1>2 DEF B!TypeOK
  <2> QED BY <1>2, <2>1, <2>2, <2>3 DEF B!TypeOK
<1>4. Tied(live, gone, refs)'
  BY <1>1, <1>2
<1>5. Steps'
  BY <1>2 DEF Steps
<1>6. \A t : ~Passed(t)'
  BY <1>2 DEF Passed
<1>7. Listing'
  <2>1. \A t \in Txn : ~(export.listed'[t] > 0)
    BY <1>2
  <2>2. export.pc' # 12
    BY <1>2
  <2> QED BY <1>2, <1>6, <2>1, <2>2 DEF Listing
<1>8. Holding'
  <2>1. CASE step \in {1, 13}
    <3>1. ASSUME NEW x \in B!Row, Going' PROVE ~WasRead(x)'
      <4>1. At(x) \in 1..11 /\ export.pc' = 1
        BY <1>2, <2>1, <3>1 DEF Sorted, Going
      <4> QED BY <1>6, <4>1 DEF WasRead
    <3>2. Kept' \subseteq B!Row
      BY <1>3 DEF Kept, B!TypeOK
    <3>3. Going' => ~(export.pc' > 6)
      BY <1>2, <2>1 DEF Going
    <3> QED BY <3>1, <3>2, <3>3 DEF Holding
  <2>2. CASE step = 11
    BY <1>2, <2>2 DEF Holding
  <2> QED BY <2>1, <2>2
<1>9. Inside'
  BY <1>2 DEF Inside
<1> QED BY <1>3, <1>4, <1>5, <1>7, <1>8, <1>9 DEF BackupInv

\* A request begins, or it fails.
LEMMA RequestKeeps ==
  ASSUME Sorted, BackupInv, B!Request("json") \/ B!Request("csv") \/ B!Fail
  PROVE  BackupInv'
<1>1. ASSUME NEW f, NEW k, NEW p, f = [B!NoExport EXCEPT !.kind = k, !.pc = p]
      PROVE  /\ DOMAIN f = {"kind", "pc", "cursor", "doc", "listed", "touched"}
             /\ f.kind = k /\ f.pc = p /\ f.cursor = 0 /\ DOMAIN f.doc = {} /\ f.touched = {}
             /\ f.listed \in [Txn -> Nat] /\ \A t \in Txn : f.listed[t] = 0
  <2>1. /\ DOMAIN f = {"kind", "pc", "cursor", "doc", "listed", "touched"} /\ f.kind = k /\ f.pc = p
        /\ f.cursor = B!NoExport.cursor /\ f.doc = B!NoExport.doc /\ f.touched = B!NoExport.touched
        /\ f.listed = B!NoExport.listed
    <3>1. DOMAIN B!NoExport = {"kind", "pc", "cursor", "doc", "listed", "touched"}
      BY Blank
    <3> QED BY <1>1, <3>1
  <2> QED BY <2>1, Blank
<1>2. ASSUME NEW k, NEW p, export' = [B!NoExport EXCEPT !.kind = k, !.pc = p],
             live' = live, gone' = gone, refs' = refs, occurred' = occurred, writes' = writes
      PROVE  Empty(k, p)
  <2> DEFINE f == [B!NoExport EXCEPT !.kind = k, !.pc = p]
  <2>1. /\ DOMAIN f = {"kind", "pc", "cursor", "doc", "listed", "touched"}
        /\ f.kind = k /\ f.pc = p /\ f.cursor = 0 /\ DOMAIN f.doc = {} /\ f.touched = {}
        /\ f.listed \in [Txn -> Nat] /\ \A t \in Txn : f.listed[t] = 0
    BY <1>1
  <2>2. export' = f
    BY <1>2
  <2> HIDE DEF f
  <2> QED BY <1>2, <2>1, <2>2 DEF Empty
<1>3. CASE B!Request("json")
  <2> DEFINE k == "json"
             p == 1
  <2>1. /\ export' = [B!NoExport EXCEPT !.kind = k, !.pc = p]
        /\ live' = live /\ gone' = gone /\ refs' = refs /\ occurred' = occurred /\ writes' = writes
    BY <1>3 DEF B!Request
  <2>2. k \in {"none", "json", "csv"} /\ p \in {1, 11, 13} /\ (p = 11 => k # "json")
    OBVIOUS
  <2> HIDE DEF k, p
  <2>3. Empty(k, p)
    BY <1>2, <2>1
  <2> QED BY <2>2, <2>3, EmptyKeeps
<1>4. CASE B!Request("csv")
  <2> DEFINE k == "csv"
             p == 11
  <2>1. /\ export' = [B!NoExport EXCEPT !.kind = k, !.pc = p]
        /\ live' = live /\ gone' = gone /\ refs' = refs /\ occurred' = occurred /\ writes' = writes
    BY <1>4, Places DEF B!Request
  <2>2. k \in {"none", "json", "csv"} /\ p \in {1, 11, 13} /\ (p = 11 => k # "json")
    OBVIOUS
  <2> HIDE DEF k, p
  <2>3. Empty(k, p)
    BY <1>2, <2>1
  <2> QED BY <2>2, <2>3, EmptyKeeps
<1>5. CASE B!Fail
  <2> DEFINE k == export.kind
             p == 13
  <2>1. /\ export' = [B!NoExport EXCEPT !.kind = k, !.pc = p]
        /\ live' = live /\ gone' = gone /\ refs' = refs /\ occurred' = occurred /\ writes' = writes
    BY <1>5, Places DEF B!Fail
  <2>2. k \in {"none", "json", "csv"} /\ p \in {1, 11, 13} /\ (p = 11 => k # "json")
    BY DEF BackupInv, B!TypeOK
  <2> HIDE DEF k, p
  <2>3. Empty(k, p)
    BY <1>2, <2>1
  <2> QED BY <2>2, <2>3, EmptyKeeps
<1> QED BY <1>3, <1>4, <1>5

\* Every step keeps the invariant.
LEMMA BackupStep == ASSUME BackupSetting, Sorted, BackupInv, [B!Next]_B!vars PROVE BackupInv'
<1>1. CASE export.pc < B!Done /\ B!Write
  BY <1>1, WriteKeeps
<1>2. CASE B!Request("json") \/ B!Request("csv") \/ B!Fail
  BY <1>2, RequestKeeps
<1>3. CASE B!ReadSection
  BY <1>3, SectionKeeps
<1>4. CASE B!MyJSON \/ B!TransactionsCSV
  <2>1. export.kind \in {"json", "csv"} /\ B!ReadPage(NextPage)
    BY <1>4 DEF B!MyJSON, B!TransactionsCSV, B!ExportTransactionsPage, B!ExportTransactionsCSVPage, NextPage
  <2> QED BY <2>1, PageKeeps
<1>5. CASE UNCHANGED B!vars
  <2>1. /\ live' = live /\ gone' = gone /\ refs' = refs /\ occurred' = occurred
        /\ export' = export /\ writes' = writes
    BY <1>5 DEF B!vars
  <2>2. B!TypeOK'
    <3>1. export.pc' \in 0..B!Aborted'
      BY <2>1, Places DEF BackupInv, B!TypeOK
    <3> QED BY <2>1, <3>1 DEF BackupInv, B!TypeOK
  <2>3. Kept' = Kept /\ Going' = Going /\ \A x : (Passed(x)' <=> Passed(x)) /\ (WasRead(x)' <=> WasRead(x))
    BY <2>1 DEF Kept, Going, Passed, WasRead, B!Ahead, B!Newer
  <2>4. Steps' /\ Tied(live, gone, refs)'
    BY <2>1 DEF BackupInv, Steps
  <2>5. Listing'
    BY <2>1, <2>3 DEF BackupInv, Listing
  <2>6. Holding'
    BY <2>1, <2>3 DEF BackupInv, Holding
  <2>7. Inside'
    BY <2>1, <2>3 DEF BackupInv, Inside
  <2> QED BY <2>2, <2>4, <2>5, <2>6, <2>7 DEF BackupInv
<1> QED BY <1>1, <1>2, <1>3, <1>4, <1>5 DEF B!Next

\* When the document is complete, everything has been read.
LEMMA BackupShows ==
  ASSUME BackupSetting, Sorted, BackupInv
  PROVE  B!TypeOK /\ B!ListsOnce /\ B!HoldsEveryRow /\ B!PointsInside
<1>1. B!TypeOK /\ Listing /\ Holding /\ Inside /\ live \subseteq B!Row
  BY DEF BackupInv, B!TypeOK
<1>2. B!Complete => Going /\ export.pc = 12
  BY Places DEF B!Complete, Going
<1>3. /\ B!Untouched(Txn) = Txn \cap Kept
      /\ B!Untouched(B!Row) = Kept
  BY <1>1 DEF B!Untouched, B!Live, Kept
<1>4. B!ListsOnce
  BY <1>1, <1>2, <1>3 DEF B!ListsOnce, Listing
<1>5. B!HoldsEveryRow
  <2>1. SUFFICES ASSUME B!Complete, export.kind = "json", NEW x \in Kept,
                        x \in Expense \cup Settlement \cup Record => (refs[x] \cap Loan) \cup {Team} \subseteq Kept
                 PROVE  x \in DOMAIN export.doc /\ export.doc[x] = refs[x]
    BY <1>3 DEF B!HoldsEveryRow
  <2>2. WasRead(x)
    <3>1. x \in B!Row /\ At(x) \in 1..11
      BY <1>1 DEF Kept, Sorted
    <3>2. CASE At(x) < 11
      BY <1>2, <2>1, <3>1, <3>2 DEF WasRead
    <3>3. CASE ~(At(x) < 11)
      <4>1. x \in Txn
        BY <3>1, <3>3 DEF Sorted
      <4>2. Passed(x)
        BY <1>1, <1>2, <2>1, <4>1 DEF Listing
      <4> QED BY <3>3, <4>2 DEF WasRead
    <3> QED BY <3>2, <3>3
  <2>3. x \in Expense \cup Settlement => Team \in Kept
    BY <2>1
  <2> QED BY <1>1, <1>2, <2>1, <2>2, <2>3 DEF Holding
<1>6. B!PointsInside
  <2>1. SUFFICES ASSUME B!Complete, export.kind = "json", NEW x \in DOMAIN export.doc, NEW y \in export.doc[x]
                 PROVE  y \in DOMAIN export.doc \/ y \in export.touched \/ B!Stale(x, y)
    BY DEF B!PointsInside
  <2>2. \/ y \in DOMAIN export.doc \cup export.touched \/ Outlives(gone, x, y)
        \/ y \in live /\ At(y) <= 7 /\ ~WasRead(y)
    BY <1>1, <1>2, <2>1 DEF Inside
  <2>3. ASSUME y \in live, At(y) <= 7 PROVE WasRead(y)
    <3>1. At(y) \in 1..11
      BY <1>1, <2>3 DEF Sorted
    <3> QED BY <1>2, <2>1, <2>3, <3>1 DEF WasRead
  <2> QED BY <2>2, <2>3 DEF Outlives, B!Stale
<1> QED BY <1>1, <1>4, <1>5, <1>6

\* An export that completes lists every transaction nobody wrote meanwhile once and none
\* that was deleted before; the backup holds every other such row as it is, under what it is
\* nested in; and what a row in it refers to is in it, unless that was written meanwhile or
\* the row may outlive it.  For any rows, any size of pages and any number of writes.
THEOREM BackupWhole ==
  ASSUME BackupSetting
  PROVE  B!Spec => [](B!TypeOK /\ B!ListsOnce /\ B!HoldsEveryRow /\ B!PointsInside)
<1>1. Sorted
  BY RowsSorted
<1>2. B!Init => BackupInv
  BY <1>1, BackupStarts
<1>3. BackupInv /\ [B!Next]_B!vars => BackupInv'
  BY <1>1, BackupStep
<1>4. BackupInv => B!TypeOK /\ B!ListsOnce /\ B!HoldsEveryRow /\ B!PointsInside
  BY <1>1, BackupShows
<1> QED BY <1>2, <1>3, <1>4, PTL DEF B!Spec

=============================================================================
