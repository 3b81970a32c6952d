-------------------------- MODULE SyncStoreProofs --------------------------
(***************************************************************************)
(* While nobody erases the encrypted copy, the log misses nothing and a    *)
(* key is replaced only by who saw it; and the quota holds up to a batch   *)
(* per device whatever happens.  All for any number of devices, records,   *)
(* pushes and any page and batch size.                                     *)
(*                                                                         *)
(* Who reserved numbers holds the counter row until it commits, so numbers *)
(* are committed in the order they are reserved: the next ones are beyond  *)
(* every cursor.  With that, a page in seq order without ties cannot step  *)
(* over a record.                                                          *)
(***************************************************************************)
EXTENDS SyncStore, FiniteSetTheorems, WellFoundedInduction, TLAPS

\* Nothing is being erased.
Quiet == erase = IdleErase /\ locker # Eraser

\* A push that reserved numbers holds the counter row, and they are the next.
Holds(d) == push[d].pc \in {"write", "commit"} => locker = d /\ push[d].first = First

\* Records and cursors stay below the next number.
Below ==
    /\ \A i \in Id : records[i] # None => records[i] < counter
    /\ \A d \in Device : cursor[d] # 0 => cursor[d] < counter

\* The places of a batch are distinct and fit the numbers it will reserve.
Placed(d) ==
    /\ \A i, j \in DOMAIN push[d].at : push[d].at[i] = push[d].at[j] => i = j
    /\ \A i \in DOMAIN push[d].at : push[d].at[i] < push[d].n

Log == Quiet /\ Below /\ SeqsUnique /\ NothingMissed
IInv == TypeOK /\ Log /\ \A d \in Device : Holds(d) /\ Placed(d)

\* The values a push takes have their type.
LEMMA IdleTypes ==
    /\ Idle.at \in Batches /\ DOMAIN Idle.at = {}
    /\ Idle \in [pc : {"idle", "key", "ensure", "reserve", "write", "commit"},
                 at : Batches, n : 0..MaxBatch, first : Nat]
<1>1. [i \in {} |-> 0] \in [{} -> 0..(MaxBatch - 1)]
  OBVIOUS
<1>2. [i \in {} |-> 0] \in Batches
  BY <1>1 DEF Batches
<1>3. 0 \in 0..MaxBatch
  BY SyncAssumption
<1> QED BY <1>2, <1>3, SyncAssumption DEF Idle

\* A batch places ids of the user at numbers.
LEMMA BatchFacts ==
    ASSUME NEW at \in Batches
    PROVE  /\ DOMAIN at \subseteq Id
           /\ \A i \in DOMAIN at : at[i] \in Nat
  BY SyncAssumption DEF Batches

\* The invariant holds initially.
LEMMA Initially == Init => IInv
<1> SUFFICES ASSUME Init PROVE IInv
  OBVIOUS
<1>1. TypeOK
  BY IdleTypes, SyncAssumption
  DEF Init, TypeOK, NoKey, Idle, IdleErase, None
<1>2. Log
  BY SyncAssumption DEF Init, Log, Quiet, Below, SeqsUnique, NothingMissed, None, IdleErase
<1>3. \A d \in Device : Holds(d) /\ Placed(d)
  BY IdleTypes DEF Init, Holds, Placed, Idle
<1> QED BY <1>1, <1>2, <1>3 DEF IInv

\* A step that leaves the log alone keeps what is said of it.
LEMMA LogKept ==
    ASSUME IInv, UNCHANGED <<counter, records, erase, devVars>>, locker' # Eraser
    PROVE  Log'
  BY DEF IInv, Log, Quiet, Below, SeqsUnique, NothingMissed, devVars

\* GetKey, PutNewKey, ReplaceKey
LEMMA KeyStep ==
    ASSUME IInv, NEW d \in Device, GetKey(d) \/ PutNewKey(d) \/ ReplaceKey(d)
    PROVE  IInv'
<1>1. UNCHANGED <<logVars, push, erase, devVars, sent>>
  BY DEF GetKey, PutNewKey, ReplaceKey
<1>2. /\ key' \in [version : Nat, wraps : Nat]
      /\ seen' \in [Device -> [version : Nat, wraps : Nat]]
      /\ dataKeys' \in Nat
  <2>1. CASE GetKey(d)
    BY <2>1 DEF GetKey, IInv, TypeOK
  <2>2. CASE PutNewKey(d)
    BY <2>2 DEF PutNewKey, IInv, TypeOK
  <2>3. CASE ReplaceKey(d)
    <3>1. seen[d].wraps \in Nat /\ key.version + 1 \in Nat
      BY DEF IInv, TypeOK
    <3> QED BY <2>3, <3>1 DEF ReplaceKey, IInv, TypeOK
  <2> QED BY <2>1, <2>2, <2>3
<1>3. TypeOK'
  BY <1>1, <1>2 DEF IInv, TypeOK, logVars, devVars
<1>4. Log'
  BY <1>1, LogKept DEF logVars, IInv, Log, Quiet
<1>5. \A e \in Device : Holds(e)' /\ Placed(e)'
  BY <1>1 DEF IInv, Holds, Placed, First, logVars
<1> QED BY <1>3, <1>4, <1>5 DEF IInv

\* A push moves on, or ends, without touching what is stored.
LEMMA PushMoves ==
    ASSUME IInv, NEW d \in Device, NEW p,
           p \in [pc : {"idle", "key", "ensure", "reserve", "write", "commit"},
                  at : Batches, n : 0..MaxBatch, first : Nat],
           push' = [push EXCEPT ![d] = p],
           UNCHANGED <<keyVars, counter, records, erase, devVars>>,
           sent' \in [pushes : Nat, erases : Nat],
           locker' \in {locker, d} \/ (locker = d /\ locker' = Nobody),
           locker' # locker => locker \in {d, Nobody},
           p.pc \in {"write", "commit"} => locker' = d /\ p.first = First,
           \A i, j \in DOMAIN p.at : p.at[i] = p.at[j] => i = j,
           \A i \in DOMAIN p.at : p.at[i] < p.n
    PROVE  IInv'
<1>1. locker' \in Device \cup {Nobody, Eraser} /\ locker' # Eraser
  BY SyncAssumption DEF IInv, TypeOK, Log, Quiet
<1>2. push'[d] = p /\ \A e \in Device : e # d => push'[e] = push[e]
  BY DEF IInv, TypeOK
<1>3. p.pc \in {"write", "commit"} => p.first # None
  BY DEF First, None, IInv, TypeOK
<1>4. TypeOK'
  <2>1. push' \in [Device -> [pc : {"idle", "key", "ensure", "reserve", "write", "commit"},
                              at : Batches, n : 0..MaxBatch, first : Nat]]
    BY DEF IInv, TypeOK
  <2>2. \A e \in Device : push'[e].pc \in {"write", "commit"} => push'[e].first # None
    BY <1>2, <1>3 DEF IInv, TypeOK
  <2> QED BY <1>1, <2>1, <2>2 DEF IInv, TypeOK, keyVars, devVars
<1>5. Log'
  BY <1>1, LogKept
<1>6. \A e \in Device : Holds(e)'
  <2> SUFFICES ASSUME NEW e \in Device, push'[e].pc \in {"write", "commit"}
               PROVE  locker' = e /\ push'[e].first = First
    BY DEF Holds, First
  <2>1. CASE e = d
    BY <2>1, <1>2
  <2>2. CASE e # d
    <3>1. locker = e /\ push[e].first = First
      BY <2>2, <1>2 DEF IInv, Holds
    <3> QED BY <3>1, <2>2, <1>2, SyncAssumption
  <2> QED BY <2>1, <2>2
<1>7. \A e \in Device : Placed(e)'
  BY <1>2 DEF IInv, Placed
<1> QED BY <1>4, <1>5, <1>6, <1>7 DEF IInv

\* PushRecords up to its commit, and where it fails
LEMMA PushStepKeeps ==
    ASSUME IInv, NEW d \in Device,
           \/ StartPush(d) \/ CheckKey(d) \/ EnsureCounter(d) \/ ReserveSeqs(d)
           \/ Upsert(d) \/ PushFails(d)
    PROVE  IInv'
<1> USE DEF keyVars, logVars
<1>1. /\ push[d] \in [pc : {"idle", "key", "ensure", "reserve", "write", "commit"},
                      at : Batches, n : 0..MaxBatch, first : Nat]
      /\ sent \in [pushes : Nat, erases : Nat]
      /\ Placed(d) /\ Holds(d) /\ First \in Nat
  BY DEF IInv, TypeOK, First
<1>2. \A i, j \in DOMAIN Idle.at : Idle.at[i] = Idle.at[j] => i = j
  BY IdleTypes
<1>3. \A i \in DOMAIN Idle.at : Idle.at[i] < Idle.n
  BY IdleTypes
<1>4. CASE StartPush(d)
  <2>1. PICK n \in 1..MaxBatch, at \in Batches :
          /\ Fills(at, n)
          /\ push' = [push EXCEPT ![d] = [pc |-> "key", at |-> at, n |-> n, first |-> 0]]
    BY <1>4 DEF StartPush
  <2> DEFINE p == [pc |-> "key", at |-> at, n |-> n, first |-> 0]
  <2>2. p \in [pc : {"idle", "key", "ensure", "reserve", "write", "commit"},
               at : Batches, n : 0..MaxBatch, first : Nat]
    BY SyncAssumption
  <2>3. /\ \A i, j \in DOMAIN p.at : p.at[i] = p.at[j] => i = j
        /\ \A i \in DOMAIN p.at : p.at[i] < p.n
    BY <2>1 DEF Fills
  <2>4. UNCHANGED <<keyVars, counter, records, erase, devVars>> /\ locker' = locker
    BY <1>4 DEF StartPush
  <2>5. sent' \in [pushes : Nat, erases : Nat]
    BY <1>1, <1>4 DEF StartPush
  <2>6. push' = [push EXCEPT ![d] = p] /\ p.pc = "key"
    BY <2>1
  <2> HIDE DEF p
  <2> QED BY <2>2, <2>3, <2>4, <2>5, <2>6, PushMoves
<1>5. ASSUME NEW pc \in {"ensure", "reserve", "commit"}, To(d, pc),
             pc = "commit" => locker = d /\ push[d].first = First,
             UNCHANGED <<keyVars, counter, records, erase, devVars, sent>>,
             locker' = locker \/ (locker = Nobody /\ locker' = d)
      PROVE  IInv'
  <2> DEFINE p == [push[d] EXCEPT !.pc = pc]
  <2>1. /\ p \in [pc : {"idle", "key", "ensure", "reserve", "write", "commit"},
                  at : Batches, n : 0..MaxBatch, first : Nat]
        /\ p.at = push[d].at /\ p.n = push[d].n /\ p.first = push[d].first /\ p.pc = pc
    BY <1>1
  <2>2. push' = [push EXCEPT ![d] = p]
    BY <1>5 DEF To
  <2>3. /\ \A i, j \in DOMAIN p.at : p.at[i] = p.at[j] => i = j
        /\ \A i \in DOMAIN p.at : p.at[i] < p.n
    BY <1>1, <2>1 DEF Placed
  <2>4. p.pc \in {"write", "commit"} => locker' = d /\ p.first = First
    BY <1>5, <2>1, SyncAssumption
  <2> HIDE DEF p
  <2>5. sent' \in [pushes : Nat, erases : Nat]
    BY <1>1, <1>5
  <2>6. /\ locker' \in {locker, d} \/ (locker = d /\ locker' = Nobody)
        /\ locker' # locker => locker \in {d, Nobody}
    BY <1>5
  <2> QED BY <1>5, <2>1, <2>2, <2>3, <2>4, <2>5, <2>6, PushMoves
<1>6. ASSUME push' = [push EXCEPT ![d] = Idle],
             UNCHANGED <<keyVars, counter, records, erase, devVars, sent>>,
             locker' = locker \/ (locker = d /\ locker' = Nobody)
      PROVE  IInv'
  <2>1. Idle.pc = "idle"
    BY DEF Idle
  <2>2. sent' \in [pushes : Nat, erases : Nat]
    BY <1>1, <1>6
  <2> QED BY <1>2, <1>3, <1>6, <2>1, <2>2, IdleTypes, PushMoves
<1>7. CASE CheckKey(d)
  <2>1. CASE key = NoKey
    BY <1>6, <1>7, <2>1 DEF CheckKey
  <2>2. CASE key # NoKey
    BY <1>5, <1>7, <2>2 DEF CheckKey
  <2> QED BY <2>1, <2>2
<1>8. CASE EnsureCounter(d)
  BY <1>5, <1>8 DEF EnsureCounter
<1>9. CASE ReserveSeqs(d)
  <2> DEFINE p == [push[d] EXCEPT !.pc = "write", !.first = First]
  <2>1. /\ p \in [pc : {"idle", "key", "ensure", "reserve", "write", "commit"},
                  at : Batches, n : 0..MaxBatch, first : Nat]
        /\ p.at = push[d].at /\ p.n = push[d].n /\ p.first = First
    BY <1>1
  <2>2. push' = [push EXCEPT ![d] = p]
    BY <1>9 DEF ReserveSeqs, IInv, TypeOK
  <2>3. /\ \A i, j \in DOMAIN p.at : p.at[i] = p.at[j] => i = j
        /\ \A i \in DOMAIN p.at : p.at[i] < p.n
    BY <1>1, <2>1 DEF Placed
  <2>4. locker' = d /\ locker \in {d, Nobody}
    BY <1>9 DEF ReserveSeqs, Lockable
  <2>5. /\ UNCHANGED <<keyVars, counter, records, erase, devVars>>
        /\ sent' \in [pushes : Nat, erases : Nat]
    BY <1>1, <1>9 DEF ReserveSeqs
  <2> HIDE DEF p
  <2> QED BY <2>1, <2>2, <2>3, <2>4, <2>5, PushMoves
<1>10. CASE Upsert(d)
  BY <1>1, <1>5, <1>10 DEF Upsert, Holds
<1>11. CASE PushFails(d)
  BY <1>6, <1>11 DEF PushFails, Released
<1> QED BY <1>4, <1>7, <1>8, <1>9, <1>10, <1>11

\* The commit numbers its records beyond every record and every cursor.
LEMMA CommitKeeps ==
    ASSUME IInv, NEW d \in Device, CommitPush(d)
    PROVE  IInv'
<1> DEFINE at == push[d].at
           f  == push[d].first
<1>1. /\ at \in Batches /\ f \in Nat \ {0} /\ push[d].n \in Nat
      /\ locker = d /\ f = First /\ Placed(d)
  BY SyncAssumption DEF CommitPush, IInv, TypeOK, Holds, None
<1>2. /\ DOMAIN at \subseteq Id
      /\ \A i \in DOMAIN at : at[i] \in Nat /\ at[i] < push[d].n
      /\ \A i, j \in DOMAIN at : at[i] = at[j] => i = j
  BY <1>1, BatchFacts DEF Placed
<1>3. /\ \A i \in Id : records[i] \in Nat /\ (records[i] # None => records[i] < f)
      /\ \A e \in Device : cursor[e] \in Nat /\ cursor[e] < f
  BY <1>1 DEF IInv, TypeOK, Log, Below, First, None
<1>4. /\ records' = [i \in Id |-> IF i \in DOMAIN at THEN f + at[i] ELSE records[i]]
      /\ counter' = f + push[d].n /\ locker' = Nobody
      /\ push' = [push EXCEPT ![d] = Idle]
      /\ UNCHANGED <<keyVars, erase, devVars, sent>>
  BY DEF CommitPush, NextSeq
<1>5. \A i \in Id : /\ i \in DOMAIN at => records'[i] = f + at[i]
                    /\ i \notin DOMAIN at => records'[i] = records[i]
  BY <1>4
<1> HIDE DEF at, f
<1>6. counter' \in Nat /\ counter' # None
  BY <1>1, <1>4 DEF None
<1>7. \A e \in Device : e # d => push'[e] = push[e] /\ push[e].pc \notin {"write", "commit"}
  BY <1>1, <1>4 DEF IInv, TypeOK, Holds
<1>8. push'[d] = Idle /\ push' \in [Device -> [pc : {"idle", "key", "ensure", "reserve", "write", "commit"},
                            at : Batches, n : 0..MaxBatch, first : Nat]]
  BY <1>4, IdleTypes DEF IInv, TypeOK
<1>9. records' \in [Id -> Nat]
  BY <1>1, <1>2, <1>3, <1>4
<1>10. TypeOK'
  <2>1. \A e \in Device : push'[e].pc \notin {"write", "commit"}
    BY <1>7, <1>8 DEF Idle
  <2> QED BY <1>4, <1>6, <1>8, <1>9, <2>1 DEF IInv, TypeOK, keyVars, devVars
<1>11. Quiet'
  BY <1>4, SyncAssumption DEF IInv, Log, Quiet
<1>12. Below'
  <2>1. \A i \in Id : records'[i] # None => records'[i] < counter'
    <3> SUFFICES ASSUME NEW i \in Id, records'[i] # None
                 PROVE  records'[i] < counter'
      OBVIOUS
    <3>1. CASE i \in DOMAIN at
      BY <3>1, <1>1, <1>2, <1>4, <1>5
    <3>2. CASE i \notin DOMAIN at
      BY <3>2, <1>1, <1>3, <1>4, <1>5
    <3> QED BY <3>1, <3>2
  <2>2. \A e \in Device : cursor'[e] < counter'
    BY <1>1, <1>3, <1>4 DEF devVars
  <2> QED BY <2>1, <2>2 DEF Below, None
<1>13. SeqsUnique'
  <2> SUFFICES ASSUME NEW i \in Id, NEW j \in Id,
                      records'[i] # None, records'[i] = records'[j]
               PROVE  i = j
    BY DEF SeqsUnique, None
  <2>1. CASE i \in DOMAIN at /\ j \in DOMAIN at
    BY <2>1, <1>1, <1>2, <1>5
  <2>2. CASE i \notin DOMAIN at /\ j \notin DOMAIN at
    BY <2>2, <1>5 DEF IInv, Log, SeqsUnique
  <2>3. CASE i \in DOMAIN at /\ j \notin DOMAIN at
    BY <2>3, <1>1, <1>2, <1>3, <1>5
  <2>4. CASE i \notin DOMAIN at /\ j \in DOMAIN at
    BY <2>4, <1>1, <1>2, <1>3, <1>5
  <2> QED BY <2>1, <2>2, <2>3, <2>4
<1>14. NothingMissed'
  <2> SUFFICES ASSUME NEW e \in Device, NEW i \in Id,
                      records'[i] # None, records'[i] <= cursor[e]
               PROVE  copy[e][i] = records'[i]
    BY <1>4 DEF NothingMissed, devVars, None
  <2>1. i \notin DOMAIN at
    BY <1>1, <1>2, <1>3, <1>5
  <2> QED BY <2>1, <1>5 DEF IInv, Log, NothingMissed
<1>15. \A e \in Device : Holds(e)' /\ Placed(e)'
  <2>1. \A e \in Device : Holds(e)'
    BY <1>7, <1>8 DEF Holds, Idle
  <2>2. Placed(d)'
    BY <1>8, IdleTypes DEF Placed
  <2>3. \A e \in Device : e # d => Placed(e)'
    BY <1>7 DEF IInv, Placed
  <2> QED BY <2>1, <2>2, <2>3
<1> QED BY <1>10, <1>11, <1>12, <1>13, <1>14, <1>15 DEF IInv, Log

\* A page in seq order steps over nothing.
LEMMA ChangesKeeps ==
    ASSUME IInv, NEW d \in Device, Changes(d)
    PROVE  IInv'
<1>1. PICK page \in SUBSET After(d), last \in After(d) :
         /\ IsPage(d, page) /\ last \in page
         /\ \A i \in page : records[i] <= records[last]
         /\ cursor' = [cursor EXCEPT ![d] = records[last]]
         /\ copy' = [copy EXCEPT ![d] =
                       [i \in Id |-> IF i \in page THEN records[i] ELSE copy[d][i]]]
  BY DEF Changes
<1>2. UNCHANGED <<keyVars, logVars, push, erase, sent>>
  BY DEF Changes
<1>3. /\ last \in Id /\ page \subseteq Id
      /\ \A i \in Id : records[i] \in Nat
      /\ cursor[d] \in Nat /\ records[last] > cursor[d] /\ counter \in Nat
  BY DEF After, IInv, TypeOK
<1>4. records[last] # None /\ records[last] < counter
  BY <1>3 DEF IInv, Log, Below, None
<1>5. cursor'[d] = records[last] /\ \A e \in Device : e # d => cursor'[e] = cursor[e]
  BY <1>1 DEF IInv, TypeOK
<1>6. /\ \A i \in Id : copy'[d][i] = IF i \in page THEN records[i] ELSE copy[d][i]
      /\ \A e \in Device : e # d => copy'[e] = copy[e]
  BY <1>1 DEF IInv, TypeOK
<1>7. TypeOK'
  <2>1. cursor' \in [Device -> Nat]
    BY <1>1, <1>3 DEF IInv, TypeOK
  <2>2. [i \in Id |-> IF i \in page THEN records[i] ELSE copy[d][i]] \in [Id -> Nat]
    BY <1>3 DEF IInv, TypeOK
  <2>3. copy' \in [Device -> [Id -> Nat]]
    BY <1>1, <2>2 DEF IInv, TypeOK
  <2> QED BY <1>2, <2>1, <2>3 DEF IInv, TypeOK, keyVars, logVars
<1>8. NothingMissed'
  <2> SUFFICES ASSUME NEW e \in Device, NEW i \in Id,
                      records[i] # None, records[i] <= cursor'[e]
               PROVE  copy'[e][i] = records[i]
    BY <1>2 DEF NothingMissed, logVars, None
  <2>1. CASE e # d
    BY <2>1, <1>5, <1>6 DEF IInv, Log, NothingMissed
  <2>2. CASE e = d
    <3>1. CASE i \in page
      BY <2>2, <3>1, <1>6
    <3>2. CASE i \notin page
      <4>1. i \notin After(d)
        <5> SUFFICES ASSUME i \in After(d) PROVE FALSE
          OBVIOUS
        <5>1. records[last] <= records[i]
          BY <3>2, <1>1 DEF IsPage
        <5>2. records[i] = records[last]
          BY <2>2, <5>1, <1>3, <1>5
        <5>3. i = last
          BY <5>2, <1>3 DEF IInv, Log, SeqsUnique
        <5> QED BY <5>3, <3>2, <1>1
      <4>2. records[i] <= cursor[d]
        BY <4>1, <1>3 DEF After
      <4> QED BY <4>2, <3>2, <2>2, <1>6 DEF IInv, Log, NothingMissed
    <3> QED BY <3>1, <3>2
  <2> QED BY <2>1, <2>2
<1>9. Quiet' /\ SeqsUnique'
  BY <1>2 DEF IInv, Log, Quiet, SeqsUnique, logVars
<1>10. Below'
  BY <1>2, <1>4, <1>5 DEF IInv, Log, Below, logVars
<1>11. \A e \in Device : Holds(e)' /\ Placed(e)'
  BY <1>2 DEF IInv, Holds, Placed, First, logVars
<1> QED BY <1>7, <1>8, <1>9, <1>10, <1>11 DEF IInv, Log

\* Every step keeps the invariant.
LEMMA NextStep ==
    ASSUME MaxErases = 0, IInv, [Next]_vars
    PROVE  IInv'
<1>1. erase.pc = "idle" /\ sent.erases \in Nat
  BY DEF IInv, Log, Quiet, IdleErase, TypeOK
<1>2. CASE \E d \in Device : GetKey(d) \/ PutNewKey(d) \/ ReplaceKey(d)
  BY <1>2, KeyStep
<1>3. CASE \E d \in Device : StartPush(d) \/ PushStep(d) \/ PushFails(d)
  BY <1>3, PushStepKeeps, CommitKeeps DEF PushStep, CounterGone
<1>4. CASE \E d \in Device : Changes(d)
  BY <1>4, ChangesKeeps
<1>5. CASE StartErase \/ EraseStep \/ EraseFails \/ BreakDeadlock
  BY <1>1, <1>5 DEF StartErase, EraseStep, EraseRecords, EraseCounter, EraseKey,
                    CommitErase, EraseFails, BreakDeadlock, Deadlocked
<1>6. CASE UNCHANGED vars
  <2>1. TypeOK'
    BY <1>6 DEF vars, IInv, TypeOK
  <2>2. Log'
    BY <1>6, LogKept DEF vars, devVars, IInv, Log, Quiet
  <2>3. \A e \in Device : Holds(e)' /\ Placed(e)'
    BY <1>6 DEF vars, IInv, Holds, Placed, First
  <2> QED BY <2>1, <2>2, <2>3 DEF IInv
<1> QED BY <1>2, <1>3, <1>4, <1>5, <1>6 DEF Next

(***************************************************************************)
(* IInv is inductive while nobody erases.                                  *)
(***************************************************************************)
THEOREM Inductive == ASSUME MaxErases = 0 PROVE Spec => []IInv
<1>1. IInv /\ [Next]_vars => IInv'
  BY NextStep
<1> QED BY <1>1, Initially, PTL DEF Spec

(* GET /sync/changes?since=N pulls everything after N: however pushes      *)
(* interleave, fail and retry, and wherever pages end, a device never has  *)
(* a cursor beyond a record version it did not receive.                    *)
THEOREM PullsEverything == ASSUME MaxErases = 0 PROVE Spec => []NothingMissed
<1>1. IInv => NothingMissed
  BY DEF IInv, Log
<1> QED BY <1>1, Inductive, PTL

(* Two records of a user never carry the same sequence number.             *)
THEOREM DistinctSeqs == ASSUME MaxErases = 0 PROVE Spec => []SeqsUnique
<1>1. IInv => SeqsUnique
  BY DEF IInv, Log
<1> QED BY <1>1, Inductive, PTL

-----------------------------------------------------------------------------
(***************************************************************************)
(* The key.  A device knows a version of the key that was stored, and who  *)
(* knows the stored version knows the stored key.                          *)
(***************************************************************************)
KeysKnown ==
    /\ key # NoKey => key.version # 0
    /\ \A d \in Device : seen[d] # NoKey =>
         /\ key # NoKey /\ seen[d].version <= key.version
         /\ seen[d].version = key.version => seen[d] = key

\* While nobody erases, a version of the key is written once.
LEMMA KeysKept ==
    ASSUME IInv, KeysKnown, [Next]_vars, erase'.pc = "idle"
    PROVE  KeysKnown'
<1>1. /\ key.version \in Nat /\ \A d \in Device : seen[d].version \in Nat
      /\ \A d \in Device : seen[d] \in [version : Nat, wraps : Nat]
      /\ key \in [version : Nat, wraps : Nat]
  BY DEF IInv, TypeOK
<1>2. CASE key' = key /\ seen' = seen
  BY <1>2 DEF KeysKnown
<1>3. CASE \E d \in Device : GetKey(d)
  <2>1. PICK d \in Device : GetKey(d)
    BY <1>3
  <2>2. /\ key # NoKey /\ key' = key /\ seen'[d] = key
        /\ \A e \in Device : e # d => seen'[e] = seen[e]
    BY <2>1 DEF GetKey, IInv, TypeOK
  <2> QED BY <1>1, <2>2 DEF KeysKnown
<1>4. CASE \E d \in Device : PutNewKey(d)
  <2>1. PICK d \in Device : PutNewKey(d)
    BY <1>4
  <2>2. /\ key = NoKey /\ key'.version = 1 /\ seen'[d] = key'
        /\ \A e \in Device : e # d => seen'[e] = seen[e]
    BY <2>1 DEF PutNewKey, IInv, TypeOK
  <2>3. \A e \in Device : e # d => seen'[e] = NoKey
    BY <2>2 DEF KeysKnown
  <2>4. key' # NoKey
    BY <2>2 DEF NoKey
  <2> QED BY <2>2, <2>3, <2>4 DEF KeysKnown
<1>5. CASE \E d \in Device : ReplaceKey(d)
  <2>1. PICK d \in Device : ReplaceKey(d)
    BY <1>5
  <2>2. /\ key # NoKey /\ key'.version = key.version + 1 /\ seen'[d] = key'
        /\ \A e \in Device : e # d => seen'[e] = seen[e]
    BY <2>1 DEF ReplaceKey, StillCurrent, IInv, TypeOK
  <2>3. key' # NoKey /\ key'.version # 0
    BY <1>1, <2>2 DEF NoKey
  <2>4. \A e \in Device : e # d /\ seen'[e] # NoKey => seen'[e].version < key'.version
    BY <1>1, <2>2 DEF KeysKnown
  <2> QED BY <1>1, <2>2, <2>3, <2>4 DEF KeysKnown
<1>6. CASE \E d \in Device : StartPush(d) \/ PushStep(d) \/ PushFails(d) \/ Changes(d)
  <2>1. UNCHANGED keyVars
    BY <1>6 DEF StartPush, PushStep, CheckKey, EnsureCounter, ReserveSeqs, Upsert,
                CommitPush, CounterGone, PushFails, Changes
  <2> QED BY <1>2, <2>1 DEF keyVars
<1>7. CASE StartErase \/ EraseStep \/ EraseFails \/ BreakDeadlock
  BY <1>7 DEF StartErase, EraseStep, EraseRecords, EraseCounter, EraseKey, CommitErase,
              EraseFails, BreakDeadlock, Deadlocked, IInv, Log, Quiet, IdleErase
<1>8. CASE UNCHANGED vars
  BY <1>2, <1>8 DEF vars
<1> QED BY <1>3, <1>4, <1>5, <1>6, <1>7, <1>8 DEF Next

(* PUT /sync/key compares and swaps: while nobody erases, a device that    *)
(* changes the passphrase replaces the very key it saw, never one that     *)
(* another device stored since.                                            *)
THEOREM NeverReplacesUnseen == ASSUME MaxErases = 0 PROVE Spec => ReplacesWhatItSaw
<1>1. Init => KeysKnown
  BY DEF Init, KeysKnown
<1>2. IInv /\ IInv' /\ KeysKnown /\ [Next]_vars => KeysKnown'
  <2>1. IInv' => erase'.pc = "idle"
    BY DEF IInv, Log, Quiet, IdleErase
  <2> QED BY <2>1, KeysKept
<1>3. IInv /\ KeysKnown => [\A d \in Device : ReplaceKey(d) => seen[d] = key]_vars
  BY DEF KeysKnown, ReplaceKey, StillCurrent
<1> QED BY <1>1, <1>2, <1>3, Inductive, PTL DEF Spec, ReplacesWhatItSaw

-----------------------------------------------------------------------------
(***************************************************************************)
(* Types, also while somebody erases.                                      *)
(***************************************************************************)
Pushes == [pc : {"idle", "key", "ensure", "reserve", "write", "commit"},
           at : Batches, n : 0..MaxBatch, first : Nat]

\* A push moves on, or ends, and the values it takes have their type.
LEMMA PushTypes ==
    ASSUME TypeOK, NEW d \in Device, NEW p \in Pushes,
           push' = [push EXCEPT ![d] = p],
           p.pc \in {"write", "commit"} => p.first # None,
           locker' \in Device \cup {Nobody, Eraser},
           counter' \in Nat, records' \in [Id -> Nat],
           sent' \in [pushes : Nat, erases : Nat],
           UNCHANGED <<keyVars, erase, devVars>>
    PROVE  TypeOK'
<1>1. push' \in [Device -> Pushes]
  BY DEF TypeOK, Pushes
<1>2. push'[d] = p /\ \A e \in Device : e # d => push'[e] = push[e]
  BY DEF TypeOK
<1>3. \A e \in Device : push'[e].pc \in {"write", "commit"} => push'[e].first # None
  BY <1>2 DEF TypeOK
<1> QED BY <1>1, <1>3 DEF TypeOK, Pushes, keyVars, devVars

\* A step of PushRecords keeps the types.
LEMMA PushKeepsTypes ==
    ASSUME TypeOK, NEW d \in Device, StartPush(d) \/ PushStep(d) \/ PushFails(d)
    PROVE  TypeOK'
<1> USE DEF keyVars, logVars
<1>1. /\ push[d] \in Pushes /\ First \in Nat /\ First # None
      /\ sent \in [pushes : Nat, erases : Nat]
      /\ locker \in Device \cup {Nobody, Eraser} /\ counter \in Nat
      /\ records \in [Id -> Nat]
      /\ push[d].pc \in {"write", "commit"} => push[d].first # None
  BY DEF TypeOK, First, None, Pushes
<1>2. CASE StartPush(d)
  <2>1. PICK n \in 1..MaxBatch, at \in Batches :
          push' = [push EXCEPT ![d] = [pc |-> "key", at |-> at, n |-> n, first |-> 0]]
    BY <1>2 DEF StartPush
  <2>2. [pc |-> "key", at |-> at, n |-> n, first |-> 0] \in Pushes
    BY SyncAssumption DEF Pushes
  <2>3. UNCHANGED <<keyVars, logVars, erase, devVars>> /\ sent' \in [pushes : Nat, erases : Nat]
    BY <1>1, <1>2 DEF StartPush
  <2> QED BY <1>1, <2>1, <2>2, <2>3, PushTypes
<1>3. ASSUME NEW pc \in {"ensure", "reserve", "commit"}, To(d, pc),
             pc = "commit" => push[d].first # None,
             UNCHANGED <<keyVars, counter, records, erase, devVars, sent>>,
             locker' \in Device \cup {Nobody, Eraser}
      PROVE  TypeOK'
  <2> DEFINE p == [push[d] EXCEPT !.pc = pc]
  <2>1. p \in Pushes /\ p.pc = pc /\ p.first = push[d].first
    BY <1>1 DEF Pushes
  <2>2. push' = [push EXCEPT ![d] = p]
    BY <1>3 DEF To
  <2> HIDE DEF p
  <2> QED BY <1>1, <1>3, <2>1, <2>2, PushTypes
<1>4. ASSUME push' = [push EXCEPT ![d] = Idle],
             counter' \in Nat, records' \in [Id -> Nat],
             UNCHANGED <<keyVars, erase, devVars, sent>>,
             locker' \in Device \cup {Nobody, Eraser}
      PROVE  TypeOK'
  <2>1. Idle \in Pushes /\ Idle.pc = "idle"
    BY IdleTypes DEF Pushes, Idle
  <2> QED BY <1>1, <1>4, <2>1, PushTypes
<1>5. CASE CheckKey(d)
  <2>1. CASE key = NoKey
    BY <1>1, <1>4, <1>5, <2>1 DEF CheckKey
  <2>2. CASE key # NoKey
    BY <1>1, <1>3, <1>5, <2>2 DEF CheckKey
  <2> QED BY <2>1, <2>2
<1>6. CASE EnsureCounter(d)
  BY <1>1, <1>3, <1>6 DEF EnsureCounter
<1>7. CASE ReserveSeqs(d)
  <2> DEFINE p == [push[d] EXCEPT !.pc = "write", !.first = First]
  <2>1. p \in Pushes /\ p.first = First
    BY <1>1 DEF Pushes
  <2>2. push' = [push EXCEPT ![d] = p]
    BY <1>7 DEF ReserveSeqs, TypeOK
  <2> HIDE DEF p
  <2>3. UNCHANGED <<keyVars, counter, records, erase, devVars, sent>> /\ locker' = d
    BY <1>7 DEF ReserveSeqs
  <2> QED BY <1>1, <2>1, <2>2, <2>3, PushTypes
<1>8. CASE Upsert(d)
  BY <1>1, <1>3, <1>8 DEF Upsert
<1>9. CASE CommitPush(d)
  <2>1. DOMAIN push[d].at \subseteq Id /\ \A i \in DOMAIN push[d].at : push[d].at[i] \in Nat
    BY <1>1, BatchFacts DEF Pushes
  <2>2. /\ push[d].first \in Nat /\ push[d].n \in Nat
        /\ \A i \in DOMAIN push[d].at : push[d].first + push[d].at[i] \in Nat
        /\ push[d].first + push[d].n \in Nat
    BY <1>1, <2>1, SyncAssumption DEF Pushes
  <2>3. records' \in [Id -> Nat] /\ counter' \in Nat
    BY <1>1, <1>9, <2>1, <2>2 DEF CommitPush, NextSeq
  <2> QED BY <1>1, <1>4, <1>9, <2>3 DEF CommitPush
<1>10. CASE PushFails(d)
  BY <1>1, <1>4, <1>10 DEF PushFails, Released
<1>11. CASE CounterGone(d)
  BY <1>10, <1>11 DEF CounterGone
<1> QED BY <1>2, <1>5, <1>6, <1>7, <1>8, <1>9, <1>10, <1>11 DEF PushStep

\* A step of EraseUser keeps the types.
LEMMA EraseKeepsTypes ==
    ASSUME TypeOK, StartErase \/ EraseStep \/ EraseFails
    PROVE  TypeOK'
<1> USE DEF keyVars, logVars, devVars
<1>1. /\ Stored \subseteq Id /\ {} \subseteq Id
      /\ locker \in Device \cup {Nobody, Eraser} /\ counter \in Nat
      /\ records \in [Id -> Nat] /\ sent \in [pushes : Nat, erases : Nat]
      /\ erase \in [pc : {"idle", "records", "counter", "key", "commit"}, rows : SUBSET Id]
  BY DEF TypeOK, Stored
<1>2. IdleErase \in [pc : {"idle", "records", "counter", "key", "commit"}, rows : SUBSET Id]
  BY DEF IdleErase
<1>3. CASE StartErase
  BY <1>1, <1>3 DEF StartErase, TypeOK
<1>4. CASE EraseRecords
  BY <1>1, <1>4 DEF EraseRecords, TypeOK
<1>5. CASE EraseCounter
  BY <1>1, <1>5 DEF EraseCounter, TypeOK
<1>6. CASE EraseKey
  BY <1>1, <1>6 DEF EraseKey, TypeOK
<1>7. CASE CommitErase
  BY <1>1, <1>2, <1>7 DEF CommitErase, TypeOK, Released, None, NoKey
<1>8. CASE EraseFails
  BY <1>1, <1>2, <1>8 DEF EraseFails, TypeOK, Released
<1> QED BY <1>3, <1>4, <1>5, <1>6, <1>7, <1>8 DEF EraseStep

\* The key's handlers and a pull keep the types.
LEMMA OthersKeepTypes ==
    ASSUME TypeOK, NEW d \in Device,
           GetKey(d) \/ PutNewKey(d) \/ ReplaceKey(d) \/ Changes(d)
    PROVE  TypeOK'
<1> USE DEF keyVars, logVars, devVars
<1>1. CASE GetKey(d)
  BY <1>1 DEF GetKey, TypeOK
<1>2. CASE PutNewKey(d)
  BY <1>2 DEF PutNewKey, TypeOK
<1>3. CASE ReplaceKey(d)
  <2>1. seen[d].wraps \in Nat /\ key.version + 1 \in Nat
    BY DEF TypeOK
  <2> QED BY <1>3, <2>1 DEF ReplaceKey, TypeOK
<1>4. CASE Changes(d)
  <2>1. PICK page \in SUBSET After(d), last \in After(d) :
           /\ cursor' = [cursor EXCEPT ![d] = records[last]]
           /\ copy' = [copy EXCEPT ![d] =
                         [i \in Id |-> IF i \in page THEN records[i] ELSE copy[d][i]]]
    BY <1>4 DEF Changes
  <2>2. /\ records[last] \in Nat
        /\ [i \in Id |-> IF i \in page THEN records[i] ELSE copy[d][i]] \in [Id -> Nat]
    BY DEF After, TypeOK
  <2>3. UNCHANGED <<keyVars, logVars, push, erase, sent>>
    BY <1>4 DEF Changes
  <2> QED BY <2>1, <2>2, <2>3 DEF TypeOK
<1> QED BY <1>1, <1>2, <1>3, <1>4

\* Every step keeps the types.
LEMMA TypeStep == TypeOK /\ [Next]_vars => TypeOK'
<1> SUFFICES ASSUME TypeOK, [Next]_vars PROVE TypeOK'
  OBVIOUS
<1>1. CASE UNCHANGED vars
  BY <1>1 DEF vars, TypeOK
<1> QED BY <1>1, PushKeepsTypes, EraseKeepsTypes, OthersKeepTypes DEF Next, BreakDeadlock

(* The stored rows, the requests under way and the devices' cursors keep   *)
(* their types, and no sequence number handed out is 0.                    *)
THEOREM TypeCorrect == Spec => []TypeOK
<1>1. Init => TypeOK
  BY Initially DEF IInv
<1> QED BY <1>1, TypeStep, PTL DEF Spec
-----------------------------------------------------------------------------
(***************************************************************************)
(* The quota.  The push that read the count last bounds it: what the       *)
(* others store after that read is a batch each.                           *)
(***************************************************************************)
Pending == {d \in Device : push[d].pc # "idle"}
Limit == MaxRecords + (Cardinality(Device) - 1) * MaxBatch

\* A batch has no more ids than it has records.
Fitting(d) ==
    /\ IsFiniteSet(DOMAIN push[d].at)
    /\ Cardinality(DOMAIN push[d].at) <= push[d].n

\* With push d and a whole batch of every other one, the limit is kept.
Roomy(d) ==
    Cardinality(Stored) + push[d].n + (Cardinality(Pending) - 1) * MaxBatch <= Limit

QuotaInv ==
    /\ IsFiniteSet(Stored)
    /\ \A d \in Device : Fitting(d)
    /\ Pending = {} => Cardinality(Stored) <= Limit
    /\ Pending # {} => \E d \in Pending : Roomy(d)

\* The pushes under way are finitely many, and no more than the devices.
LEMMA PendingFinite ==
    /\ IsFiniteSet(Pending) /\ Cardinality(Pending) \in Nat
    /\ Cardinality(Device) \in Nat /\ Cardinality(Device) # 0
    /\ Cardinality(Pending) <= Cardinality(Device)
    /\ Limit \in Int /\ Limit >= MaxRecords
<1>1. Pending \in SUBSET Device
  BY DEF Pending
<1>2. /\ IsFiniteSet(Pending) /\ Cardinality(Pending) \in Nat
      /\ Cardinality(Device) \in Nat /\ Cardinality(Device) # 0
      /\ Cardinality(Pending) <= Cardinality(Device)
  BY <1>1, FS_Subset, FS_CardinalityType, FS_EmptySet, SyncAssumption
<1>3. Cardinality(Device) - 1 \in Nat
  BY <1>2
<1>4. \A k \in Nat : k * MaxBatch \in Nat
  BY SyncAssumption
<1>5. Limit \in Int /\ Limit >= MaxRecords
  BY <1>3, <1>4, SyncAssumption DEF Limit
<1> QED BY <1>2, <1>5

\* A batch more or less, and at most one batch per device.
LEMMA BatchesAdd ==
    ASSUME NEW k \in Int, NEW m \in Int, k <= m
    PROVE  /\ k * MaxBatch \in Int /\ m * MaxBatch \in Int
           /\ (k - 1) * MaxBatch = k * MaxBatch - MaxBatch
           /\ k * MaxBatch <= m * MaxBatch
<1>1. MaxBatch \in Nat
  BY SyncAssumption
<1>2. k * MaxBatch \in Int /\ m * MaxBatch \in Int
  BY <1>1
<1>3. (k - 1) * MaxBatch = k * MaxBatch - MaxBatch
  BY <1>1
<1>4. k * MaxBatch <= m * MaxBatch
  BY <1>1
<1> QED BY <1>2, <1>3, <1>4

\* A step after which the same pushes are under way, and nothing more is stored.
LEMMA QuotaKept ==
    ASSUME QuotaInv,
           \A d \in Device : /\ push'[d].pc = "idle" <=> push[d].pc = "idle"
                             /\ push'[d].n = push[d].n /\ push'[d].at = push[d].at,
           Stored' \subseteq Stored, TypeOK
    PROVE  QuotaInv'
<1>1. Pending' = Pending
  BY DEF Pending
<1>2. /\ IsFiniteSet(Stored') /\ Cardinality(Stored') <= Cardinality(Stored)
      /\ Cardinality(Stored) \in Nat /\ Cardinality(Stored') \in Nat
  BY FS_Subset, FS_CardinalityType DEF QuotaInv
<1>3. \A d \in Device : Fitting(d)'
  BY DEF QuotaInv, Fitting
<1>4. Pending = {} => Cardinality(Stored') <= Limit
  BY <1>2, PendingFinite DEF QuotaInv
<1>5. ASSUME NEW d \in Pending, Roomy(d)
      PROVE  Roomy(d)'
  <2>1. d \in Device /\ push[d].n \in Nat
    BY SyncAssumption DEF Pending, TypeOK
  <2>2. (Cardinality(Pending) - 1) * MaxBatch \in Int
    BY PendingFinite, BatchesAdd
  <2>3. push'[d].n = push[d].n
    BY <2>1
  <2> DEFINE rest == (Cardinality(Pending) - 1) * MaxBatch
  <2>4. Cardinality(Stored) + push[d].n + rest <= Limit
    BY <1>5 DEF Roomy
  <2>5. rest \in Int
    BY <2>2
  <2> HIDE DEF rest
  <2>6. Cardinality(Stored') + push'[d].n + rest <= Limit
    BY <1>2, <2>1, <2>3, <2>4, <2>5, PendingFinite
  <2> QED BY <1>1, <2>6 DEF Roomy, Limit, rest
<1>6. Pending # {} => \E d \in Pending : Roomy(d)'
  BY <1>5 DEF QuotaInv
<1> QED BY <1>1, <1>2, <1>3, <1>4, <1>6 DEF QuotaInv, Limit

\* A push that arrives read the count: it is the one to look at.
LEMMA QuotaAtStart ==
    ASSUME TypeOK, QuotaInv, NEW d \in Device, StartPush(d)
    PROVE  QuotaInv'
<1>1. PICK n \in 1..MaxBatch, at \in Batches :
         /\ Fills(at, n) /\ Room(n)
         /\ push' = [push EXCEPT ![d] = [pc |-> "key", at |-> at, n |-> n, first |-> 0]]
  BY DEF StartPush
<1>2. /\ push'[d].pc = "key" /\ push'[d].n = n /\ push'[d].at = at
      /\ \A e \in Device : e # d => push'[e] = push[e]
      /\ n \in Nat /\ n <= MaxBatch
  BY <1>1, SyncAssumption DEF TypeOK
<1>3. Stored' = Stored
  BY DEF StartPush, Stored, logVars
<1>4. Fitting(d)'
  <2>1. at \in [DOMAIN at -> 0..(n - 1)]
    BY <1>1, <1>2, SyncAssumption DEF Fills, Batches
  <2>2. at \in Injection(DOMAIN at, 0..(n - 1))
    BY <1>1, <2>1 DEF Fills, Injection, IsInjective
  <2>3. IsFiniteSet(0..(n - 1)) /\ Cardinality(0..(n - 1)) = n
    BY <1>2, <1>1, FS_Interval
  <2>4. IsFiniteSet(DOMAIN at) /\ Cardinality(DOMAIN at) <= n
    BY <2>2, <2>3, FS_Injection
  <2> QED BY <1>2, <2>4 DEF Fitting
<1>5. \A e \in Device : Fitting(e)'
  BY <1>2, <1>4 DEF QuotaInv, Fitting
<1>6. d \in Pending'
  BY <1>2 DEF Pending
<1>7. Roomy(d)'
  <2>1. Cardinality(Stored) + n <= MaxRecords /\ Cardinality(Stored) \in Nat
    BY <1>1, FS_CardinalityType DEF Room, QuotaInv
  <2>2. /\ Pending' \in SUBSET Device
        /\ IsFiniteSet(Pending')
        /\ Cardinality(Pending') \in Nat
        /\ Cardinality(Pending') <= Cardinality(Device)
    BY FS_Subset, FS_CardinalityType, SyncAssumption DEF Pending
  <2> DEFINE rest == (Cardinality(Pending') - 1) * MaxBatch
             all  == (Cardinality(Device) - 1) * MaxBatch
  <2>3. rest \in Int /\ all \in Int /\ rest <= all
    <3>1. /\ Cardinality(Pending') - 1 \in Int /\ Cardinality(Device) - 1 \in Int
          /\ Cardinality(Pending') - 1 <= Cardinality(Device) - 1
      BY <2>2, PendingFinite
    <3> QED BY <3>1, BatchesAdd
  <2>4. Limit = MaxRecords + all
    BY DEF Limit
  <2> HIDE DEF rest, all
  <2>5. Cardinality(Stored) + n + rest <= Limit
    BY <1>2, <2>1, <2>3, <2>4, SyncAssumption
  <2> QED BY <1>2, <1>3, <2>5 DEF Roomy, Limit, rest
<1> QED BY <1>3, <1>5, <1>6, <1>7 DEF QuotaInv

\* A push ends and leaves at most its own batch behind.
LEMMA QuotaAtEnd ==
    ASSUME TypeOK, QuotaInv, NEW d \in Pending,
           push' = [push EXCEPT ![d] = Idle], IsFiniteSet(Stored'),
           Cardinality(Stored') <= Cardinality(Stored) + push[d].n
    PROVE  QuotaInv'
<1>1. /\ d \in Device /\ push'[d] = Idle
      /\ \A e \in Device : e # d => push'[e] = push[e]
      /\ \A e \in Device : push[e].n \in Nat /\ push[e].n <= MaxBatch
  BY SyncAssumption DEF Pending, TypeOK
<1>2. Pending' = Pending \ {d}
  BY <1>1 DEF Pending, Idle
<1>3. /\ Cardinality(Pending') = Cardinality(Pending) - 1
      /\ IsFiniteSet(Pending') /\ Cardinality(Pending) \in Nat
      /\ Pending' = {} <=> Cardinality(Pending') = 0
  BY <1>2, PendingFinite, FS_RemoveElement, FS_EmptySet
<1>4. Cardinality(Stored) \in Nat /\ Cardinality(Stored') \in Nat
  BY FS_CardinalityType DEF QuotaInv
<1>5. \A e \in Device : Fitting(e)'
  <2>1. Fitting(d)'
    BY <1>1, IdleTypes, FS_EmptySet DEF Fitting, Idle
  <2>2. \A e \in Device : e # d => Fitting(e)'
    BY <1>1 DEF QuotaInv, Fitting
  <2> QED BY <2>1, <2>2
<1>6. PICK e \in Pending : Roomy(e)
  BY DEF QuotaInv
<1>7. e \in Device
  BY DEF Pending
<1> DEFINE k == Cardinality(Pending)
           all == k * MaxBatch
<1>8. /\ all \in Int /\ (k - 1) * MaxBatch = all - MaxBatch
      /\ (k - 2) * MaxBatch = all - MaxBatch - MaxBatch
  <2>1. k \in Int /\ k - 1 \in Int /\ k <= k /\ k - 1 <= k - 1
    BY <1>3
  <2>2. all \in Int /\ (k - 1) * MaxBatch = all - MaxBatch
    BY <2>1, BatchesAdd
  <2>3. (k - 1 - 1) * MaxBatch = (k - 1) * MaxBatch - MaxBatch
    BY <2>1, BatchesAdd
  <2>4. k - 1 - 1 = k - 2
    BY <2>1
  <2> QED BY <2>2, <2>3, <2>4
<1> HIDE DEF all
<1>9. Cardinality(Stored) + push[e].n + all - MaxBatch <= Limit
  BY <1>1, <1>4, <1>6, <1>7, <1>8, SyncAssumption, PendingFinite DEF Roomy
<1>10. Pending' = {} => Cardinality(Stored') <= Limit
  <2> SUFFICES ASSUME Pending' = {} PROVE Cardinality(Stored') <= Limit
    OBVIOUS
  <2>1. e = d /\ k = 1
    BY <1>2, <1>3
  <2>2. all = MaxBatch
    BY <2>1, SyncAssumption DEF all
  <2> QED BY <2>1, <2>2, <1>1, <1>4, <1>9, PendingFinite, SyncAssumption
<1>11. ASSUME NEW f \in Pending'
       PROVE  f \in Pending /\ f # d /\ push'[f].n = push[f].n /\ push[f].n \in Nat
              /\ push[f].n <= MaxBatch
  BY <1>1, <1>2 DEF Pending
<1>12. ASSUME NEW f \in Pending',
              Cardinality(Stored') + push[f].n + (all - MaxBatch - MaxBatch) <= Limit
       PROVE  Roomy(f)'
  <2>1. Cardinality(Pending') - 1 = k - 2
    BY <1>3
  <2> QED BY <1>8, <1>11, <1>12, <2>1 DEF Roomy, Limit
<1>13. Pending' # {} => \E f \in Pending' : Roomy(f)'
  <2> SUFFICES ASSUME Pending' # {} PROVE \E f \in Pending' : Roomy(f)'
    OBVIOUS
  <2>1. CASE e = d
    <3>1. PICK f \in Pending' : TRUE
      OBVIOUS
    <3>2. Cardinality(Stored') + push[f].n + (all - MaxBatch - MaxBatch) <= Limit
      BY <2>1, <3>1, <1>1, <1>4, <1>8, <1>9, <1>11, PendingFinite, SyncAssumption
    <3> QED BY <3>1, <3>2, <1>12
  <2>2. CASE e # d
    <3>1. e \in Pending'
      BY <2>2, <1>2
    <3>2. Cardinality(Stored') + push[e].n + (all - MaxBatch - MaxBatch) <= Limit
      BY <1>1, <1>4, <1>7, <1>8, <1>9, PendingFinite, SyncAssumption
    <3> QED BY <3>1, <3>2, <1>12
  <2> QED BY <2>1, <2>2
<1> QED BY <1>5, <1>10, <1>13 DEF QuotaInv, Limit

\* A push that commits stores at most its batch.
LEMMA QuotaAtCommit ==
    ASSUME TypeOK, QuotaInv, NEW d \in Device, CommitPush(d)
    PROVE  QuotaInv'
<1>1. /\ d \in Pending /\ push' = [push EXCEPT ![d] = Idle]
      /\ push[d].n \in Nat /\ Fitting(d)
  BY SyncAssumption DEF CommitPush, Pending, QuotaInv, TypeOK
<1>2. Stored' \in SUBSET (Stored \cup DOMAIN push[d].at)
  BY DEF CommitPush, Stored
<1>3. /\ IsFiniteSet(Stored \cup DOMAIN push[d].at)
      /\ Cardinality(Stored \cup DOMAIN push[d].at)
           = Cardinality(Stored) + Cardinality(DOMAIN push[d].at)
             - Cardinality(Stored \cap DOMAIN push[d].at)
      /\ IsFiniteSet(Stored \cap DOMAIN push[d].at)
  BY <1>1, FS_Union, FS_Intersection DEF Fitting, QuotaInv
<1>4. IsFiniteSet(Stored') /\ Cardinality(Stored') <= Cardinality(Stored \cup DOMAIN push[d].at)
  BY <1>2, <1>3, FS_Subset
<1>5. /\ Cardinality(Stored) \in Nat /\ Cardinality(DOMAIN push[d].at) \in Nat
      /\ Cardinality(Stored \cap DOMAIN push[d].at) \in Nat /\ Cardinality(Stored') \in Nat
  BY <1>1, <1>3, <1>4, FS_CardinalityType DEF Fitting, QuotaInv
<1>6. Cardinality(Stored') <= Cardinality(Stored) + push[d].n
  BY <1>1, <1>3, <1>4, <1>5 DEF Fitting
<1> QED BY <1>1, <1>4, <1>6, QuotaAtEnd

\* A push that fails stores nothing.
LEMMA QuotaAtFailure ==
    ASSUME TypeOK, QuotaInv, NEW d \in Pending,
           push' = [push EXCEPT ![d] = Idle], records' = records
    PROVE  QuotaInv'
<1>1. Stored' = Stored /\ push[d].n \in Nat
  BY SyncAssumption DEF Stored, Pending, TypeOK
<1>2. Cardinality(Stored) \in Nat /\ IsFiniteSet(Stored)
  BY FS_CardinalityType DEF QuotaInv
<1>3. IsFiniteSet(Stored') /\ Cardinality(Stored') = Cardinality(Stored)
  BY <1>1, <1>2
<1>4. Cardinality(Stored') <= Cardinality(Stored) + push[d].n
  BY <1>1, <1>2, <1>3
<1> QED BY <1>3, <1>4, QuotaAtEnd

\* Every step keeps the quota's invariant.
LEMMA QuotaStep ==
    ASSUME TypeOK, QuotaInv, [Next]_vars
    PROVE  QuotaInv'
<1> USE DEF keyVars, logVars
<1>1. CASE push' = push /\ Stored' \subseteq Stored
  BY <1>1, QuotaKept
<1>2. CASE UNCHANGED vars
  BY <1>1, <1>2 DEF vars, Stored
<1>3. ASSUME NEW d \in Device, GetKey(d) \/ PutNewKey(d) \/ ReplaceKey(d) \/ Changes(d)
      PROVE  QuotaInv'
  BY <1>1, <1>3 DEF GetKey, PutNewKey, ReplaceKey, Changes, Stored
<1>4. CASE StartErase \/ EraseStep \/ EraseFails
  <2>1. CASE CommitErase
    <3>1. push' = push /\ \A i \in Id : records'[i] # None => records[i] # None
      BY <2>1 DEF CommitErase
    <3> QED BY <1>1, <3>1 DEF Stored
  <2>2. CASE StartErase \/ EraseRecords \/ EraseCounter \/ EraseKey \/ EraseFails
    BY <1>1, <2>2 DEF StartErase, EraseRecords, EraseCounter, EraseKey, EraseFails, Stored
  <2> QED BY <1>4, <2>1, <2>2 DEF EraseStep
<1>5. ASSUME NEW d \in Device, PushFails(d)
      PROVE  QuotaInv'
  BY <1>5, QuotaAtFailure DEF PushFails, Pending
<1>6. ASSUME NEW d \in Device, NEW pc \in {"ensure", "reserve", "commit"}, To(d, pc),
             push[d].pc # "idle", UNCHANGED records
      PROVE  QuotaInv'
  <2>1. \A e \in Device : /\ push'[e].pc = "idle" <=> push[e].pc = "idle"
                          /\ push'[e].n = push[e].n /\ push'[e].at = push[e].at
    BY <1>6 DEF To, TypeOK
  <2> QED BY <1>6, <2>1, QuotaKept DEF Stored
<1>7. ASSUME NEW d \in Device, PushStep(d)
      PROVE  QuotaInv'
  <2>1. CASE CheckKey(d)
    <3>1. CASE key = NoKey
      BY <2>1, <3>1, QuotaAtFailure DEF CheckKey, Pending
    <3>2. CASE key # NoKey
      BY <2>1, <3>2, <1>6 DEF CheckKey
    <3> QED BY <3>1, <3>2
  <2>2. CASE EnsureCounter(d)
    BY <2>2, <1>6 DEF EnsureCounter
  <2>3. CASE ReserveSeqs(d)
    <3>1. \A e \in Device : /\ push'[e].pc = "idle" <=> push[e].pc = "idle"
                            /\ push'[e].n = push[e].n /\ push'[e].at = push[e].at
      BY <2>3 DEF ReserveSeqs, TypeOK
    <3> QED BY <2>3, <3>1, QuotaKept DEF ReserveSeqs, Stored
  <2>4. CASE Upsert(d)
    BY <2>4, <1>6 DEF Upsert
  <2>5. CASE CommitPush(d)
    BY <2>5, QuotaAtCommit
  <2>6. CASE CounterGone(d)
    BY <2>6, <1>5 DEF CounterGone
  <2> QED BY <1>7, <2>1, <2>2, <2>3, <2>4, <2>5, <2>6 DEF PushStep
<1>8. ASSUME NEW d \in Device, StartPush(d)
      PROVE  QuotaInv'
  BY <1>8, QuotaAtStart
<1>9. CASE BreakDeadlock
  BY <1>4, <1>5, <1>9 DEF BreakDeadlock
<1> QED BY <1>2, <1>3, <1>4, <1>5, <1>7, <1>8, <1>9 DEF Next

(* The quota is read before the transaction that stores the batch, yet it  *)
(* is exceeded by no more than a batch of every other device, however many *)
(* pushes overlap, fail, and run beside an erase.                          *)
THEOREM QuotaHolds == Spec => []QuotaOvershoot
<1>1. Init => QuotaInv
  <2> SUFFICES ASSUME Init PROVE QuotaInv
    OBVIOUS
  <2>1. Stored = {} /\ Pending = {}
    BY DEF Init, Stored, Pending, Idle
  <2>2. \A d \in Device : Fitting(d)
    BY IdleTypes, FS_EmptySet DEF Init, Fitting, Idle
  <2> QED BY <2>1, <2>2, FS_EmptySet, PendingFinite, SyncAssumption DEF QuotaInv
<1>2. TypeOK /\ QuotaInv => QuotaOvershoot
  <2> SUFFICES ASSUME TypeOK, QuotaInv PROVE QuotaOvershoot
    OBVIOUS
  <2>1. CASE Pending = {}
    BY <2>1 DEF QuotaInv, QuotaOvershoot, Limit
  <2>2. CASE Pending # {}
    <3>1. PICK d \in Pending : Roomy(d)
      BY <2>2 DEF QuotaInv
    <3>2. /\ push[d].n \in Nat /\ Cardinality(Stored) \in Nat
          /\ Cardinality(Pending) - 1 \in Nat
      <4>1. push[d].n \in Nat
        BY SyncAssumption DEF TypeOK, Pending
      <4>2. Cardinality(Stored) \in Nat
        BY FS_CardinalityType DEF QuotaInv
      <4>3. Cardinality(Pending) # 0
        BY <2>2, PendingFinite, FS_EmptySet
      <4> QED BY <4>1, <4>2, <4>3, PendingFinite
    <3> DEFINE rest == (Cardinality(Pending) - 1) * MaxBatch
    <3>3. rest \in Nat
      BY <3>2, SyncAssumption
    <3>4. Cardinality(Stored) + push[d].n + rest <= Limit
      BY <3>1 DEF Roomy
    <3> HIDE DEF rest
    <3>5. Cardinality(Stored) <= Limit
      BY <3>2, <3>3, <3>4, PendingFinite
    <3> QED BY <3>5 DEF QuotaOvershoot, Limit
  <2> QED BY <2>1, <2>2
<1> QED BY <1>1, <1>2, QuotaStep, TypeCorrect, PTL DEF Spec

(***************************************************************************)
(* Sessions.tla for any number of requests, users and sessions: what signs *)
(* a user in, and what a new password and the deletion of his row end.     *)
(*                                                                         *)
(* Few of a request's statements hold a lock until it ends, so the         *)
(* invariant says of each place what the request still knows there: who    *)
(* rotates a session has it alone, who ends all sessions of a user has     *)
(* found those that are not told apart, and who signs in was checked at a  *)
(* password that for a deleted user is not the present one.                *)
(***************************************************************************)
CONSTANTS User, Owner, Email, Mine, Session, Token, Request, Null

VARIABLES user, session, link, reset, denied, req

S == INSTANCE Sessions WITH First <- Owner

\* Addresses, the rows of users and the numbers of sessions are what the model says.
SessionsSetting ==
    /\ Session \subseteq Nat /\ Owner \in User /\ Null \notin User
    /\ Mine \in Email /\ User \cap Email = {}

\* What a request works on at each of its places
Stage(q) ==
    \/ q.pc \in {"idle", "done"}
    \/ q.kind = "google" /\ q.pc \in {"linkless", "unknown"}
    \/ /\ q.user \in User
       /\ \/ q.kind \in {"login", "google"} /\ q.pc = "write"
          \/ q.kind = "google" /\ q.pc = "linking"
          \/ q.kind = "refresh" /\ q.pc \in {"refresh", "rotating"} /\ q.row \in Session
          \/ q.kind = "logout" /\ q.pc \in {"revoke", "revoking"}
          \/ q.kind = "forgot" /\ q.pc = "forgot" /\ q.row \in Token
          \/ q.kind = "reset" /\ q.pc \in {"reset", "marking", "marked", "revoking"} /\ q.row \in Token
          \/ q.kind = "change" /\ q.pc \in {"change", "revoke", "revoking"}
          \/ q.kind = "edit" /\ q.pc = "edit" /\ q.row \in Email
          \/ q.kind = "register" /\ q.pc = "mail"
          \/ q.kind = "verify" /\ q.pc = "verify"
          \/ q.kind = "delete" /\ q.pc \in {"delete", "unlinked", "erasing", "erased", "deny"}

\* A deleted user has an address only if he was given one again.
UserFits(u) ==
    /\ user[u].here \/ user[u] = S!NoUser
    /\ user[u].anonymous /\ ~user[u].revived => user[u].email \notin Email

\* What signed in was checked at a password, which for a deleted user is not the one he
\* has now, unless he was given an address again.
Checked(u, era, raced) ==
    /\ era <= user[u].era
    /\ user[u].anonymous /\ era = user[u].era => raced \/ user[u].revived

\* A sign-in is named by its first session.
SessionFits(s) ==
    /\ session[s].user \in User => user[session[s].user].here
    /\ session[s].state = "none" => session[s] = S!NoSession
    /\ session[s].state \in {"live", "revoked"} => session[s].user \in User
    /\ session[s].state = "live" => Checked(session[s].user, session[s].era, session[s].raced)
    /\ session[s].state # "none" => session[s].root \in Session /\ session[session[s].root].state # "none"

\* Links and tokens are those of users who are there.
LinksKnown ==
    /\ link # S!NoLink => link.user \in User /\ user[link.user].here
    /\ \A t \in Token : /\ reset[t].user \in User => user[reset[t].user].here
                        /\ reset[t].state = "unused" => reset[t].user \in User

Linking(r) == req[r].pc = "linking"
Rotating(r) == req[r].pc = "rotating"
Sweeping(r) == req[r].pc \in {"revoking", "erasing", "erased"}
Unlinking(r) == req[r].pc \in {"unlinked", "erasing", "erased"}
Changing(r) == req[r].kind = "change" /\ req[r].pc \in {"revoke", "revoking"}

\* The session that q rotates is nobody else's.
Apart(q, r) == Rotating(q) => ~(Rotating(r) /\ req[r].row = req[q].row)
                              /\ ~(req[r].pc = "erased" /\ req[q].row \in req[r].found)

\* A link is made for a user found by his address, or one whose row is not there yet; a
\* deletion drops the link or has not seen it; what is rotated is live; a statement over
\* the sessions of a user has found all but those that came later.
Fits(r) ==
    /\ Stage(req[r])
    /\ req[r].user \in User /\ ~Linking(r) => user[req[r].user].here
    /\ Linking(r) /\ user[req[r].user].here => user[req[r].user].email = Mine
    /\ Unlinking(r) /\ link.user = req[r].user => "link" \in req[r].drops \/ link.raced
    /\ req[r].pc = "write" => Checked(req[r].user, req[r].era, FALSE)
    /\ Rotating(r) => session[req[r].row].state = "live"
    /\ \A q \in Request : q # r => Apart(q, r) /\ Apart(r, q)
    /\ Sweeping(r) => \A s \in Session : session[s].state = "live" /\ session[s].user = req[r].user
                                         /\ ~session[s].raced => s \in req[r].found
    /\ Sweeping(r) => \A s \in req[r].found : session[s].state # "none"

SessionsInv ==
    /\ S!TypeOK /\ LinksKnown
    /\ \A u \in User : UserFits(u)
    /\ \A s \in Session : SessionFits(s)
    /\ \A r \in Request : Fits(r)
    /\ S!OneLivePerSignIn /\ S!OldSessionsEnd /\ S!LinksFollow

(***************************************************************************)
(* What every step does.                                                   *)
(***************************************************************************)

\* A user's row stays and its password only becomes a later one; who is being linked keeps
\* his address.
UserStep(u) ==
    /\ UserFits(u)'
    /\ user[u].here => /\ user'[u].here
                       /\ user[u].era <= user'[u].era
                       /\ user'[u].anonymous => \/ user[u].era < user'[u].era
                                                \/ user[u].anonymous /\ (user[u].revived => user'[u].revived)
    /\ (\E q \in Request : Linking(q)' /\ req'[q].user = u) =>
           \/ user'[u].here = user[u].here /\ user'[u].email = user[u].email
           \/ user'[u].email = Mine

\* A session ends or stays; who rotates it keeps it.
Fades(s) ==
    /\ session'[s].user = session[s].user /\ session'[s].root = session[s].root
    /\ session'[s].era = session[s].era
    /\ session[s].raced => session'[s].raced
    /\ session[s].state = "none" => session'[s] = session[s]
    /\ session'[s].state = "none" => session[s].state = "none"
    /\ session'[s].state = "live" => session[s].state = "live"
    /\ session'[s].state = "revoked" => session[s].state \in {"live", "revoked"}
    /\ session'[s].state # session[s].state => \A q \in Request : ~(Rotating(q)' /\ req'[q].row = s)

\* Or it begins, and is told apart from those a statement under way has found.
Begins(s) ==
    /\ session[s].state = "none" /\ session'[s].state = "live"
    /\ session'[s].user \in User /\ user'[session'[s].user].here
    /\ Checked(session[s].user, session[s].era, session[s].raced)'
    /\ session'[s].raced \/ ~S!Revoking(session'[s].user)
    /\ session'[s].root \in Session /\ session'[session'[s].root].state # "none"
    /\ \A t \in Session : session'[t].state = "live" /\ session'[t].root = session'[s].root => t = s

SessionStep(s) == Fades(s) \/ Begins(s)

\* The link stays, goes, or is told apart from those a deletion under way has seen.
LinkStep == link' = link \/ link' = S!NoLink \/ link'.raced \/ S!Unlinked(link'.user) = {}

Others(r) == \A q \in Request : q # r => req'[q] = req[q]

\* The other requests keep what they rely on.
LEMMA OthersFit ==
  ASSUME SessionsSetting, SessionsInv, S!TypeOK', NEW r \in Request, Others(r), Fits(r)',
         \A u \in User : UserStep(u), \A s \in Session : SessionStep(s), LinkStep
  PROVE  \A q \in Request : Fits(q)'
<1> SUFFICES ASSUME NEW q \in Request, q # r PROVE Fits(q)'
  OBVIOUS
<1>1. req'[q] = req[q] /\ Fits(q)
  BY DEF Others, SessionsInv
<1>2. req[q] \in S!RequestState
  BY DEF SessionsInv, S!TypeOK
<1>3. Stage(req[q])' /\ Stage(req[q])
  BY <1>1 DEF Stage, Fits
<1>4. (req[q].user \in User /\ ~Linking(q) => user[req[q].user].here)'
  BY <1>1 DEF Fits, Linking, UserStep
<1>5. (Linking(q) /\ user[req[q].user].here => user[req[q].user].email = Mine)'
  <2>1. Linking(q)' => Linking(q) /\ req[q].user \in User
    BY <1>1, <1>3 DEF Linking, Stage
  <2> QED BY <1>1, <2>1 DEF Fits, UserStep
<1>6. (Unlinking(q) /\ link.user = req[q].user => "link" \in req[q].drops \/ link.raced)'
  <2> SUFFICES ASSUME Unlinking(q)', link'.user = req[q].user, ~link'.raced PROVE "link" \in req[q].drops
    BY <1>1
  <2>1. Unlinking(q) /\ req[q].user \in User
    BY <1>1, <1>3 DEF Unlinking, Stage
  <2>2. q \in S!Unlinked(link'.user)
    BY <2>1 DEF Unlinking, S!Unlinked
  <2>3. link' # S!NoLink
    BY <2>1 DEF SessionsSetting, S!NoLink
  <2>4. link' = link
    BY <2>2, <2>3 DEF LinkStep
  <2> QED BY <1>1, <2>1, <2>4 DEF Fits
<1>7. (req[q].pc = "write" => Checked(req[q].user, req[q].era, FALSE))'
  <2> SUFFICES ASSUME req[q].pc = "write" PROVE Checked(req[q].user, req[q].era, FALSE)'
    BY <1>1
  <2>1. req[q].user \in User /\ ~Linking(q)
    BY <1>3 DEF Stage, Linking
  <2> DEFINE u == req[q].user
  <2>2. Checked(u, req[q].era, FALSE) /\ user[u].here /\ UserStep(u)
    BY <1>1, <2>1 DEF Fits
  <2>3. user[u] \in S!UserRow /\ user'[u] \in S!UserRow /\ req[q].era \in Nat
    BY <1>2, <2>1 DEF SessionsInv, S!TypeOK, S!RequestState
  <2>4. user[u].era \in Nat /\ user'[u].era \in Nat
    BY <2>3 DEF S!UserRow
  <2> QED BY <1>1, <2>2, <2>3, <2>4 DEF Checked, UserStep
<1>8. (Rotating(q) => session[req[q].row].state = "live")'
  <2>1. Rotating(q)' => Rotating(q) /\ req[q].row \in Session
    BY <1>1, <1>3 DEF Rotating, Stage
  <2> QED BY <1>1, <2>1 DEF Fits, SessionStep, Fades, Begins
<1>9. \A p \in Request : p # q => (Apart(p, q) /\ Apart(q, p))'
  <2> SUFFICES ASSUME NEW p \in Request, p # q PROVE (Apart(p, q) /\ Apart(q, p))'
    OBVIOUS
  <2>1. CASE p = r
    BY <2>1 DEF Fits
  <2>2. CASE p # r
    BY <1>1, <2>2 DEF Fits, Others, Apart, Rotating
  <2> QED BY <2>1, <2>2
<1>10. (Sweeping(q) => \A s \in Session : session[s].state = "live" /\ session[s].user = req[q].user
                                         /\ ~session[s].raced => s \in req[q].found)'
  <2> SUFFICES ASSUME Sweeping(q)', NEW s \in Session, session'[s].state = "live",
                      session'[s].user = req[q].user, ~session'[s].raced
               PROVE  s \in req[q].found
    BY <1>1
  <2>1. Sweeping(q)
    BY <1>1 DEF Sweeping
  <2>2. ~Begins(s)
    BY <2>1 DEF Begins, S!Revoking, Sweeping
  <2> QED BY <1>1, <2>1, <2>2 DEF SessionStep, Fades, Fits
<1>11. (Sweeping(q) => \A s \in req[q].found : session[s].state # "none")'
  <2> SUFFICES ASSUME Sweeping(q), NEW s \in req[q].found PROVE session'[s].state # "none"
    BY <1>1 DEF Sweeping
  <2>1. s \in Session /\ session[s].state # "none"
    BY <1>1, <1>2 DEF Fits, S!RequestState
  <2> QED BY <2>1 DEF SessionStep, Fades, Begins
<1> QED BY <1>1, <1>3, <1>4, <1>5, <1>6, <1>7, <1>8, <1>9, <1>10, <1>11 DEF Fits

\* Sessions keep what is said of them, and a sign-in has one that is live.
LEMMA SessionsFit ==
  ASSUME SessionsSetting, SessionsInv, S!TypeOK',
         \A u \in User : UserStep(u), \A s \in Session : SessionStep(s)
  PROVE  (\A s \in Session : SessionFits(s))' /\ S!OneLivePerSignIn'
<1>1. ASSUME NEW s \in Session PROVE session'[s].state # "none" \/ session[s].state = "none"
  BY DEF SessionStep, Fades, Begins
<1>2. ASSUME NEW s \in Session, Begins(s) PROVE SessionFits(s)'
  BY <1>2 DEF Begins, SessionFits
<1>3. ASSUME NEW s \in Session, Fades(s) PROVE SessionFits(s)'
  <2>1. SessionFits(s) /\ session[s] \in S!SessionRow /\ session'[s] \in S!SessionRow
    BY DEF SessionsInv, S!TypeOK
  <2>2. (session[s].user \in User => user[session[s].user].here)'
    BY <1>3, <2>1 DEF Fades, SessionFits, UserStep
  <2>3. (session[s].state = "none" => session[s] = S!NoSession)'
    BY <1>3, <2>1 DEF Fades, SessionFits, S!NoSession
  <2>4. (session[s].state \in {"live", "revoked"} => session[s].user \in User)'
    BY <1>3, <2>1 DEF Fades, SessionFits
  <2>5. (session[s].state = "live" => Checked(session[s].user, session[s].era, session[s].raced))'
    <3> SUFFICES ASSUME session'[s].state = "live" PROVE Checked(session[s].user, session[s].era, session[s].raced)'
      OBVIOUS
    <3> DEFINE u == session[s].user
    <3>1. session[s].state = "live" /\ u \in User
      BY <1>3, <2>1 DEF Fades, SessionFits
    <3>2. Checked(u, session[s].era, session[s].raced) /\ user[u].here /\ UserStep(u)
      BY <2>1, <3>1 DEF SessionFits
    <3>3. user[u] \in S!UserRow /\ user'[u] \in S!UserRow
      BY <3>1 DEF SessionsInv, S!TypeOK
    <3>4. user[u].era \in Nat /\ user'[u].era \in Nat /\ session[s].era \in Nat
      BY <2>1, <3>3 DEF S!UserRow, S!SessionRow
    <3> QED BY <1>3, <3>2, <3>4 DEF Checked, UserStep, Fades
  <2>6. (session[s].state # "none" => session[s].root \in Session /\ session[session[s].root].state # "none")'
    BY <1>1, <1>3, <2>1 DEF Fades, SessionFits
  <2> QED BY <2>2, <2>3, <2>4, <2>5, <2>6 DEF SessionFits
<1>4. S!OneLivePerSignIn'
  <2> SUFFICES ASSUME NEW s \in Session, NEW t \in Session, session'[s].state = "live",
                      session'[t].state = "live", session'[s].root = session'[t].root
               PROVE  s = t
    BY DEF S!OneLivePerSignIn
  <2>1. CASE Begins(s) \/ Begins(t)
    BY <2>1 DEF Begins
  <2>2. CASE Fades(s) /\ Fades(t)
    BY <2>2 DEF Fades, SessionsInv, S!OneLivePerSignIn
  <2> QED BY <2>1, <2>2 DEF SessionStep
<1> QED BY <1>2, <1>3, <1>4 DEF SessionStep

\* So a step keeps the invariant if it does so for its own request, the link and the
\* tokens, and leaves no session behind.
LEMMA StepKeeps ==
  ASSUME SessionsSetting, SessionsInv, S!TypeOK', NEW r \in Request, Others(r), Fits(r)',
         \A u \in User : UserStep(u), \A s \in Session : SessionStep(s), LinkStep,
         LinksKnown', S!OldSessionsEnd', S!LinksFollow'
  PROVE  SessionsInv'
<1>1. \A q \in Request : Fits(q)'
  BY OthersFit
<1>2. (\A s \in Session : SessionFits(s))' /\ S!OneLivePerSignIn'
  BY SessionsFit
<1>3. (\A u \in User : UserFits(u))'
  BY DEF UserStep
<1> QED BY <1>1, <1>2, <1>3 DEF SessionsInv

(***************************************************************************)
(* Steps of one request that change nothing else.                          *)
(***************************************************************************)

\* Where a request relies on nothing
Calm == {"idle", "done", "linkless", "unknown", "refresh", "revoke", "forgot", "reset", "marking", "marked",
         "change", "edit", "mail", "verify", "delete", "deny"}

\* There a request fits if it knows its user.
LEMMA CalmFits ==
  ASSUME NEW r \in Request, req'[r].pc \in Calm, Stage(req[r])',
         req'[r].user \in User => user'[req'[r].user].here
  PROVE  Fits(r)'
BY DEF Calm, Fits, Linking, Unlinking, Rotating, Sweeping, Apart

\* A request that only goes on keeps the invariant if it fits.
LEMMA Moves ==
  ASSUME SessionsSetting, SessionsInv, NEW r \in Request, req' \in [Request -> S!RequestState], Others(r),
         UNCHANGED <<user, session, link, reset, denied>>, Fits(r)',
         Changing(r) => Changing(r)' /\ req'[r].user = req[r].user
  PROVE  SessionsInv'
<1>1. S!TypeOK'
  BY DEF SessionsInv, S!TypeOK
<1>2. ASSUME NEW u \in User PROVE UserStep(u)
  <2>1. user[u].era \in Nat
    BY DEF SessionsInv, S!TypeOK, S!UserRow
  <2> QED BY <2>1 DEF UserStep, UserFits, SessionsInv
<1>3. \A s \in Session : SessionStep(s)
  BY DEF SessionStep, Fades
<1>4. LinkStep /\ LinksKnown' /\ S!LinksFollow'
  BY DEF LinkStep, LinksKnown, SessionsInv, S!LinksFollow, S!NoLink
<1>5. S!OldSessionsEnd'
  BY DEF SessionsInv, S!OldSessionsEnd, Others, Changing
<1> QED BY <1>1, <1>2, <1>3, <1>4, <1>5, StepKeeps

\* What Goto does
LEMMA GotoDoes ==
  ASSUME SessionsInv, NEW r \in Request, NEW pc \in S!Places, S!Goto(r, pc)
  PROVE  /\ req' \in [Request -> S!RequestState] /\ Others(r)
         /\ req'[r].pc = pc /\ req'[r].kind = req[r].kind /\ req'[r].user = req[r].user
         /\ req'[r].row = req[r].row /\ req'[r].found = req[r].found /\ req'[r].drops = req[r].drops
<1> DEFINE c == [req[r] EXCEPT !.pc = pc]
<1>1. req \in [Request -> S!RequestState] /\ req[r] \in S!RequestState
  BY DEF SessionsInv, S!TypeOK
<1>2. /\ c \in S!RequestState
      /\ c.pc = pc /\ c.kind = req[r].kind /\ c.user = req[r].user
      /\ c.row = req[r].row /\ c.found = req[r].found /\ c.drops = req[r].drops
  BY <1>1 DEF S!RequestState
<1>3. req' = [req EXCEPT ![r] = c]
  BY DEF S!Goto
<1> HIDE DEF c
<1> QED BY <1>1, <1>2, <1>3 DEF Others

\* What Begin does
LEMMA BeginDoes ==
  ASSUME SessionsInv, NEW r \in Request, NEW kind \in S!Kinds, NEW pc \in S!Places,
         NEW u \in User \cup {Null}, NEW row \in Email \cup Session \cup Token \cup {Null},
         S!Begin(r, kind, pc, u, row)
  PROVE  /\ req' \in [Request -> S!RequestState] /\ Others(r)
         /\ req'[r].kind = kind /\ req'[r].pc = pc /\ req'[r].user = u /\ req'[r].row = row
         /\ req[r].pc = "idle"
<1> DEFINE c == [req[r] EXCEPT !.kind = kind, !.pc = pc, !.user = u, !.row = row]
<1>1. req \in [Request -> S!RequestState] /\ req[r] \in S!RequestState
  BY DEF SessionsInv, S!TypeOK
<1>2. c \in S!RequestState /\ c.pc = pc /\ c.kind = kind /\ c.user = u /\ c.row = row
  BY <1>1 DEF S!RequestState
<1>3. req' = [req EXCEPT ![r] = c] /\ req[r].pc = "idle"
  BY DEF S!Begin, S!Unused
<1> HIDE DEF c
<1> QED BY <1>1, <1>2, <1>3 DEF Others

\* What End does
LEMMA EndDoes ==
  ASSUME SessionsSetting, SessionsInv, NEW r \in Request, S!End(r)
  PROVE  /\ req' \in [Request -> S!RequestState] /\ Others(r)
         /\ req'[r] = S!Done /\ req'[r].pc = "done" /\ Fits(r)'
<1>1. S!Done \in S!RequestState /\ S!Done.pc = "done" /\ S!Done.user = Null
  BY DEF S!Done, S!Idle, S!RequestState, S!Places
<1>2. req \in [Request -> S!RequestState]
  BY DEF SessionsInv, S!TypeOK
<1>3. req' = [req EXCEPT ![r] = S!Done]
  BY DEF S!End
<1>4. req' \in [Request -> S!RequestState] /\ Others(r) /\ req'[r] = S!Done
  BY <1>1, <1>2, <1>3 DEF Others
<1>5. Fits(r)'
  BY <1>1, <1>4, CalmFits DEF Calm, Stage, SessionsSetting
<1> QED BY <1>1, <1>4, <1>5

\* A request begins where it relies on nothing.
LEMMA BeginKeeps ==
  ASSUME SessionsSetting, SessionsInv, NEW r \in Request, NEW kind \in S!Kinds, NEW pc \in Calm,
         NEW u \in User \cup {Null}, NEW row \in Email \cup Session \cup Token \cup {Null},
         S!Begin(r, kind, pc, u, row), UNCHANGED <<user, session, link, reset, denied>>,
         Stage([kind |-> kind, pc |-> pc, user |-> u, row |-> row]), u \in User => user[u].here
  PROVE  SessionsInv'
<1>1. pc \in S!Places
  BY DEF Calm, S!Places
<1>2. /\ req' \in [Request -> S!RequestState] /\ Others(r)
      /\ req'[r].kind = kind /\ req'[r].pc = pc /\ req'[r].user = u /\ req'[r].row = row
      /\ req[r].pc = "idle"
  BY <1>1, BeginDoes
<1>3. Stage(req[r])'
  BY <1>2 DEF Stage
<1>4. Fits(r)'
  BY <1>2, <1>3, CalmFits
<1>5. ~Changing(r)
  BY <1>2 DEF Changing
<1> QED BY <1>2, <1>4, <1>5, Moves

\* A request goes on to where it relies on nothing.
LEMMA GotoKeeps ==
  ASSUME SessionsSetting, SessionsInv, NEW r \in Request, NEW pc \in Calm, S!Goto(r, pc),
         UNCHANGED <<user, session, link, reset, denied>>, ~Linking(r), ~Changing(r), Stage(req[r])'
  PROVE  SessionsInv'
<1>1. pc \in S!Places
  BY DEF Calm, S!Places
<1>2. req' \in [Request -> S!RequestState] /\ Others(r) /\ req'[r].pc = pc /\ req'[r].user = req[r].user
  BY <1>1, GotoDoes
<1>3. Fits(r)'
  BY <1>2, CalmFits DEF SessionsInv, Fits
<1> QED BY <1>2, <1>3, Moves

\* A request ends.
LEMMA EndKeeps ==
  ASSUME SessionsSetting, SessionsInv, NEW r \in Request, S!End(r),
         UNCHANGED <<user, session, link, reset, denied>>, ~Changing(r)
  PROVE  SessionsInv'
BY EndDoes, Moves

\* Who has a session, an address or a token is there.
LEMMA Here ==
  ASSUME SessionsInv
  PROVE  /\ \A u \in User : S!Authenticated(u) \/ user[u].mailed => user[u].here
         /\ \A e : \A u \in S!WithEmail(e) : u \in User /\ user[u].here /\ user[u].email = e
<1>1. ASSUME NEW u \in User, S!Authenticated(u) PROVE user[u].here
  BY <1>1 DEF S!Authenticated, SessionsInv, SessionFits
<1>2. ASSUME NEW u \in User, user[u].mailed PROVE user[u].here
  BY <1>2 DEF SessionsInv, UserFits, S!NoUser
<1> QED BY <1>1, <1>2 DEF S!WithEmail

\* The steps that begin a request where it relies on nothing.
LEMMA BeginsKeep ==
  ASSUME SessionsSetting, SessionsInv, NEW r \in Request,
         \/ \E s \in Session : S!Refresh(r, s)
         \/ \E t \in Token : S!GetPasswordResetTokenUser(r, t) \/ \E e \in Email : S!ForgotPassword(r, t, e)
         \/ \E e \in Email : S!ResendVerification(r, e)
         \/ \E u \in User : \/ S!GetEmailVerificationTokenUser(r, u) \/ S!RevokeAllSessions(r, u)
                            \/ S!ChangePassword(r, u) \/ S!DeleteAccount(r, u)
                            \/ \E e \in Email : S!UpdateMe(r, u, e)
  PROVE  SessionsInv'
<1> USE DEF Calm, S!Kinds, Stage
<1>1. ASSUME NEW s \in Session, S!Refresh(r, s) PROVE SessionsInv'
  <2>1. session[s].user \in User /\ user[session[s].user].here
    BY <1>1 DEF S!Refresh, SessionsInv, SessionFits
  <2>2. S!Begin(r, "refresh", "refresh", session[s].user, s) /\ UNCHANGED <<user, session, link, reset, denied>>
    BY <1>1 DEF S!Refresh
  <2> QED BY <2>1, <2>2, BeginKeeps
<1>2. ASSUME NEW t \in Token, S!GetPasswordResetTokenUser(r, t) PROVE SessionsInv'
  <2>1. reset[t].user \in User /\ user[reset[t].user].here
    BY <1>2 DEF S!GetPasswordResetTokenUser, SessionsInv, LinksKnown
  <2>2. S!Begin(r, "reset", "reset", reset[t].user, t) /\ UNCHANGED <<user, session, link, reset, denied>>
    BY <1>2 DEF S!GetPasswordResetTokenUser
  <2> QED BY <2>1, <2>2, BeginKeeps
<1>3. ASSUME NEW t \in Token, NEW e \in Email, S!ForgotPassword(r, t, e) PROVE SessionsInv'
  <2>1. PICK u \in S!WithEmail(e) : S!Begin(r, "forgot", "forgot", u, t)
    BY <1>3 DEF S!ForgotPassword
  <2>2. UNCHANGED <<user, session, link, reset, denied>>
    BY <1>3 DEF S!ForgotPassword
  <2> QED BY <2>1, <2>2, Here, BeginKeeps
<1>4. ASSUME NEW e \in Email, S!ResendVerification(r, e) PROVE SessionsInv'
  <2>1. PICK u \in S!WithEmail(e) : S!Begin(r, "register", "mail", u, Null)
    BY <1>4 DEF S!ResendVerification
  <2>2. UNCHANGED <<user, session, link, reset, denied>>
    BY <1>4 DEF S!ResendVerification
  <2> QED BY <2>1, <2>2, Here, BeginKeeps
<1>5. ASSUME NEW u \in User, S!GetEmailVerificationTokenUser(r, u) PROVE SessionsInv'
  BY <1>5, Here, BeginKeeps DEF S!GetEmailVerificationTokenUser
<1>6. ASSUME NEW u \in User, S!RevokeAllSessions(r, u) PROVE SessionsInv'
  BY <1>6, Here, BeginKeeps DEF S!RevokeAllSessions
<1>7. ASSUME NEW u \in User, S!ChangePassword(r, u) PROVE SessionsInv'
  BY <1>7, Here, BeginKeeps DEF S!ChangePassword
<1>8. ASSUME NEW u \in User, S!DeleteAccount(r, u) PROVE SessionsInv'
  BY <1>8, Here, BeginKeeps DEF S!DeleteAccount
<1>9. ASSUME NEW u \in User, NEW e \in Email, S!UpdateMe(r, u, e) PROVE SessionsInv'
  BY <1>9, Here, BeginKeeps DEF S!UpdateMe
<1> QED BY <1>1, <1>2, <1>3, <1>4, <1>5, <1>6, <1>7, <1>8, <1>9

\* A request is about to write the session of a user it has checked.
SignsIn(r, kind, u) ==
    req' = [req EXCEPT ![r] = [S!Idle EXCEPT !.kind = kind, !.pc = "write", !.user = u, !.era = user[u].era]]

\* What that does
LEMMA SignInDoes ==
  ASSUME SessionsInv, NEW r \in Request, NEW kind \in {"login", "google"}, NEW u \in User, SignsIn(r, kind, u)
  PROVE  /\ req' \in [Request -> S!RequestState] /\ Others(r)
         /\ req'[r].kind = kind /\ req'[r].pc = "write" /\ req'[r].user = u /\ req'[r].era = user[u].era
<1> DEFINE c == [S!Idle EXCEPT !.kind = kind, !.pc = "write", !.user = u, !.era = user[u].era]
<1>1. req \in [Request -> S!RequestState] /\ user[u].era \in Nat
  BY DEF SessionsInv, S!TypeOK, S!UserRow
<1>2. c \in S!RequestState /\ c.pc = "write" /\ c.kind = kind /\ c.user = u /\ c.era = user[u].era
  BY <1>1 DEF S!Idle, S!RequestState, S!Kinds, S!Places
<1>3. req' = [req EXCEPT ![r] = c]
  BY DEF SignsIn
<1> HIDE DEF c
<1> QED BY <1>1, <1>2, <1>3 DEF Others

\* It fits if the user was checked and not deleted since.
LEMMA WriteFits ==
  ASSUME NEW r \in Request, req'[r].pc = "write", req'[r].kind \in {"login", "google"}, req'[r].user \in User,
         user'[req'[r].user].here, Checked(req[r].user, req[r].era, FALSE)'
  PROVE  Fits(r)'
<1>1. Stage(req[r])'
  BY DEF Stage
<1> QED BY <1>1 DEF Fits, Linking, Unlinking, Rotating, Sweeping, Apart

\* What is checked now is checked.
LEMMA CheckedNow ==
  ASSUME SessionsInv, NEW u \in User, user[u].anonymous => user[u].revived
  PROVE  Checked(u, user[u].era, FALSE)
<1>1. user[u].era \in Nat
  BY DEF SessionsInv, S!TypeOK, S!UserRow
<1> QED BY <1>1 DEF Checked

\* Whoever has an address is not deleted, or was given one again.
LEMMA AddressIsGiven ==
  ASSUME SessionsInv, NEW e \in Email, NEW u \in User, user[u].email = e
  PROVE  user[u].anonymous => user[u].revived
BY DEF SessionsInv, UserFits

\* What FOR UPDATE does
LEMMA LinkingDoes ==
  ASSUME SessionsSetting, SessionsInv, NEW r \in Request, NEW u \in User, req[r].kind = "google",
         user[u].here => user[u].email = Mine, ~Changing(r),
         req' = [req EXCEPT ![r].pc = "linking", ![r].user = u],
         UNCHANGED <<user, session, link, reset, denied>>
  PROVE  SessionsInv'
<1> DEFINE c == [req[r] EXCEPT !.pc = "linking", !.user = u]
<1>1. req \in [Request -> S!RequestState] /\ req[r] \in S!RequestState
  BY DEF SessionsInv, S!TypeOK
<1>2. c \in S!RequestState /\ c.pc = "linking" /\ c.kind = "google" /\ c.user = u
  BY <1>1 DEF S!RequestState, S!Places
<1>3. req' = [req EXCEPT ![r] = c]
  OBVIOUS
<1> HIDE DEF c
<1>4. /\ req' \in [Request -> S!RequestState] /\ Others(r)
      /\ req'[r].kind = "google" /\ req'[r].pc = "linking" /\ req'[r].user = u
  BY <1>1, <1>2, <1>3 DEF Others
<1>5. Stage(req[r])'
  BY <1>4 DEF Stage
<1>6. Fits(r)'
  BY <1>4, <1>5 DEF Fits, Linking, Unlinking, Rotating, Sweeping, Apart
<1> QED BY <1>4, <1>6, Moves

\* A statement finds the sessions of a user.
Finds(r, pc, found) == req' = [req EXCEPT ![r].pc = pc, ![r].found = found]

\* What that does to the request
LEMMA FindDoes ==
  ASSUME SessionsInv, NEW r \in Request, NEW pc \in S!Places, NEW found \in SUBSET Session,
         Finds(r, pc, found)
  PROVE  /\ req' \in [Request -> S!RequestState] /\ Others(r)
         /\ req'[r].pc = pc /\ req'[r].kind = req[r].kind /\ req'[r].user = req[r].user
         /\ req'[r].row = req[r].row /\ req'[r].found = found /\ req'[r].drops = req[r].drops
<1> DEFINE c == [req[r] EXCEPT !.pc = pc, !.found = found]
<1>1. req \in [Request -> S!RequestState] /\ req[r] \in S!RequestState
  BY DEF SessionsInv, S!TypeOK
<1>2. /\ c \in S!RequestState
      /\ c.pc = pc /\ c.kind = req[r].kind /\ c.user = req[r].user
      /\ c.row = req[r].row /\ c.found = found /\ c.drops = req[r].drops
  BY <1>1 DEF S!RequestState
<1>3. req' = [req EXCEPT ![r] = c]
  BY DEF Finds
<1> HIDE DEF c
<1> QED BY <1>1, <1>2, <1>3 DEF Others

\* Sign-ins that are checked
LEMMA ChecksKeep ==
  ASSUME SessionsSetting, SessionsInv, NEW r \in Request,
         (\E e \in Email : S!GetUserByEmailForLogin(r, e)) \/ S!GetOAuthIdentityForUpdate(r)
  PROVE  SessionsInv'
<1>1. UNCHANGED <<user, session, link, reset, denied>>
  BY DEF S!GetUserByEmailForLogin, S!GetOAuthIdentityForUpdate
<1>2. req[r].pc = "idle" /\ ~Changing(r)
  BY DEF S!GetUserByEmailForLogin, S!GetOAuthIdentityForUpdate, S!Unused, Changing
<1>3. ASSUME NEW u \in User, user[u].here, user[u].anonymous => user[u].revived, NEW kind \in {"login", "google"},
             SignsIn(r, kind, u)
      PROVE  SessionsInv'
  <2>1. /\ req' \in [Request -> S!RequestState] /\ Others(r)
        /\ req'[r].kind = kind /\ req'[r].pc = "write" /\ req'[r].user = u /\ req'[r].era = user[u].era
    BY <1>3, SignInDoes
  <2>2. Checked(req[r].user, req[r].era, FALSE)'
    BY <1>1, <1>3, <2>1, CheckedNow DEF Checked
  <2>3. Fits(r)'
    BY <1>1, <1>3, <2>1, <2>2, WriteFits
  <2> QED BY <1>1, <1>2, <2>1, <2>3, Moves
<1>4. ASSUME NEW e \in Email, S!GetUserByEmailForLogin(r, e) PROVE SessionsInv'
  <2>1. PICK u \in S!WithEmail(e) : SignsIn(r, "login", u)
    BY <1>4 DEF S!GetUserByEmailForLogin, SignsIn
  <2>2. u \in User /\ user[u].here /\ (user[u].anonymous => user[u].revived)
    BY Here, AddressIsGiven
  <2> QED BY <1>3, <2>1, <2>2
<1>5. ASSUME S!GetOAuthIdentityForUpdate(r) PROVE SessionsInv'
  <2>1. CASE link # S!NoLink /\ ~user[link.user].anonymous
    <3>1. S!SignedIn(r, link.user)
      BY <1>5, <2>1 DEF S!GetOAuthIdentityForUpdate
    <3>2. link.user \in User /\ user[link.user].here
      BY <2>1 DEF SessionsInv, LinksKnown
    <3> DEFINE u == link.user
    <3>3. SignsIn(r, "google", u)
      BY <3>1 DEF S!SignedIn, SignsIn
    <3>4. u \in User /\ user[u].here /\ ~user[u].anonymous
      BY <2>1, <3>2
    <3> HIDE DEF u
    <3> QED BY <1>3, <3>3, <3>4
  <2>2. CASE ~(link # S!NoLink /\ ~user[link.user].anonymous)
    <3>1. S!Begin(r, "google", "linkless", Null, Null)
      BY <1>5, <2>2 DEF S!GetOAuthIdentityForUpdate
    <3> QED BY <1>1, <3>1, BeginKeeps DEF Calm, S!Kinds, Stage, SessionsSetting
  <2> QED BY <2>1, <2>2
<1> QED BY <1>4, <1>5

\* A Google account on its way to a user
LEMMA FindsUserKeeps ==
  ASSUME SessionsSetting, SessionsInv, NEW r \in Request,
         S!GetUserByEmailForUpdate(r) \/ S!CreateOAuthUser(r)
  PROVE  SessionsInv'
<1>1. UNCHANGED <<user, session, link, reset, denied>>
  BY DEF S!GetUserByEmailForUpdate, S!CreateOAuthUser
<1>2. req[r].kind = "google" /\ req[r].pc \in {"linkless", "unknown"} /\ ~Changing(r) /\ ~Linking(r)
  BY DEF S!GetUserByEmailForUpdate, S!CreateOAuthUser, S!At, Changing, Linking
<1>3. ASSUME S!Goto(r, "unknown") PROVE SessionsInv'
  <2>1. req'[r].pc = "unknown" /\ req'[r].kind = "google"
    BY <1>2, <1>3, GotoDoes DEF S!Places
  <2>2. Stage(req[r])'
    BY <2>1 DEF Stage
  <2> QED BY <1>1, <1>2, <1>3, <2>2, GotoKeeps DEF Calm
<1>4. ASSUME S!End(r) PROVE SessionsInv'
  BY <1>1, <1>2, <1>4, EndKeeps
<1>5. ASSUME NEW u \in User, user[u].here => user[u].email = Mine,
             req' = [req EXCEPT ![r].pc = "linking", ![r].user = u]
      PROVE  SessionsInv'
  BY <1>1, <1>2, <1>5, LinkingDoes
<1>6. CASE S!GetUserByEmailForUpdate(r)
  BY <1>3, <1>5, <1>6, Here DEF S!GetUserByEmailForUpdate
<1>7. CASE S!CreateOAuthUser(r)
  BY <1>4, <1>5, <1>7 DEF S!CreateOAuthUser
<1> QED BY <1>6, <1>7

\* A refresh that finds its session live has it alone.
LEMMA FindRotatedKeeps ==
  ASSUME SessionsSetting, SessionsInv, NEW r \in Request, S!FindRotated(r)
  PROVE  SessionsInv'
<1>1. UNCHANGED <<user, session, link, reset, denied>> /\ req[r].kind = "refresh" /\ req[r].pc = "refresh"
      /\ ~Changing(r)
  BY DEF S!FindRotated, S!At, Changing
<1>2. req[r].user \in User /\ req[r].row \in Session /\ user[req[r].user].here
  BY <1>1 DEF SessionsInv, Fits, Stage, Linking
<1>3. CASE S!End(r)
  BY <1>1, <1>3, EndKeeps
<1>4. CASE S!StillLive(req[r].row) /\ S!Goto(r, "rotating")
  <2>1. /\ req' \in [Request -> S!RequestState] /\ Others(r)
        /\ req'[r].pc = "rotating" /\ req'[r].kind = "refresh" /\ req'[r].user = req[r].user /\ req'[r].row = req[r].row
    BY <1>1, <1>4, GotoDoes DEF S!Places
  <2>2. Stage(req[r])'
    BY <1>2, <2>1 DEF Stage
  <2>3. ASSUME NEW q \in Request, q # r PROVE (Apart(q, r) /\ Apart(r, q))'
    <3>1. q \notin S!HoldsSession(req[r].row) /\ req'[q] = req[q] /\ Stage(req[q])
      BY <2>1, <2>3 DEF S!FindRotated, Others, SessionsInv, Fits
    <3>2. ~(req[q].pc = "rotating" /\ req[q].row = req[r].row)
      BY <3>1 DEF S!HoldsSession
    <3>3. ~(req[q].pc = "erased" /\ req[r].row \in req[q].found)
      BY <3>1 DEF S!HoldsSession, S!At, Stage
    <3> QED BY <2>1, <3>1, <3>2, <3>3 DEF Apart, Rotating
  <2>4. Fits(r)'
    BY <1>1, <1>2, <1>4, <2>1, <2>2, <2>3
    DEF Fits, Linking, Unlinking, Rotating, Sweeping, S!StillLive
  <2> QED BY <1>1, <2>1, <2>4, Moves
<1> QED BY <1>3, <1>4 DEF S!FindRotated

\* A statement over the sessions of a user finds all that are live.
LEMMA FindsKeep ==
  ASSUME SessionsSetting, SessionsInv, NEW r \in Request,
         S!FindSessions(r) \/ S!ResetRevokes(r) \/ S!FindUserSessions(r)
  PROVE  SessionsInv'
<1>1. UNCHANGED <<user, session, link, reset, denied>> /\ Stage(req[r])
  BY DEF S!FindSessions, S!ResetRevokes, S!FindUserSessions, SessionsInv, Fits
<1>2. req[r].user \in User /\ ~Linking(r)
  BY <1>1 DEF S!FindSessions, S!ResetRevokes, S!FindUserSessions, S!At, Stage, Linking
<1>3. user[req[r].user].here
  BY <1>2 DEF SessionsInv, Fits
<1>4. CASE S!FindSessions(r) \/ S!ResetRevokes(r)
  <2> DEFINE found == S!Alive(req[r].user)
  <2>1. /\ found \in SUBSET Session
        /\ \A s \in Session : session[s].state = "live" /\ session[s].user = req[r].user => s \in found
        /\ \A s \in found : session[s].state # "none"
    BY DEF S!Alive
  <2>2. Finds(r, "revoking", found)
    BY <1>4 DEF Finds, S!FindSessions, S!ResetRevokes
  <2> HIDE DEF found
  <2>3. /\ req' \in [Request -> S!RequestState] /\ Others(r)
        /\ req'[r].pc = "revoking" /\ req'[r].kind = req[r].kind /\ req'[r].user = req[r].user
        /\ req'[r].row = req[r].row /\ req'[r].found = found
    <3>1. "revoking" \in S!Places
      BY DEF S!Places
    <3> QED BY <2>1, <2>2, <3>1, FindDoes
  <2>4. Stage(req[r])'
    BY <1>1, <1>4, <2>3 DEF Stage, S!FindSessions, S!ResetRevokes, S!At
  <2>5. Fits(r)'
    BY <1>1, <1>3, <2>1, <2>3, <2>4 DEF Fits, Linking, Unlinking, Rotating, Apart
  <2>6. Changing(r) => Changing(r)'
    BY <2>3 DEF Changing
  <2> QED BY <1>1, <2>3, <2>5, <2>6, Moves
<1>5. CASE S!FindUserSessions(r)
  <2> DEFINE found == {s \in Session : session[s].user = req[r].user /\ session[s].state # "deleted"}
  <2>1. /\ found \in SUBSET Session
        /\ \A s \in Session : session[s].state = "live" /\ session[s].user = req[r].user => s \in found
        /\ \A s \in found : session[s].state # "none"
    BY <1>2 DEF SessionsInv, SessionFits, S!NoSession, SessionsSetting
  <2>2. Finds(r, "erasing", found)
    BY <1>5 DEF Finds, S!FindUserSessions
  <2> HIDE DEF found
  <2>3. req[r].kind = "delete" /\ req[r].pc = "unlinked"
    BY <1>5 DEF S!FindUserSessions, S!At
  <2>4. /\ req' \in [Request -> S!RequestState] /\ Others(r)
        /\ req'[r].pc = "erasing" /\ req'[r].kind = "delete" /\ req'[r].user = req[r].user
        /\ req'[r].found = found /\ req'[r].drops = req[r].drops
    <3>1. "erasing" \in S!Places
      BY DEF S!Places
    <3> QED BY <2>1, <2>2, <2>3, <3>1, FindDoes
  <2>5. Stage(req[r])'
    BY <1>2, <2>4 DEF Stage
  <2>6. link.user = req[r].user => "link" \in req[r].drops \/ link.raced
    BY <2>3 DEF SessionsInv, Fits, Unlinking
  <2>7. Fits(r)'
    BY <1>1, <1>3, <2>1, <2>4, <2>5, <2>6 DEF Fits, Linking, Rotating, Apart
  <2>8. ~Changing(r)
    BY <2>3 DEF Changing
  <2> QED BY <1>1, <2>4, <2>7, <2>8, Moves
<1> QED BY <1>4, <1>5

\* A reset marks its user and its token; where it waits is left out.
LEMMA MarksKeep ==
  ASSUME SessionsSetting, SessionsInv, NEW r \in Request, S!UpdateUserPassword(r) \/ S!MarkPasswordResetUsed(r)
  PROVE  SessionsInv'
<1>1. /\ UNCHANGED <<user, session, link, reset, denied>> /\ Stage(req[r])
      /\ req[r].kind = "reset" /\ req[r].pc \in {"reset", "marking"}
  BY DEF S!UpdateUserPassword, S!MarkPasswordResetUsed, S!At, SessionsInv, Fits
<1>2. ~Linking(r) /\ ~Changing(r) /\ req[r].user \in User /\ req[r].row \in Token
  BY <1>1 DEF Linking, Changing, Stage
<1>3. PICK pc \in {"marking", "marked"} : S!Goto(r, pc)
  BY DEF S!UpdateUserPassword, S!MarkPasswordResetUsed
<1>4. /\ req'[r].pc = pc /\ req'[r].kind = req[r].kind /\ req'[r].user = req[r].user /\ req'[r].row = req[r].row
  BY <1>3, GotoDoes DEF S!Places
<1>5. Stage(req[r])'
  BY <1>1, <1>2, <1>4 DEF Stage
<1> QED BY <1>1, <1>2, <1>3, <1>5, GotoKeeps DEF Calm

\* A deletion finds the link if there is one.
LEMMA DropsKeep ==
  ASSUME SessionsSetting, SessionsInv, NEW r \in Request, S!DeleteUserOAuthIdentities(r)
  PROVE  SessionsInv'
<1>1. /\ UNCHANGED <<user, session, link, reset, denied>> /\ Stage(req[r])
      /\ req[r].kind = "delete" /\ req[r].pc = "delete"
  BY DEF S!DeleteUserOAuthIdentities, S!At, SessionsInv, Fits
<1>2. ~Linking(r) /\ ~Changing(r) /\ req[r].user \in User
  BY <1>1 DEF Linking, Changing, Stage
<1> DEFINE drops == S!Dropped(req[r].user)
           c == [req[r] EXCEPT !.pc = "unlinked", !.drops = drops]
<1>3. drops \in SUBSET (Token \cup {"link"}) /\ (link.user = req[r].user => "link" \in drops)
  BY DEF S!Dropped
<1>4. req' = [req EXCEPT ![r].pc = "unlinked", ![r].drops = drops]
  BY DEF S!DeleteUserOAuthIdentities
<1> HIDE DEF drops
<1>5. req \in [Request -> S!RequestState] /\ req[r] \in S!RequestState
  BY DEF SessionsInv, S!TypeOK
<1>6. c \in S!RequestState /\ c.pc = "unlinked" /\ c.kind = "delete" /\ c.user = req[r].user /\ c.drops = drops
  BY <1>1, <1>3, <1>5 DEF S!RequestState, S!Places
<1>7. req' = [req EXCEPT ![r] = c]
  BY <1>4
<1> HIDE DEF c
<1>8. req' \in [Request -> S!RequestState] /\ Others(r) /\ req'[r] = c
  BY <1>5, <1>6, <1>7 DEF Others
<1>9. Stage(req[r])'
  BY <1>2, <1>6, <1>8 DEF Stage
<1>10. Fits(r)'
  BY <1>1, <1>2, <1>3, <1>6, <1>8, <1>9 DEF Fits, Linking, Rotating, Sweeping, Apart, SessionsInv
<1> QED BY <1>1, <1>2, <1>8, <1>10, Moves

\* Who waits for nobody has none of its sessions in rotation.
LEMMA NoneRotates ==
  ASSUME NEW r \in Request, req[r].pc \in {"revoking", "erasing"}, S!WaitsFor(r) = {},
         NEW q \in Request, q # r, req[q].pc = "rotating"
  PROVE  req[q].row \notin req[r].found
<1>1. S!WaitsFor(r) = UNION {S!HoldsSession(s) : s \in req[r].found}
  BY DEF S!WaitsFor, S!At
<1>2. \A s : req[q].row = s => q \in S!HoldsSession(s)
  BY DEF S!HoldsSession
<1> QED BY <1>1, <1>2

\* So a deletion gets the sessions that nobody rotates.
LEMMA ErasesKeep ==
  ASSUME SessionsSetting, SessionsInv, NEW r \in Request, S!DeleteUserSessions(r)
  PROVE  SessionsInv'
<1>1. UNCHANGED <<user, session, link, reset, denied>> /\ Fits(r) /\ req[r].pc = "erasing"
  BY DEF S!DeleteUserSessions, SessionsInv
<1>2. ~Linking(r) /\ ~Changing(r) /\ req[r].user \in User /\ req[r].kind = "delete"
  BY <1>1 DEF Linking, Changing, Stage, Fits
<1>3. /\ req' \in [Request -> S!RequestState] /\ Others(r)
      /\ req'[r].pc = "erased" /\ req'[r].kind = "delete" /\ req'[r].user = req[r].user
      /\ req'[r].found = req[r].found /\ req'[r].drops = req[r].drops
  BY <1>2, GotoDoes DEF S!DeleteUserSessions, S!Places
<1>4. Stage(req[r])'
  BY <1>2, <1>3 DEF Stage
<1>5. ASSUME NEW q \in Request, q # r PROVE (Apart(q, r) /\ Apart(r, q))'
  <2>1. req'[q] = req[q]
    BY <1>3, <1>5 DEF Others
  <2>2. req[q].pc = "rotating" => req[q].row \notin req[r].found
    BY <1>1, <1>5, NoneRotates DEF S!DeleteUserSessions
  <2> QED BY <1>3, <2>1, <2>2 DEF Apart, Rotating
<1>6. Fits(r)'
  BY <1>1, <1>2, <1>3, <1>4, <1>5 DEF Fits, Linking, Unlinking, Rotating, Sweeping
<1> QED BY <1>1, <1>2, <1>3, <1>6, Moves

(***************************************************************************)
(* Steps that end sessions.                                                *)
(***************************************************************************)

\* Users, links and tokens stay.
LEMMA SameUsers ==
  ASSUME SessionsInv, UNCHANGED <<user, link, reset>>
  PROVE  (\A u \in User : UserStep(u)) /\ LinkStep /\ LinksKnown' /\ S!LinksFollow'
<1>1. ASSUME NEW u \in User PROVE UserStep(u)
  <2>1. user[u].era \in Nat
    BY DEF SessionsInv, S!TypeOK, S!UserRow
  <2> QED BY <2>1 DEF UserStep, UserFits, SessionsInv
<1>2. LinkStep /\ LinksKnown' /\ S!LinksFollow'
  BY DEF LinkStep, LinksKnown, SessionsInv, S!LinksFollow, S!NoLink
<1> QED BY <1>1, <1>2

\* A session is revoked.
Revokes(s) == /\ session[s].state = "live" /\ session'[s] \in S!SessionRow /\ session'[s].state = "revoked"
              /\ session'[s].user = session[s].user /\ session'[s].root = session[s].root
              /\ session'[s].era = session[s].era /\ session'[s].raced = session[s].raced

\* What Revoked does
LEMMA RevokedDoes ==
  ASSUME SessionsInv, NEW found \in SUBSET Session, session' = S!Revoked(found)
  PROVE  /\ session' \in [Session -> S!SessionRow]
         /\ \A s \in Session : IF s \in found /\ session[s].state = "live" THEN Revokes(s)
                               ELSE session'[s] = session[s]
<1>1. session \in [Session -> S!SessionRow]
  BY DEF SessionsInv, S!TypeOK
<1>2. ASSUME NEW s \in Session, s \in found, session[s].state = "live" PROVE Revokes(s)
  <2>1. session'[s] = [session[s] EXCEPT !.state = "revoked"] /\ session[s] \in S!SessionRow
    BY <1>1, <1>2 DEF S!Revoked
  <2> QED BY <1>2, <2>1 DEF Revokes, S!SessionRow
<1>3. ASSUME NEW s \in Session, ~(s \in found /\ session[s].state = "live") PROVE session'[s] = session[s]
  BY <1>3 DEF S!Revoked
<1>4. ASSUME NEW s \in Session PROVE session'[s] \in S!SessionRow
  BY <1>1, <1>2, <1>3 DEF Revokes
<1>5. DOMAIN session' = Session /\ session' = [s \in Session |-> session'[s]]
  BY DEF S!Revoked
<1> QED BY <1>2, <1>3, <1>4, <1>5

\* One session is revoked that nobody rotates.
LEMMA RevokeKeeps ==
  ASSUME SessionsSetting, SessionsInv, NEW r \in Request, NEW s \in Session, S!RevokeSession(r, s)
  PROVE  SessionsInv'
<1>1. /\ req' \in [Request -> S!RequestState] /\ Others(r) /\ req'[r].pc = "done" /\ Fits(r)'
      /\ UNCHANGED <<user, link, reset, denied>> /\ ~Changing(r)
  BY EndDoes DEF S!RevokeSession, S!Unused, Changing
<1>2. session[s] \in S!SessionRow /\ session[s].state = "live" /\ session \in [Session -> S!SessionRow]
      /\ session' = [session EXCEPT ![s].state = "revoked"]
  BY DEF SessionsInv, S!TypeOK, S!RevokeSession
<1>3. Revokes(s) /\ \A t \in Session : t # s => session'[t] = session[t]
  BY <1>2 DEF Revokes, S!SessionRow
<1>4. session' \in [Session -> S!SessionRow]
  BY <1>2, <1>3 DEF Revokes
<1>5. S!TypeOK'
  BY <1>1, <1>4 DEF SessionsInv, S!TypeOK
<1>6. \A q \in Request : ~(Rotating(q)' /\ req'[q].row = s)
  <2> SUFFICES ASSUME NEW q \in Request, Rotating(q)', req'[q].row = s PROVE FALSE
    OBVIOUS
  <2>1. q # r /\ req[q].pc = "rotating" /\ req[q].row = s
    BY <1>1 DEF Rotating, Others
  <2> QED BY <2>1 DEF S!RevokeSession, S!HoldsSession
<1>7. ASSUME NEW t \in Session PROVE SessionStep(t)
  BY <1>3, <1>6 DEF SessionStep, Fades, Revokes
<1>8. S!OldSessionsEnd'
  <2> SUFFICES ASSUME NEW t \in Session, session'[t].state = "live", ~session'[t].raced,
                      session'[t].era # user'[session'[t].user].era
               PROVE  \E q \in Request : req'[q].user = session'[t].user /\ Changing(q)'
    BY DEF S!OldSessionsEnd, Changing
  <2>1. session'[t] = session[t]
    BY <1>3 DEF Revokes
  <2>2. PICK q \in Request : req[q].user = session[t].user /\ Changing(q)
    BY <1>1, <2>1 DEF SessionsInv, S!OldSessionsEnd, Changing
  <2>3. q # r /\ req'[q] = req[q]
    BY <1>1, <2>2 DEF Others
  <2> QED BY <2>1, <2>2, <2>3 DEF Changing
<1> QED BY <1>1, <1>5, <1>7, <1>8, SameUsers, StepKeeps

\* All sessions of a user that were found are revoked, by whom nobody rotates one of them.
LEMMA RevokesFade ==
  ASSUME SessionsInv, NEW r \in Request, Others(r), req'[r].pc = "done", req[r].pc = "revoking",
         S!WaitsFor(r) = {}, session' = S!Revoked(req[r].found)
  PROVE  /\ session' \in [Session -> S!SessionRow]
         /\ \A s \in Session : SessionStep(s)
         /\ \A s \in Session : session'[s].state = "live" => session'[s] = session[s]
         /\ \A s \in Session : session'[s].state = "live" /\ session[s].user = req[r].user => session[s].raced
<1>1. req[r].found \in SUBSET Session /\ Fits(r)
  BY DEF SessionsInv, S!TypeOK, S!RequestState
<1>2. /\ session' \in [Session -> S!SessionRow]
      /\ \A s \in Session : IF s \in req[r].found /\ session[s].state = "live" THEN Revokes(s)
                            ELSE session'[s] = session[s]
  BY <1>1, RevokedDoes
<1>3. ASSUME NEW s \in Session PROVE SessionStep(s)
  <2>1. CASE s \in req[r].found /\ session[s].state = "live"
    <3>1. ASSUME NEW q \in Request, Rotating(q)', req'[q].row = s PROVE FALSE
      <4>1. q # r /\ req[q].pc = "rotating" /\ req[q].row = s
        BY <3>1 DEF Rotating, Others
      <4> QED BY <2>1, <4>1, NoneRotates
    <3>2. Revokes(s)
      BY <1>2, <2>1
    <3> QED BY <3>1, <3>2 DEF Revokes, SessionStep, Fades
  <2>2. CASE ~(s \in req[r].found /\ session[s].state = "live")
    BY <1>2, <2>2 DEF SessionStep, Fades
  <2> QED BY <2>1, <2>2
<1>4. ASSUME NEW s \in Session, session'[s].state = "live" PROVE session'[s] = session[s] /\ s \notin req[r].found
  BY <1>2, <1>4 DEF Revokes
<1>5. ASSUME NEW s \in Session, session'[s].state = "live", session[s].user = req[r].user PROVE session[s].raced
  BY <1>1, <1>4, <1>5 DEF Fits, Sweeping
<1> QED BY <1>2, <1>3, <1>4, <1>5

\* Logging out everywhere, and the end of a change of the password
LEMMA RevokeAllKeeps ==
  ASSUME SessionsSetting, SessionsInv, NEW r \in Request, S!RevokeAllUserSessions(r)
  PROVE  SessionsInv'
<1>1. /\ req' \in [Request -> S!RequestState] /\ Others(r) /\ req'[r].pc = "done" /\ Fits(r)'
      /\ UNCHANGED <<user, link, reset, denied>>
  BY EndDoes DEF S!RevokeAllUserSessions
<1>2. /\ session' \in [Session -> S!SessionRow]
      /\ \A s \in Session : SessionStep(s)
      /\ \A s \in Session : session'[s].state = "live" => session'[s] = session[s]
      /\ \A s \in Session : session'[s].state = "live" /\ session[s].user = req[r].user => session[s].raced
  BY <1>1, RevokesFade DEF S!RevokeAllUserSessions
<1>3. S!TypeOK'
  BY <1>1, <1>2 DEF SessionsInv, S!TypeOK
<1>4. S!OldSessionsEnd'
  <2> SUFFICES ASSUME NEW t \in Session, session'[t].state = "live", ~session'[t].raced,
                      session'[t].era # user'[session'[t].user].era
               PROVE  \E q \in Request : req'[q].user = session'[t].user /\ Changing(q)'
    BY DEF S!OldSessionsEnd, Changing
  <2>1. session'[t] = session[t] /\ session[t].user # req[r].user
    BY <1>2
  <2>2. PICK q \in Request : req[q].user = session[t].user /\ Changing(q)
    BY <1>1, <2>1 DEF SessionsInv, S!OldSessionsEnd, Changing
  <2>3. q # r /\ req'[q] = req[q]
    BY <1>1, <2>1, <2>2 DEF Others
  <2> QED BY <2>1, <2>2, <2>3 DEF Changing
<1> QED BY <1>1, <1>2, <1>3, <1>4, SameUsers, StepKeeps

\* What Spared does
LEMMA SparedDoes ==
  ASSUME SessionsInv, NEW R \in SUBSET Request, session' = S!Spared(R)
  PROVE  /\ session' \in [Session -> S!SessionRow]
         /\ \A s \in Session :
              /\ Fades(s)
              /\ session'[s].state = "live" /\ ~session'[s].raced =>
                     session'[s] = session[s] /\ \A q \in R : Changing(q) => session[s].user # req[q].user
<1>1. session \in [Session -> S!SessionRow]
  BY DEF SessionsInv, S!TypeOK
<1> DEFINE left == UNION {S!Alive(req[q].user) : q \in {q \in R : req[q].kind = "change" /\ req[q].pc \in {"revoke", "revoking"}}}
<1>2. session' = [s \in Session |-> IF s \in left THEN [session[s] EXCEPT !.raced = TRUE] ELSE session[s]]
  BY DEF S!Spared
<1>3. \A s \in left : session[s].state = "live"
  BY DEF S!Alive
<1>4. ASSUME NEW s \in Session, session[s].state = "live", NEW q \in R, Changing(q), session[s].user = req[q].user
      PROVE  s \in left
  BY <1>4 DEF S!Alive, Changing
<1> HIDE DEF left
<1>5. ASSUME NEW s \in Session, s \in left
      PROVE  /\ session'[s] \in S!SessionRow /\ session'[s].raced /\ session'[s].state = "live"
             /\ session'[s].user = session[s].user /\ session'[s].root = session[s].root
             /\ session'[s].era = session[s].era
  <2>1. session'[s] = [session[s] EXCEPT !.raced = TRUE] /\ session[s] \in S!SessionRow /\ session[s].state = "live"
    BY <1>1, <1>2, <1>3, <1>5
  <2> QED BY <2>1 DEF S!SessionRow
<1>6. ASSUME NEW s \in Session, s \notin left PROVE session'[s] = session[s]
  BY <1>2, <1>6
<1>7. session' \in [Session -> S!SessionRow]
  BY <1>1, <1>2, <1>5, <1>6
<1>8. ASSUME NEW s \in Session PROVE Fades(s)
  BY <1>3, <1>5, <1>6 DEF Fades
<1>9. ASSUME NEW s \in Session, session'[s].state = "live", ~session'[s].raced
      PROVE  session'[s] = session[s] /\ \A q \in R : Changing(q) => session[s].user # req[q].user
  BY <1>4, <1>5, <1>6, <1>9
<1> QED BY <1>7, <1>8, <1>9

\* A request fails; the sessions it should have ended are told apart.
LEMMA FailKeeps ==
  ASSUME SessionsSetting, SessionsInv, NEW r \in Request, S!Fail(r)
  PROVE  SessionsInv'
<1>1. /\ req' \in [Request -> S!RequestState] /\ Others(r) /\ req'[r].pc = "done" /\ Fits(r)'
      /\ UNCHANGED <<user, link, reset, denied>> /\ session' = S!Spared({r})
  BY EndDoes DEF S!Fail
<1>2. /\ session' \in [Session -> S!SessionRow]
      /\ \A s \in Session :
              /\ Fades(s)
              /\ session'[s].state = "live" /\ ~session'[s].raced =>
                     session'[s] = session[s] /\ \A q \in {r} : Changing(q) => session[s].user # req[q].user
  BY <1>1, SparedDoes
<1>3. S!TypeOK'
  BY <1>1, <1>2 DEF SessionsInv, S!TypeOK
<1>4. S!OldSessionsEnd'
  <2> SUFFICES ASSUME NEW t \in Session, session'[t].state = "live", ~session'[t].raced,
                      session'[t].era # user'[session'[t].user].era
               PROVE  \E q \in Request : req'[q].user = session'[t].user /\ Changing(q)'
    BY DEF S!OldSessionsEnd, Changing
  <2>1. session'[t] = session[t] /\ (Changing(r) => session[t].user # req[r].user)
    BY <1>2
  <2>2. PICK q \in Request : req[q].user = session[t].user /\ Changing(q)
    BY <1>1, <2>1 DEF SessionsInv, S!OldSessionsEnd, Changing
  <2>3. q # r /\ req'[q] = req[q]
    BY <1>1, <2>1, <2>2 DEF Others
  <2> QED BY <2>1, <2>2, <2>3 DEF Changing
<1> QED BY <1>1, <1>2, <1>3, <1>4, SameUsers, StepKeeps DEF SessionStep

\* A restart ends every request.
LEMMA RestartKeeps ==
  ASSUME SessionsSetting, SessionsInv, S!Restart
  PROVE  SessionsInv'
<1>1. UNCHANGED <<user, link, reset>> /\ session' = S!Spared(Request) /\ denied' \in SUBSET User
  BY DEF S!Restart
<1>2. S!Idle \in S!RequestState /\ S!Done \in S!RequestState /\ S!Idle.pc = "idle" /\ S!Done.pc = "done"
      /\ S!Idle.user = Null /\ S!Done.user = Null
  BY DEF S!Done, S!Idle, S!RequestState, S!Places
<1>3. req' \in [Request -> S!RequestState] /\ \A r \in Request : req'[r].pc \in {"idle", "done"} /\ req'[r].user = Null
  BY <1>2 DEF S!Restart
<1>4. /\ session' \in [Session -> S!SessionRow]
      /\ \A s \in Session :
              /\ Fades(s)
              /\ session'[s].state = "live" /\ ~session'[s].raced =>
                     session'[s] = session[s] /\ \A q \in Request : Changing(q) => session[s].user # req[q].user
  BY <1>1, SparedDoes
<1>5. S!TypeOK'
  BY <1>1, <1>3, <1>4 DEF SessionsInv, S!TypeOK
<1>6. S!OldSessionsEnd'
  <2> SUFFICES ASSUME NEW t \in Session, session'[t].state = "live", ~session'[t].raced,
                      session'[t].era # user'[session'[t].user].era
               PROVE  FALSE
    BY DEF S!OldSessionsEnd
  <2>1. session'[t] = session[t] /\ \A q \in Request : Changing(q) => session[t].user # req[q].user
    BY <1>4
  <2> QED BY <1>1, <2>1 DEF SessionsInv, S!OldSessionsEnd, Changing
<1>7. ASSUME NEW r \in Request PROVE Fits(r)'
  <2>1. req'[r].pc \in {"idle", "done"} /\ req'[r].user \notin User
    BY <1>3 DEF SessionsSetting
  <2>2. Stage(req[r])' /\ req'[r].pc \in Calm
    BY <2>1 DEF Stage, Calm
  <2> QED BY <2>1, <2>2, CalmFits
<1>8. (\A s \in Session : SessionFits(s))' /\ S!OneLivePerSignIn'
  BY <1>1, <1>4, <1>5, SameUsers, SessionsFit DEF SessionStep
<1>9. (\A u \in User : UserFits(u))' /\ LinksKnown' /\ S!LinksFollow'
  BY <1>1, SameUsers DEF UserStep
<1> QED BY <1>5, <1>6, <1>7, <1>8, <1>9 DEF SessionsInv

(***************************************************************************)
(* Steps that begin sessions.                                              *)
(***************************************************************************)

\* No session that a step ends or leaves is one that a new password should have ended.
LEMMA OldSessionsStay ==
  ASSUME SessionsInv, NEW r \in Request, Others(r), ~Changing(r),
         \A s \in Session : session'[s].state = "live" /\ ~session'[s].raced =>
             \/ session'[s].era = user'[session'[s].user].era
             \/ session'[s] = session[s] /\ user'[session[s].user].era = user[session[s].user].era
  PROVE  S!OldSessionsEnd'
<1> SUFFICES ASSUME NEW t \in Session, session'[t].state = "live", ~session'[t].raced,
                    session'[t].era # user'[session'[t].user].era
             PROVE  \E q \in Request : req'[q].user = session'[t].user /\ Changing(q)'
  BY DEF S!OldSessionsEnd, Changing
<1>1. session'[t] = session[t] /\ user'[session[t].user].era = user[session[t].user].era
  OBVIOUS
<1>2. PICK q \in Request : req[q].user = session[t].user /\ Changing(q)
  BY <1>1 DEF SessionsInv, S!OldSessionsEnd, Changing
<1>3. q # r /\ req'[q] = req[q]
  BY <1>2 DEF Others
<1> QED BY <1>1, <1>2, <1>3 DEF Changing

\* The next number is one that was not used.
LEMMA FreeSlot ==
  ASSUME SessionsSetting, S!Free # {}
  PROVE  S!Min(S!Free) \in S!Free
<1>1. IsWellFoundedOn(OpToRel(<, Nat), Nat)
  BY NatLessThanWellFounded
<1>2. S!Free \subseteq Nat
  BY DEF S!Free, SessionsSetting
<1>3. PICK x \in S!Free : \A y \in S!Free : ~(<<y, x>> \in OpToRel(<, Nat))
  BY <1>1, <1>2, WFMin
<1>4. ASSUME NEW y \in S!Free PROVE x <= y
  <2>1. x \in Nat /\ y \in Nat
    BY <1>2
  <2>2. ~(y < x)
    BY <1>3, <2>1 DEF OpToRel
  <2> QED BY <2>1, <2>2
<1> QED BY <1>4 DEF S!Min

\* What a new session says
LEMMA NewSessionDoes ==
  ASSUME SessionsInv, NEW u \in User, NEW root \in Session, NEW era \in Nat, NEW raced \in BOOLEAN,
         NEW n, n = S!NewSession(u, root, era, raced)
  PROVE  /\ n \in S!SessionRow
         /\ n.state = "live" /\ n.user = u /\ n.root = root /\ n.era = era
         /\ raced \/ era # user[u].era \/ S!Revoking(u) => n.raced
         /\ Checked(u, era, raced) => Checked(u, era, n.raced)
<1> DEFINE x == raced \/ era # user[u].era \/ S!Revoking(u)
<1>1. n = [state |-> "live", user |-> u, root |-> root, era |-> era, raced |-> x]
  BY DEF S!NewSession
<1>2. x \in BOOLEAN
  BY DEF S!Revoking
<1>3. raced \/ era # user[u].era \/ S!Revoking(u) => x
  OBVIOUS
<1> HIDE DEF x
<1>4. n \in S!SessionRow /\ n.state = "live" /\ n.user = u /\ n.root = root /\ n.era = era /\ n.raced = x
  BY <1>1, <1>2 DEF S!SessionRow
<1>5. Checked(u, era, raced) => Checked(u, era, n.raced)
  BY <1>3, <1>4 DEF Checked
<1> QED BY <1>3, <1>4, <1>5

\* A sign-in writes its session.
LEMMA WriteKeeps ==
  ASSUME SessionsSetting, SessionsInv, NEW r \in Request, S!WriteSession(r)
  PROVE  SessionsInv'
<1>1. /\ req' \in [Request -> S!RequestState] /\ Others(r) /\ req'[r].pc = "done" /\ Fits(r)'
      /\ UNCHANGED <<user, link, reset, denied>> /\ req[r].pc = "write"
  BY EndDoes DEF S!WriteSession
<1>2. /\ req[r].user \in User /\ user[req[r].user].here /\ Checked(req[r].user, req[r].era, FALSE)
      /\ req[r].era \in Nat /\ ~Changing(r)
  BY <1>1 DEF SessionsInv, Fits, Stage, Linking, S!TypeOK, S!RequestState, Changing
<1>3. PICK f \in Session : f = S!Min(S!Free) /\ session[f].state = "none"
  BY FreeSlot DEF S!WriteSession, S!Free
<1> DEFINE n == S!NewSession(req[r].user, f, req[r].era, FALSE)
<1>4. session' = [session EXCEPT ![f] = n]
  BY <1>3 DEF S!WriteSession
<1>5. /\ n \in S!SessionRow
      /\ n.state = "live" /\ n.user = req[r].user /\ n.root = f /\ n.era = req[r].era
      /\ req[r].era # user[req[r].user].era \/ S!Revoking(req[r].user) => n.raced
      /\ Checked(n.user, n.era, n.raced)
  <2> DEFINE no == FALSE
  <2>1. no \in BOOLEAN /\ n = S!NewSession(req[r].user, f, req[r].era, no)
    OBVIOUS
  <2>2. Checked(req[r].user, req[r].era, no)
    BY <1>2
  <2> HIDE DEF n, no
  <2> QED BY <1>2, <1>3, <2>1, <2>2, NewSessionDoes
<1> HIDE DEF n
<1>6. session \in [Session -> S!SessionRow]
  BY DEF SessionsInv, S!TypeOK
<1>7. /\ session' \in [Session -> S!SessionRow] /\ session'[f] = n
      /\ \A s \in Session : s # f => session'[s] = session[s]
  BY <1>3, <1>4, <1>5, <1>6
<1>8. S!TypeOK'
  BY <1>1, <1>7 DEF SessionsInv, S!TypeOK
<1>9. ASSUME NEW s \in Session, s # f PROVE SessionStep(s)
  BY <1>7, <1>9 DEF SessionStep, Fades
<1>10. Begins(f)
  <2>1. Checked(session[f].user, session[f].era, session[f].raced)'
    BY <1>1, <1>5, <1>7 DEF Checked
  <2>2. ASSUME NEW t \in Session, session'[t].state = "live", session'[t].root = f, t # f PROVE FALSE
    <3>1. session[t].state = "live" /\ session[t].root = f /\ SessionFits(t)
      BY <1>7, <2>2 DEF SessionsInv
    <3> QED BY <1>3, <3>1 DEF SessionFits
  <2> QED BY <1>1, <1>2, <1>3, <1>5, <1>7, <2>1, <2>2 DEF Begins
<1>11. \A s \in Session : SessionStep(s)
  BY <1>9, <1>10 DEF SessionStep
<1>12. S!OldSessionsEnd'
  BY <1>1, <1>2, <1>5, <1>7, OldSessionsStay
<1> QED BY <1>1, <1>8, <1>11, <1>12, SameUsers, StepKeeps

\* A refresh ends its session and writes the next one of the sign-in.
LEMMA RotateKeeps ==
  ASSUME SessionsSetting, SessionsInv, NEW r \in Request, S!RotateSession(r)
  PROVE  SessionsInv'
<1>1. /\ req' \in [Request -> S!RequestState] /\ Others(r) /\ req'[r].pc = "done" /\ Fits(r)'
      /\ UNCHANGED <<user, link, reset, denied>> /\ req[r].pc = "rotating"
  BY EndDoes DEF S!RotateSession
<1>2. PICK o \in Session : o = req[r].row /\ session[o].state = "live" /\ ~Changing(r)
  BY <1>1 DEF SessionsInv, Fits, Stage, Rotating, Changing
<1> DEFINE old == session[o]
<1>3. session \in [Session -> S!SessionRow] /\ SessionFits(o)
  BY <1>2 DEF SessionsInv, S!TypeOK
<1>4. PICK f \in Session : f = S!Min(S!Free) /\ session[f].state = "none"
  BY FreeSlot DEF S!RotateSession, S!Free
<1> DEFINE n == S!NewSession(old.user, old.root, old.era, old.raced)
<1>5. session' = [session EXCEPT ![o].state = "revoked", ![f] = n]
  BY <1>2, <1>4 DEF S!RotateSession
<1>6. /\ old.user \in User /\ user[old.user].here /\ old.root \in Session /\ old.era \in Nat /\ old.raced \in BOOLEAN
      /\ session[old.root].state # "none" /\ Checked(old.user, old.era, old.raced)
  BY <1>2, <1>3 DEF SessionFits, S!SessionRow
<1>7. /\ n \in S!SessionRow
      /\ n.state = "live" /\ n.user = old.user /\ n.root = old.root /\ n.era = old.era
      /\ old.era # user[old.user].era \/ S!Revoking(old.user) => n.raced
      /\ Checked(n.user, n.era, n.raced)
  BY <1>6, NewSessionDoes
<1> HIDE DEF n
<1>8. f # o
  BY <1>2, <1>4
<1>9. session'[o] = [old EXCEPT !.state = "revoked"] /\ session'[f] = n
      /\ \A s \in Session : s # f /\ s # o => session'[s] = session[s]
  BY <1>2, <1>3, <1>4, <1>5, <1>8
<1>10. Revokes(o)
  BY <1>2, <1>3, <1>9 DEF Revokes, S!SessionRow
<1>11. session' \in [Session -> S!SessionRow]
  <2>1. \A s \in Session : session'[s] \in S!SessionRow
    BY <1>3, <1>7, <1>9, <1>10 DEF Revokes
  <2>2. session' = [s \in Session |-> session'[s]]
    BY <1>3, <1>5
  <2> QED BY <2>1, <2>2
<1>12. S!TypeOK'
  BY <1>1, <1>11 DEF SessionsInv, S!TypeOK
<1>13. SessionStep(o)
  <2>1. ASSUME NEW q \in Request, Rotating(q)', req'[q].row = o PROVE FALSE
    <3>1. q # r /\ req[q].pc = "rotating" /\ req[q].row = o
      BY <1>1, <2>1 DEF Rotating, Others
    <3>2. Apart(r, q)
      BY <3>1 DEF SessionsInv, Fits
    <3> QED BY <1>1, <1>2, <3>1, <3>2 DEF Apart, Rotating
  <2> QED BY <1>10, <2>1 DEF SessionStep, Fades, Revokes
<1>14. Begins(f)
  <2>1. Checked(session[f].user, session[f].era, session[f].raced)'
    BY <1>1, <1>7, <1>9 DEF Checked
  <2>2. session'[old.root].state # "none"
    BY <1>6, <1>7, <1>9, <1>10 DEF Revokes
  <2>3. ASSUME NEW t \in Session, session'[t].state = "live", session'[t].root = old.root, t # f PROVE FALSE
    <3>1. t # o /\ session[t].state = "live" /\ session[t].root = old.root
      BY <1>9, <1>10, <2>3 DEF Revokes
    <3> QED BY <1>2, <3>1 DEF SessionsInv, S!OneLivePerSignIn
  <2> QED BY <1>1, <1>4, <1>6, <1>7, <1>9, <2>1, <2>2, <2>3 DEF Begins
<1>15. ASSUME NEW s \in Session, s # f, s # o PROVE SessionStep(s)
  BY <1>9, <1>15 DEF SessionStep, Fades
<1>16. \A s \in Session : SessionStep(s)
  BY <1>13, <1>14, <1>15 DEF SessionStep
<1>17. S!OldSessionsEnd'
  <2>1. session'[o].state # "live"
    BY <1>10 DEF Revokes
  <2>2. ~session'[f].raced => session'[f].era = user'[session'[f].user].era
    BY <1>1, <1>7, <1>9
  <2>3. ASSUME NEW s \in Session, session'[s].state = "live", s # f
        PROVE  session'[s] = session[s] /\ user'[session[s].user].era = user[session[s].user].era
    BY <1>1, <1>9, <2>1, <2>3
  <2> QED BY <1>1, <1>2, <2>2, <2>3, OldSessionsStay
<1> QED BY <1>1, <1>12, <1>16, <1>17, SameUsers, StepKeeps

(***************************************************************************)
(* Steps that change users.                                                *)
(***************************************************************************)

\* Who is not written stays.
LEMMA OtherUsers ==
  ASSUME SessionsInv, NEW v \in User, user'[v] = user[v]
  PROVE  UserStep(v)
<1>1. user[v].era \in Nat
  BY DEF SessionsInv, S!TypeOK, S!UserRow
<1> QED BY <1>1 DEF UserStep, UserFits, SessionsInv

\* Who was there is there.
LEMMA LinksStay ==
  ASSUME SessionsInv, \A u \in User : UserStep(u), UNCHANGED <<link, reset>>
  PROVE  LinksKnown' /\ LinkStep
BY DEF SessionsInv, LinksKnown, UserStep, LinkStep

\* A link to a user who is or was not deleted stays right.
LEMMA LinkRight ==
  ASSUME SessionsInv, NEW u \in User, \A v \in User : v # u => user'[v] = user[v], UNCHANGED link,
         user'[u].anonymous => user'[u].revived \/ (user[u].anonymous /\ ~user[u].revived)
  PROVE  S!LinksFollow'
BY DEF SessionsInv, LinksKnown, S!LinksFollow, S!NoLink

\* Of a user who is not there nobody has a session.
LEMMA NoSessions ==
  ASSUME SessionsInv, NEW u \in User, ~user[u].here, NEW s \in Session
  PROVE  session[s].user # u
BY DEF SessionsInv, SessionFits

\* A token for a user
LEMMA TokenKeeps ==
  ASSUME SessionsSetting, SessionsInv, NEW r \in Request, S!CreatePasswordResetToken(r) \/ S!DenyUser(r)
  PROVE  SessionsInv'
<1>1. /\ req' \in [Request -> S!RequestState] /\ Others(r) /\ Fits(r)'
      /\ UNCHANGED <<user, session, link>> /\ Stage(req[r]) /\ Fits(r)
  BY EndDoes DEF S!CreatePasswordResetToken, S!DenyUser, SessionsInv, Fits
<1>2. req[r].user \in User /\ user[req[r].user].here /\ ~Changing(r)
      /\ (S!CreatePasswordResetToken(r) => req[r].row \in Token)
  BY <1>1 DEF S!CreatePasswordResetToken, S!DenyUser, S!At, Stage, Fits, Linking, Changing
<1>3. /\ denied' \in SUBSET User
      /\ reset' = reset \/ (req[r].row \in Token /\
              reset' = [reset EXCEPT ![req[r].row] = [state |-> "unused", user |-> req[r].user]])
  BY <1>2 DEF S!CreatePasswordResetToken, S!DenyUser, SessionsInv, S!TypeOK
<1>4. S!TypeOK'
  BY <1>1, <1>2, <1>3 DEF SessionsInv, S!TypeOK
<1>5. \A u \in User : UserStep(u)
  BY <1>1, OtherUsers
<1>6. \A s \in Session : SessionStep(s)
  BY <1>1 DEF SessionStep, Fades
<1>7. LinksKnown' /\ LinkStep
  <2>1. reset \in [Token -> [state : {"none", "unused", "used", "deleted"}, user : User \cup {Null}]]
    BY DEF SessionsInv, S!TypeOK
  <2> QED BY <1>1, <1>2, <1>3, <2>1 DEF SessionsInv, LinksKnown, LinkStep
<1>8. S!LinksFollow' /\ S!OldSessionsEnd'
  BY <1>1, <1>2, OldSessionsStay DEF SessionsInv, S!LinksFollow, S!NoLink
<1> QED BY <1>1, <1>4, <1>5, <1>6, <1>7, <1>8, StepKeeps

\* What a step does that writes the row of one user and no session, link or token
LEMMA UserKeeps ==
  ASSUME SessionsSetting, SessionsInv, NEW r \in Request, req' \in [Request -> S!RequestState], Others(r), Fits(r)',
         UNCHANGED <<session, link, reset, denied>>, ~Changing(r),
         NEW u \in User, user' \in [User -> S!UserRow], \A v \in User : v # u => user'[v] = user[v], UserStep(u),
         user'[u].anonymous => user'[u].revived \/ (user[u].anonymous /\ ~user[u].revived),
         user[u].here => user'[u].era = user[u].era
  PROVE  SessionsInv'
<1>1. S!TypeOK'
  BY DEF SessionsInv, S!TypeOK
<1>2. \A v \in User : UserStep(v)
  BY OtherUsers
<1>3. \A s \in Session : SessionStep(s)
  BY DEF SessionStep, Fades
<1>4. LinksKnown' /\ LinkStep /\ S!LinksFollow'
  BY <1>2, LinksStay, LinkRight
<1>5. S!OldSessionsEnd'
  <2>1. ASSUME NEW s \in Session, session'[s].state = "live"
        PROVE  session'[s] = session[s] /\ user'[session[s].user].era = user[session[s].user].era
    <3>1. session[s].user \in User
      BY <2>1 DEF SessionsInv, SessionFits
    <3> QED BY <3>1, NoSessions
  <2> QED BY <2>1, OldSessionsStay
<1> QED BY <1>1, <1>2, <1>3, <1>4, <1>5, StepKeeps

\* A request that goes on with a user it has made
LEMMA MadeDoes ==
  ASSUME SessionsInv, NEW r \in Request, NEW kind \in S!Kinds, NEW pc \in S!Places, NEW u \in User,
         req' = [req EXCEPT ![r] = [S!Idle EXCEPT !.kind = kind, !.pc = pc, !.user = u]]
  PROVE  /\ req' \in [Request -> S!RequestState] /\ Others(r)
         /\ req'[r].kind = kind /\ req'[r].pc = pc /\ req'[r].user = u
<1> DEFINE c == [S!Idle EXCEPT !.kind = kind, !.pc = pc, !.user = u]
<1>1. req \in [Request -> S!RequestState]
  BY DEF SessionsInv, S!TypeOK
<1>2. c \in S!RequestState /\ c.pc = pc /\ c.kind = kind /\ c.user = u
  BY DEF S!Idle, S!RequestState
<1>3. req' = [req EXCEPT ![r] = c]
  OBVIOUS
<1> HIDE DEF c
<1> QED BY <1>1, <1>2, <1>3 DEF Others

\* Nobody is linking a user whose row is free.
LEMMA NoneLinks ==
  ASSUME SessionsInv, NEW u \in User, S!Linking(u) = {}, NEW q \in Request
  PROVE  ~(Linking(q) /\ req[q].user = u)
BY DEF S!Linking, S!At, Linking, SessionsInv, Fits, Stage

\* A user is given an address.
LEMMA EmailKeeps ==
  ASSUME SessionsSetting, SessionsInv, NEW r \in Request, S!UpdateUserEmail(r)
  PROVE  SessionsInv'
<1>1. /\ req' \in [Request -> S!RequestState] /\ Others(r) /\ req'[r].pc = "done" /\ Fits(r)'
      /\ UNCHANGED <<session, link, reset, denied>> /\ Fits(r) /\ req[r].pc = "edit" /\ req[r].kind = "edit"
  BY EndDoes DEF S!UpdateUserEmail, S!At, SessionsInv
<1>2. PICK u \in User : u = req[r].user /\ user[u].here /\ req[r].row \in Email /\ ~Changing(r)
  BY <1>1 DEF Fits, Stage, Linking, Changing
<1>3. user \in [User -> S!UserRow] /\ user[u] \in S!UserRow /\ UserFits(u)
  BY DEF SessionsInv, S!TypeOK
<1> DEFINE row == [user[u] EXCEPT !.email = req[r].row, !.revived = user[u].anonymous]
<1>4. /\ row \in S!UserRow /\ row.here /\ row.era = user[u].era /\ row.anonymous = user[u].anonymous
      /\ row.revived = user[u].anonymous
  BY <1>2, <1>3 DEF S!UserRow
<1>5. user' = user \/ user' = [user EXCEPT ![u] = row]
  BY <1>2 DEF S!UpdateUserEmail
<1> HIDE DEF row
<1>6. S!Linking(u) = {}
  BY <1>2 DEF S!UpdateUserEmail, S!HoldsUser
<1>7. user' \in [User -> S!UserRow] /\ (\A v \in User : v # u => user'[v] = user[v])
      /\ (user'[u] = user[u] \/ user'[u] = row)
  BY <1>3, <1>4, <1>5
<1>8. ASSUME user'[u] = row PROVE UserStep(u)
  <2>1. UserFits(u)'
    BY <1>4, <1>8 DEF UserFits
  <2>2. ASSUME NEW q \in Request PROVE ~(Linking(q)' /\ req'[q].user = u)
    BY <1>1, <1>6, NoneLinks DEF Others, Linking
  <2>3. user[u].era <= user'[u].era
    BY <1>3, <1>4, <1>8 DEF S!UserRow
  <2>4. user'[u].here /\ (user'[u].anonymous => user[u].anonymous /\ user'[u].revived)
    BY <1>4, <1>8
  <2> QED BY <2>1, <2>2, <2>3, <2>4, Zenon DEF UserStep
<1>9. UserStep(u) /\ (user'[u].anonymous => user'[u].revived \/ (user[u].anonymous /\ ~user[u].revived))
      /\ user'[u].era = user[u].era
  BY <1>4, <1>7, <1>8, OtherUsers
<1> QED BY <1>1, <1>2, <1>7, <1>9, UserKeeps

\* A user registers.
LEMMA RegisterKeeps ==
  ASSUME SessionsSetting, SessionsInv, NEW r \in Request, NEW e \in Email, S!CreateUser(r, e)
  PROVE  SessionsInv'
<1> DEFINE row == [S!NoUser EXCEPT !.here = TRUE, !.email = e, !.password = TRUE]
<1>1. PICK u \in User : /\ ~user[u].here /\ S!Linking(u) = {}
                        /\ user' = [user EXCEPT ![u] = row]
                        /\ req' = [req EXCEPT ![r] = [S!Idle EXCEPT !.kind = "register", !.pc = "mail", !.user = u]]
  BY DEF S!CreateUser
<1>2. row \in S!UserRow /\ row.here /\ ~row.anonymous
  BY DEF S!NoUser, S!UserRow
<1> HIDE DEF row
<1>3. /\ user' \in [User -> S!UserRow] /\ user'[u] = row /\ (\A v \in User : v # u => user'[v] = user[v])
      /\ UNCHANGED <<session, link, reset, denied>>
  BY <1>1, <1>2 DEF SessionsInv, S!TypeOK, S!CreateUser
<1>4. /\ req' \in [Request -> S!RequestState] /\ Others(r)
      /\ req'[r].kind = "register" /\ req'[r].pc = "mail" /\ req'[r].user = u
  <2>1. "register" \in S!Kinds /\ "mail" \in S!Places
    BY DEF S!Kinds, S!Places
  <2> QED BY <1>1, <2>1, MadeDoes
<1>5. Stage(req[r])'
  BY <1>4 DEF Stage
<1>6. Fits(r)'
  BY <1>2, <1>3, <1>4, <1>5, CalmFits DEF Calm
<1>7. ~Changing(r)
  BY DEF S!CreateUser, S!Unused, Changing
<1>8. UserStep(u)
  <2>1. ASSUME NEW q \in Request PROVE ~(Linking(q)' /\ req'[q].user = u)
    BY <1>1, <1>4, NoneLinks DEF Others, Linking
  <2>2. UserFits(u)'
    BY <1>2, <1>3 DEF UserFits
  <2>3. ~user[u].here
    BY <1>1
  <2> QED BY <2>1, <2>2, <2>3 DEF UserStep
<1> QED BY <1>1, <1>2, <1>3, <1>4, <1>6, <1>7, <1>8, UserKeeps

\* A user is sent a token for his address, or has shown that it is his.
LEMMA VerifyKeeps ==
  ASSUME SessionsSetting, SessionsInv, NEW r \in Request,
         S!CreateEmailVerificationToken(r) \/ S!VerifyEmail(r)
  PROVE  SessionsInv'
<1>1. /\ req' \in [Request -> S!RequestState] /\ Others(r) /\ Fits(r)'
      /\ UNCHANGED <<session, link, reset, denied>> /\ Fits(r) /\ req[r].kind \in {"register", "verify"}
      /\ req[r].pc \in {"mail", "verify"}
  BY EndDoes DEF S!CreateEmailVerificationToken, S!VerifyEmail, S!At, SessionsInv
<1>2. PICK u \in User : u = req[r].user /\ user[u].here /\ ~Changing(r)
  BY <1>1 DEF Fits, Stage, Linking, Changing
<1>3. user \in [User -> S!UserRow] /\ user[u] \in S!UserRow /\ UserFits(u) /\ user[u].era \in Nat
  BY DEF SessionsInv, S!TypeOK, S!UserRow
<1>4. PICK row \in S!UserRow :
         /\ user' = [user EXCEPT ![u] = row]
         /\ row.here /\ row.era = user[u].era /\ row.anonymous = user[u].anonymous
         /\ row.revived = user[u].revived /\ row.email = user[u].email
  <2>1. CASE S!CreateEmailVerificationToken(r)
    <3> DEFINE row == [user[u] EXCEPT !.mailed = TRUE]
    <3>1. user' = [user EXCEPT ![u] = row]
      BY <1>2, <2>1 DEF S!CreateEmailVerificationToken
    <3>2. row \in S!UserRow /\ row.here /\ row.era = user[u].era /\ row.anonymous = user[u].anonymous
          /\ row.revived = user[u].revived /\ row.email = user[u].email
      BY <1>2, <1>3 DEF S!UserRow
    <3> HIDE DEF row
    <3> QED BY <3>1, <3>2
  <2>2. CASE S!VerifyEmail(r)
    <3> DEFINE row == [user[u] EXCEPT !.verified = TRUE, !.mailed = FALSE]
    <3>1. user' = [user EXCEPT ![u] = row]
      BY <1>2, <2>2 DEF S!VerifyEmail
    <3>2. row \in S!UserRow /\ row.here /\ row.era = user[u].era /\ row.anonymous = user[u].anonymous
          /\ row.revived = user[u].revived /\ row.email = user[u].email
      BY <1>2, <1>3 DEF S!UserRow
    <3> HIDE DEF row
    <3> QED BY <3>1, <3>2
  <2> QED BY <2>1, <2>2
<1>5. /\ user' \in [User -> S!UserRow] /\ user'[u] = row /\ \A v \in User : v # u => user'[v] = user[v]
  BY <1>3, <1>4
<1>6. UserStep(u)
  <2>1. UserFits(u)'
    BY <1>3, <1>4, <1>5 DEF UserFits
  <2>2. user[u].era <= user'[u].era
    BY <1>3, <1>4, <1>5
  <2>3. user'[u].here /\ user'[u].anonymous = user[u].anonymous /\ user'[u].revived = user[u].revived
        /\ user'[u].email = user[u].email
    BY <1>4, <1>5
  <2> QED BY <1>2, <2>1, <2>2, <2>3, Zenon DEF UserStep
<1> QED BY <1>1, <1>2, <1>4, <1>5, <1>6, UserKeeps

\* What NewPassword does
LEMMA PasswordDoes ==
  ASSUME SessionsInv, NEW u \in User, user[u].here, user' = S!NewPassword(u)
  PROVE  /\ user' \in [User -> S!UserRow] /\ \A v \in User : UserStep(v)
         /\ \A v \in User : v # u => user'[v] = user[v]
         /\ user'[u].anonymous = user[u].anonymous /\ user'[u].revived = user[u].revived
<1> DEFINE row == [user[u] EXCEPT !.password = TRUE, !.era = @ + 1]
<1>1. user \in [User -> S!UserRow] /\ user[u] \in S!UserRow /\ UserFits(u)
  BY DEF SessionsInv, S!TypeOK
<1>2. /\ row \in S!UserRow /\ row.here /\ row.era = user[u].era + 1 /\ row.anonymous = user[u].anonymous
      /\ row.revived = user[u].revived /\ row.email = user[u].email /\ user[u].era \in Nat
  <2>1. user[u].era \in Nat /\ user[u].era + 1 \in Nat
    BY <1>1 DEF S!UserRow
  <2> DEFINE next == user[u].era + 1
             r2 == [user[u] EXCEPT !.password = TRUE, !.era = next]
  <2>2. next \in Nat
    BY <2>1
  <2>3. row = r2
    OBVIOUS
  <2> HIDE DEF next, row
  <2>4. /\ r2 \in S!UserRow /\ r2.here = user[u].here /\ r2.era = next /\ r2.anonymous = user[u].anonymous
        /\ r2.revived = user[u].revived /\ r2.email = user[u].email
    BY <1>1, <2>2 DEF S!UserRow
  <2> HIDE DEF r2
  <2>5. next = user[u].era + 1
    BY DEF next
  <2> QED BY <2>1, <2>3, <2>4, <2>5
<1>3. user' = [user EXCEPT ![u] = row]
  BY DEF S!NewPassword
<1> HIDE DEF row
<1>4. user' \in [User -> S!UserRow] /\ user'[u] = row /\ \A v \in User : v # u => user'[v] = user[v]
  BY <1>1, <1>2, <1>3
<1>5. UserStep(u)
  <2>1. UserFits(u)'
    BY <1>1, <1>2, <1>4 DEF UserFits
  <2>2. user[u].era < user'[u].era
    BY <1>2, <1>4
  <2>3. user[u].era <= user'[u].era
    BY <1>2, <1>4
  <2> QED BY <1>2, <1>4, <2>1, <2>2, <2>3 DEF UserStep
<1> QED BY <1>2, <1>4, <1>5, OtherUsers

\* ChangePassword sets the password; the sessions are still to end.
LEMMA ChangeKeeps ==
  ASSUME SessionsSetting, SessionsInv, NEW r \in Request, S!SetHash(r)
  PROVE  SessionsInv'
<1>1. /\ req[r].kind = "change" /\ req[r].pc = "change" /\ Fits(r) /\ S!Goto(r, "revoke")
      /\ UNCHANGED <<session, link, reset, denied>>
  BY DEF S!SetHash, S!UpdateUserPasswordHash, S!At, SessionsInv
<1>2. PICK u \in User : u = req[r].user /\ user[u].here /\ ~Changing(r)
  BY <1>1 DEF Fits, Stage, Linking, Changing
<1>3. /\ user' \in [User -> S!UserRow] /\ (\A v \in User : UserStep(v))
      /\ (\A v \in User : v # u => user'[v] = user[v])
      /\ user'[u].anonymous = user[u].anonymous /\ user'[u].revived = user[u].revived
  BY <1>2, PasswordDoes DEF S!SetHash, S!UpdateUserPasswordHash
<1>4. /\ req' \in [Request -> S!RequestState] /\ Others(r)
      /\ req'[r].pc = "revoke" /\ req'[r].kind = "change" /\ req'[r].user = u
  BY <1>1, <1>2, GotoDoes DEF S!Places
<1>5. Stage(req[r])' /\ Changing(r)'
  BY <1>4 DEF Stage, Changing
<1>6. Fits(r)'
  BY <1>2, <1>3, <1>4, <1>5, CalmFits DEF Calm, UserStep
<1>7. S!TypeOK'
  BY <1>1, <1>3, <1>4 DEF SessionsInv, S!TypeOK
<1>8. \A s \in Session : SessionStep(s)
  BY <1>1 DEF SessionStep, Fades
<1>9. LinksKnown' /\ LinkStep /\ S!LinksFollow'
  BY <1>1, <1>3, LinksStay, LinkRight
<1>10. S!OldSessionsEnd'
  <2> SUFFICES ASSUME NEW t \in Session, session'[t].state = "live", ~session'[t].raced,
                      session'[t].era # user'[session'[t].user].era
               PROVE  \E q \in Request : req'[q].user = session'[t].user /\ Changing(q)'
    BY DEF S!OldSessionsEnd, Changing
  <2>1. CASE session[t].user = u
    BY <1>1, <1>4, <1>5, <2>1
  <2>2. CASE session[t].user # u
    <3>1. session[t].user \in User
      BY <1>1 DEF SessionsInv, SessionFits
    <3>2. PICK q \in Request : req[q].user = session[t].user /\ Changing(q)
      BY <1>1, <1>3, <2>2, <3>1 DEF SessionsInv, S!OldSessionsEnd, Changing
    <3>3. q # r /\ req'[q] = req[q]
      BY <1>2, <1>4, <3>2 DEF Others
    <3> QED BY <1>1, <3>2, <3>3 DEF Changing
  <2> QED BY <2>1, <2>2
<1> QED BY <1>3, <1>4, <1>6, <1>7, <1>8, <1>9, <1>10, StepKeeps

\* ResetPassword sets the password and ends the sessions it found.
LEMMA ResetKeeps ==
  ASSUME SessionsSetting, SessionsInv, NEW r \in Request, S!ResetPassword(r)
  PROVE  SessionsInv'
<1>1. /\ req' \in [Request -> S!RequestState] /\ Others(r) /\ req'[r].pc = "done" /\ Fits(r)'
      /\ UNCHANGED <<link, denied>> /\ Fits(r) /\ req[r].pc = "revoking" /\ req[r].kind = "reset"
  BY EndDoes DEF S!ResetPassword, S!At, SessionsInv
<1>2. PICK u \in User : u = req[r].user /\ user[u].here /\ ~Changing(r) /\ req[r].row \in Token
  BY <1>1 DEF Fits, Stage, Linking, Changing
<1>3. /\ user' \in [User -> S!UserRow] /\ (\A v \in User : UserStep(v))
      /\ (\A v \in User : v # u => user'[v] = user[v])
      /\ user'[u].anonymous = user[u].anonymous /\ user'[u].revived = user[u].revived
  BY <1>2, PasswordDoes DEF S!ResetPassword
<1>4. /\ session' \in [Session -> S!SessionRow]
      /\ \A s \in Session : SessionStep(s)
      /\ \A s \in Session : session'[s].state = "live" => session'[s] = session[s]
      /\ \A s \in Session : session'[s].state = "live" /\ session[s].user = u => session[s].raced
  BY <1>1, <1>2, RevokesFade DEF S!ResetPassword
<1> DEFINE TokenRow == [state : {"none", "unused", "used", "deleted"}, user : User \cup {Null}]
<1>5. PICK t \in Token : t = req[r].row
  BY <1>2
<1>6. reset \in [Token -> TokenRow] /\ reset[t] \in TokenRow
  BY DEF SessionsInv, S!TypeOK
<1> DEFINE c == [reset[t] EXCEPT !.state = IF @ = "unused" THEN "used" ELSE @]
<1>7. c \in TokenRow /\ c.user = reset[t].user /\ c.state # "unused"
  BY <1>6
<1>8. reset' = [reset EXCEPT ![t] = c]
  BY <1>5 DEF S!ResetPassword
<1> HIDE DEF c
<1>9. reset' \in [Token -> TokenRow] /\ reset'[t] = c /\ \A x \in Token : x # t => reset'[x] = reset[x]
  BY <1>6, <1>7, <1>8
<1>10. S!TypeOK'
  BY <1>1, <1>3, <1>4, <1>9 DEF SessionsInv, S!TypeOK
<1>11. LinksKnown'
  BY <1>1, <1>3, <1>7, <1>9 DEF SessionsInv, LinksKnown, UserStep
<1>12. LinkStep /\ S!LinksFollow'
  BY <1>1, <1>2, <1>3, LinkRight DEF LinkStep
<1>13. S!OldSessionsEnd'
  <2>1. ASSUME NEW s \in Session, session'[s].state = "live", ~session'[s].raced
        PROVE  session'[s] = session[s] /\ user'[session[s].user].era = user[session[s].user].era
    <3>1. session'[s] = session[s] /\ session[s].user # u
      BY <1>4, <2>1
    <3>2. session[s].user \in User
      BY <2>1, <3>1 DEF SessionsInv, SessionFits
    <3> QED BY <1>3, <3>1, <3>2
  <2> QED BY <1>1, <1>2, <2>1, OldSessionsStay
<1> QED BY <1>1, <1>3, <1>4, <1>10, <1>11, <1>12, <1>13, StepKeeps

\* A Google account is linked to the user of its address, or to a new one.
LEMMA LinkKeeps ==
  ASSUME SessionsSetting, SessionsInv, NEW r \in Request, S!CreateOAuthIdentity(r)
  PROVE  SessionsInv'
<1>1. /\ UNCHANGED <<session, reset, denied>> /\ Fits(r) /\ req[r].pc = "linking" /\ req[r].kind = "google"
  BY DEF S!CreateOAuthIdentity, S!At, SessionsInv
<1>2. PICK u \in User : u = req[r].user /\ ~Changing(r)
  BY <1>1 DEF Fits, Stage, Changing
<1>3. CASE link # S!NoLink
  BY <1>1, <1>2, <1>3, EndKeeps DEF S!CreateOAuthIdentity
<1>4. CASE link = S!NoLink
  <2>1. /\ link' = [user |-> u, raced |-> S!Unlinked(u) # {}]
        /\ user' = IF user[u].here THEN [user EXCEPT ![u].verified = TRUE]
                   ELSE [user EXCEPT ![u] = [S!NoUser EXCEPT !.here = TRUE, !.email = Mine, !.verified = TRUE]]
        /\ S!SignedIn(r, u)
    BY <1>2, <1>4 DEF S!CreateOAuthIdentity
  <2>2. user \in [User -> S!UserRow] /\ user[u] \in S!UserRow /\ UserFits(u) /\ user[u].era \in Nat
    BY DEF SessionsInv, S!TypeOK, S!UserRow
  <2>3. user[u].here => user[u].email = Mine
    BY <1>1, <1>2 DEF Fits, Linking
  <2>4. PICK row \in S!UserRow :
           /\ user' = [user EXCEPT ![u] = row] /\ row.here /\ row.email = Mine
           /\ row.era = user[u].era /\ row.anonymous = user[u].anonymous /\ row.revived = user[u].revived
    <3>1. CASE user[u].here
      <4> DEFINE row == [user[u] EXCEPT !.verified = TRUE]
      <4>1. user' = [user EXCEPT ![u] = row]
        BY <2>1, <3>1
      <4>2. /\ row \in S!UserRow /\ row.here /\ row.email = Mine
            /\ row.era = user[u].era /\ row.anonymous = user[u].anonymous /\ row.revived = user[u].revived
        BY <2>2, <2>3, <3>1 DEF S!UserRow
      <4> HIDE DEF row
      <4> QED BY <4>1, <4>2
    <3>2. CASE ~user[u].here
      <4> DEFINE row == [S!NoUser EXCEPT !.here = TRUE, !.email = Mine, !.verified = TRUE]
      <4>1. user' = [user EXCEPT ![u] = row]
        BY <2>1, <3>2
      <4>2. user[u] = S!NoUser
        BY <2>2, <3>2 DEF UserFits
      <4>3. /\ row \in S!UserRow /\ row.here /\ row.email = Mine
            /\ row.era = user[u].era /\ row.anonymous = user[u].anonymous /\ row.revived = user[u].revived
        BY <4>2 DEF S!UserRow, S!NoUser, SessionsSetting
      <4> HIDE DEF row
      <4> QED BY <4>1, <4>3
    <3> QED BY <3>1, <3>2
  <2>5. /\ user' \in [User -> S!UserRow] /\ user'[u] = row /\ \A v \in User : v # u => user'[v] = user[v]
    BY <2>2, <2>4
  <2>6. user[u].anonymous => user[u].revived
    BY <2>2, <2>3 DEF UserFits, S!NoUser, SessionsSetting
  <2>7. UserStep(u)
    <3>1. UserFits(u)'
      BY <2>4, <2>5, <2>6 DEF UserFits
    <3>2. user[u].era <= user'[u].era
      BY <2>2, <2>4, <2>5
    <3>3. user'[u].here /\ user'[u].anonymous = user[u].anonymous /\ user'[u].revived = user[u].revived
          /\ user'[u].email = Mine
      BY <2>4, <2>5
    <3> QED BY <3>1, <3>2, <3>3, Zenon DEF UserStep
  <2>8. \A v \in User : UserStep(v)
    BY <2>5, <2>7, OtherUsers
  <2>9. /\ req' \in [Request -> S!RequestState] /\ Others(r)
        /\ req'[r].kind = "google" /\ req'[r].pc = "write" /\ req'[r].user = u /\ req'[r].era = user[u].era
    BY <2>1, SignInDoes DEF S!SignedIn, SignsIn
  <2>10. Fits(r)'
    <3>1. Checked(req[r].user, req[r].era, FALSE)'
      BY <2>2, <2>4, <2>5, <2>6, <2>9 DEF Checked
    <3> QED BY <2>4, <2>5, <2>9, <3>1, WriteFits
  <2>11. S!TypeOK'
    <3>1. link' \in [user : User \cup {Null}, raced : BOOLEAN]
      BY <2>1
    <3> QED BY <1>1, <2>5, <2>9, <3>1 DEF SessionsInv, S!TypeOK
  <2>12. \A s \in Session : SessionStep(s)
    BY <1>1 DEF SessionStep, Fades
  <2>13. LinkStep /\ link'.user = u
    <3>1. link'.user = u /\ (link'.raced \/ S!Unlinked(u) = {})
      BY <2>1
    <3> QED BY <3>1 DEF LinkStep
  <2>14. LinksKnown'
    BY <1>1, <2>4, <2>5, <2>8, <2>13 DEF SessionsInv, LinksKnown, UserStep
  <2>15. S!LinksFollow'
    BY <2>4, <2>5, <2>6, <2>13 DEF S!LinksFollow
  <2>16. S!OldSessionsEnd'
    <3>1. ASSUME NEW s \in Session, session'[s].state = "live"
          PROVE  session'[s] = session[s] /\ user'[session[s].user].era = user[session[s].user].era
      <4>1. session[s].user \in User
        BY <1>1, <3>1 DEF SessionsInv, SessionFits
      <4> QED BY <1>1, <2>4, <2>5, <4>1
    <3> QED BY <1>2, <2>9, <3>1, OldSessionsStay
  <2> QED BY <2>8, <2>9, <2>10, <2>11, <2>12, <2>13, <2>14, <2>15, <2>16, StepKeeps
<1> QED BY <1>3, <1>4

\* The deletion of a user takes effect.
LEMMA DeletionKeeps ==
  ASSUME SessionsSetting, SessionsInv, NEW r \in Request, S!CommitDeletion(r)
  PROVE  SessionsInv'
<1>1. /\ UNCHANGED denied /\ Fits(r) /\ req[r].pc = "erased" /\ req[r].kind = "delete" /\ S!WaitsFor(r) = {}
      /\ req[r] \in S!RequestState
  BY DEF S!CommitDeletion, S!At, SessionsInv, S!TypeOK
<1>2. PICK u \in User : u = req[r].user /\ user[u].here /\ ~Changing(r)
  BY <1>1 DEF Fits, Stage, Linking, Changing
<1>3. user \in [User -> S!UserRow] /\ user[u] \in S!UserRow /\ session \in [Session -> S!SessionRow]
  BY DEF SessionsInv, S!TypeOK
<1> DEFINE next == user[u].era + 1
           row == [user[u] EXCEPT !.email = u, !.password = FALSE, !.verified = FALSE, !.mailed = FALSE,
                                  !.anonymous = TRUE, !.era = next, !.revived = FALSE]
<1>4. user' = [user EXCEPT ![u] = row]
  BY <1>2 DEF S!CommitDeletion, S!SoftDeleteUser
<1>5. user[u].era \in Nat /\ next \in Nat /\ user[u].era < next /\ user[u].era <= next
  BY <1>3 DEF S!UserRow
<1> HIDE DEF next
<1>6. row \in S!UserRow /\ row.here /\ row.email = u /\ row.anonymous /\ row.era = next
  <2>1. /\ row.here = user[u].here /\ row.email = u /\ row.password = FALSE /\ row.verified = FALSE
        /\ row.mailed = FALSE /\ row.anonymous = TRUE /\ row.era = next /\ row.revived = FALSE
    BY <1>3 DEF S!UserRow
  <2>2. row \in S!UserRow
    BY <1>3, <1>5 DEF S!UserRow
  <2> QED BY <1>2, <2>1, <2>2
<1> HIDE DEF row
<1>7. user' \in [User -> S!UserRow] /\ user'[u] = row /\ \A v \in User : v # u => user'[v] = user[v]
  BY <1>3, <1>4, <1>6
\* The session rows
<1>8. req[r].found \subseteq Session
      /\ session' = [s \in Session |-> IF s \in req[r].found THEN [session[s] EXCEPT !.state = "deleted"] ELSE session[s]]
  BY <1>1 DEF S!CommitDeletion, S!RequestState
<1>9. ASSUME NEW s \in Session, s \in req[r].found
      PROVE  /\ session'[s] \in S!SessionRow /\ session'[s].state = "deleted" /\ session[s].state # "none"
             /\ session'[s].user = session[s].user /\ session'[s].root = session[s].root
             /\ session'[s].era = session[s].era /\ session'[s].raced = session[s].raced
  <2>1. session'[s] = [session[s] EXCEPT !.state = "deleted"] /\ session[s] \in S!SessionRow
    BY <1>3, <1>8, <1>9
  <2>2. session[s].state # "none"
    BY <1>1, <1>9 DEF Fits, Sweeping
  <2> QED BY <2>1, <2>2 DEF S!SessionRow
<1>10. ASSUME NEW s \in Session, s \notin req[r].found PROVE session'[s] = session[s]
  BY <1>8, <1>10
<1>11. session' \in [Session -> S!SessionRow]
  <2>1. \A s \in Session : session'[s] \in S!SessionRow
    BY <1>3, <1>9, <1>10
  <2> QED BY <1>8, <2>1
\* The request
<1>12. /\ req' \in [Request -> S!RequestState] /\ Others(r)
       /\ req'[r].kind = "delete" /\ req'[r].pc = "deny" /\ req'[r].user = u
  <2>1. req' = [req EXCEPT ![r] = [S!Idle EXCEPT !.kind = "delete", !.pc = "deny", !.user = u]]
    BY <1>2 DEF S!CommitDeletion
  <2>2. "delete" \in S!Kinds /\ "deny" \in S!Places
    BY DEF S!Kinds, S!Places
  <2> QED BY <2>1, <2>2, MadeDoes
<1>13. Fits(r)'
  <2>1. Stage(req[r])'
    BY <1>12 DEF Stage
  <2> QED BY <1>6, <1>7, <1>12, <2>1, CalmFits DEF Calm
\* The link and the tokens
<1>14. link' = IF "link" \in req[r].drops THEN S!NoLink ELSE link
  BY DEF S!CommitDeletion
<1>15. /\ reset' \in [Token -> [state : {"none", "unused", "used", "deleted"}, user : User \cup {Null}]]
       /\ \A t \in Token : reset'[t] = reset[t] \/ (reset'[t].state = "deleted" /\ reset'[t].user = Null)
  <2> DEFINE gone == [S!NoToken EXCEPT !.state = "deleted"]
  <2>1. reset' = [t \in Token |-> IF t \in req[r].drops THEN gone ELSE reset[t]]
    BY DEF S!CommitDeletion
  <2>2. gone \in [state : {"none", "unused", "used", "deleted"}, user : User \cup {Null}]
        /\ gone.state = "deleted" /\ gone.user = Null
    BY DEF S!NoToken
  <2> HIDE DEF gone
  <2> QED BY <2>1, <2>2 DEF SessionsInv, S!TypeOK
<1>16. S!TypeOK'
  <2>1. link' \in [user : User \cup {Null}, raced : BOOLEAN]
    BY <1>14 DEF S!NoLink, SessionsInv, S!TypeOK
  <2> QED BY <1>1, <1>7, <1>11, <1>12, <1>15, <2>1 DEF SessionsInv, S!TypeOK
<1>17. UserStep(u)
  <2>1. UserFits(u)'
    BY <1>6, <1>7 DEF UserFits, SessionsSetting
  <2>2. S!HoldsUser(u) = {}
    BY <1>1, <1>2 DEF S!WaitsFor, S!At
  <2>3. S!Linking(u) = {}
    BY <2>2 DEF S!HoldsUser
  <2>4. ASSUME NEW q \in Request PROVE ~(Linking(q)' /\ req'[q].user = u)
    BY <1>12, <2>3, NoneLinks DEF Others, Linking
  <2>5. user'[u].here /\ user[u].era <= user'[u].era /\ user[u].era < user'[u].era
    BY <1>5, <1>6, <1>7
  <2> QED BY <2>1, <2>4, <2>5, Zenon DEF UserStep
<1>18. \A v \in User : UserStep(v)
  BY <1>7, <1>17, OtherUsers
<1>19. ASSUME NEW s \in Session PROVE SessionStep(s)
  <2>1. CASE s \in req[r].found
    <3>1. ASSUME NEW q \in Request, Rotating(q)', req'[q].row = s PROVE FALSE
      <4>1. q # r /\ Rotating(q) /\ req[q].row = s
        BY <1>12, <3>1 DEF Rotating, Others
      <4>2. Apart(q, r)
        BY <1>1, <4>1 DEF Fits
      <4> QED BY <1>1, <2>1, <4>1, <4>2 DEF Apart
    <3> QED BY <1>9, <2>1, <3>1 DEF SessionStep, Fades
  <2>2. CASE s \notin req[r].found
    BY <1>10, <2>2 DEF SessionStep, Fades
  <2> QED BY <2>1, <2>2
<1>20. LinkStep
  BY <1>14 DEF LinkStep
<1>21. LinksKnown'
  <2>1. link' # S!NoLink => link'.user \in User /\ user'[link'.user].here
    BY <1>14, <1>18 DEF SessionsInv, LinksKnown, UserStep
  <2>2. ASSUME NEW t \in Token
        PROVE  (reset[t].user \in User => user[reset[t].user].here)' /\ (reset[t].state = "unused" => reset[t].user \in User)'
    BY <1>15, <1>18 DEF SessionsInv, LinksKnown, UserStep, SessionsSetting
  <2> QED BY <2>1, <2>2 DEF LinksKnown
<1>22. S!LinksFollow'
  <2> SUFFICES ASSUME link' # S!NoLink, user'[link'.user].anonymous
               PROVE  link'.raced \/ user'[link'.user].revived
    BY DEF S!LinksFollow, S!NoLink
  <2>1. link' = link /\ "link" \notin req[r].drops /\ link.user \in User
    BY <1>14 DEF SessionsInv, LinksKnown
  <2>2. CASE link.user = u
    BY <1>1, <1>2, <2>1, <2>2 DEF Fits, Unlinking
  <2>3. CASE link.user # u
    BY <1>7, <2>1, <2>3 DEF SessionsInv, S!LinksFollow, S!NoLink
  <2> QED BY <2>2, <2>3
<1>23. S!OldSessionsEnd'
  <2>1. ASSUME NEW s \in Session, session'[s].state = "live", ~session'[s].raced
        PROVE  session'[s] = session[s] /\ user'[session[s].user].era = user[session[s].user].era
    <3>1. session'[s] = session[s] /\ s \notin req[r].found
      BY <1>9, <1>10, <2>1
    <3>2. session[s].user # u /\ session[s].user \in User
      BY <1>1, <1>2, <2>1, <3>1 DEF Fits, Sweeping, SessionsInv, SessionFits
    <3> QED BY <1>7, <3>1, <3>2
  <2> QED BY <1>2, <1>12, <2>1, OldSessionsStay
<1> QED BY <1>12, <1>13, <1>16, <1>18, <1>19, <1>20, <1>21, <1>22, <1>23, StepKeeps

(***************************************************************************)
(* Which steps begin sessions.                                             *)
(***************************************************************************)

\* A session that begins for a deleted user is told apart.
Barred(s) ==
    session[s].state = "none" /\ session'[s].state = "live" =>
        LET u == session'[s].user IN user[u].anonymous => session'[s].raced \/ user[u].revived

\* What a new session says is enough for that.
LEMMA NewBarred ==
  ASSUME SessionsInv, NEW f \in Session, NEW u \in User, NEW root \in Session, NEW era \in Nat, NEW raced \in BOOLEAN,
         Checked(u, era, raced), session'[f] = S!NewSession(u, root, era, raced)
  PROVE  Barred(f)
<1> DEFINE n == session'[f]
<1>1. /\ n.user = u
      /\ raced \/ era # user[u].era \/ S!Revoking(u) => n.raced
      /\ Checked(u, era, n.raced)
  BY NewSessionDoes
<1> HIDE DEF n
<1>2. user[u].anonymous => n.raced \/ user[u].revived
  BY <1>1 DEF Checked
<1> QED BY <1>1, <1>2 DEF Barred, n

\* Signing in begins one.
LEMMA WriteBarred ==
  ASSUME SessionsSetting, SessionsInv, NEW r \in Request, S!WriteSession(r)
  PROVE  \A s \in Session : Barred(s)
<1>1. /\ req[r].user \in User /\ Checked(req[r].user, req[r].era, FALSE) /\ req[r].era \in Nat
  BY DEF S!WriteSession, SessionsInv, Fits, Stage, S!TypeOK, S!RequestState
<1>2. PICK f \in Session : f = S!Min(S!Free)
  BY FreeSlot DEF S!WriteSession, S!Free
<1> DEFINE no == FALSE
           n == S!NewSession(req[r].user, f, req[r].era, no)
<1>3. session' = [session EXCEPT ![f] = n] /\ session \in [Session -> S!SessionRow]
  BY <1>2 DEF S!WriteSession, SessionsInv, S!TypeOK
<1>4. no \in BOOLEAN /\ Checked(req[r].user, req[r].era, no)
  BY <1>1
<1> HIDE DEF no
<1>5. session'[f] = n /\ \A s \in Session : s # f => session'[s] = session[s]
  BY <1>2, <1>3
<1>6. Barred(f)
  BY <1>1, <1>2, <1>4, <1>5, NewBarred
<1> QED BY <1>5, <1>6 DEF Barred

\* So does refreshing.
LEMMA RotateBarred ==
  ASSUME SessionsSetting, SessionsInv, NEW r \in Request, S!RotateSession(r)
  PROVE  \A s \in Session : Barred(s)
<1>1. PICK o \in Session : o = req[r].row /\ session[o].state = "live"
  BY DEF S!RotateSession, SessionsInv, Fits, Stage, Rotating
<1> DEFINE old == session[o]
<1>2. session \in [Session -> S!SessionRow] /\ SessionFits(o)
  BY <1>1 DEF SessionsInv, S!TypeOK
<1>3. PICK f \in Session : f = S!Min(S!Free) /\ session[f].state = "none"
  BY FreeSlot DEF S!RotateSession, S!Free
<1> DEFINE n == S!NewSession(old.user, old.root, old.era, old.raced)
<1>4. session' = [session EXCEPT ![o].state = "revoked", ![f] = n]
  BY <1>1, <1>3 DEF S!RotateSession
<1>5. /\ old.user \in User /\ old.root \in Session /\ old.era \in Nat /\ old.raced \in BOOLEAN
      /\ Checked(old.user, old.era, old.raced)
  BY <1>1, <1>2 DEF SessionFits, S!SessionRow
<1> HIDE DEF n
<1>6. session'[f] = n /\ \A s \in Session : s # f => session'[s] = session[s] \/ session[s].state = "live"
  BY <1>1, <1>2, <1>3, <1>4
<1>7. Barred(f)
  BY <1>3, <1>5, <1>6, NewBarred DEF n
<1> QED BY <1>6, <1>7 DEF Barred

\* All the others end sessions or leave them alone.
LEMMA EndsBarred ==
  ASSUME SessionsInv, NEW R \in SUBSET Request, NEW P \in SUBSET Session,
         \/ UNCHANGED session
         \/ session' = S!Revoked(P)
         \/ session' = S!Spared(R)
         \/ \E s \in Session : session' = [session EXCEPT ![s].state = "revoked"]
         \/ session' = [s \in Session |-> IF s \in P THEN [session[s] EXCEPT !.state = "deleted"] ELSE session[s]]
  PROVE  \A s \in Session : Barred(s)
<1>1. session \in [Session -> S!SessionRow]
  BY DEF SessionsInv, S!TypeOK
<1>2. CASE session' = S!Revoked(P)
  BY <1>2, RevokedDoes DEF Barred, Revokes
<1>3. CASE session' = S!Spared(R)
  BY <1>3, SparedDoes DEF Barred, Fades
<1>4. ASSUME NEW t \in Session, session' = [session EXCEPT ![t].state = "revoked"] PROVE \A s \in Session : Barred(s)
  <2>1. session'[t].state = "revoked" /\ \A s \in Session : s # t => session'[s] = session[s]
    BY <1>1, <1>4 DEF S!SessionRow
  <2> QED BY <2>1 DEF Barred
<1>5. CASE session' = [s \in Session |-> IF s \in P THEN [session[s] EXCEPT !.state = "deleted"] ELSE session[s]]
  <2> SUFFICES ASSUME NEW s \in Session PROVE Barred(s)
    OBVIOUS
  <2>1. CASE s \in P
    <3>1. session[s] \in S!SessionRow /\ session'[s] = [session[s] EXCEPT !.state = "deleted"]
      BY <1>1, <1>5, <2>1
    <3>2. session'[s].state = "deleted"
      BY <3>1 DEF S!SessionRow
    <3> QED BY <3>2 DEF Barred
  <2>2. CASE s \notin P
    BY <1>5, <2>2 DEF Barred
  <2> QED BY <2>1, <2>2
<1> QED BY <1>2, <1>3, <1>4, <1>5 DEF Barred

(***************************************************************************)
(* The invariant.                                                          *)
(***************************************************************************)

\* It holds before the first request.
LEMMA SessionsBegin == ASSUME SessionsSetting, S!Init PROVE SessionsInv
<1>1. /\ S!NoUser \in S!UserRow /\ S!NoSession \in S!SessionRow /\ S!Idle \in S!RequestState
      /\ ~S!NoUser.anonymous /\ S!NoSession.state = "none" /\ S!NoSession.user = Null
      /\ S!Idle.pc = "idle" /\ S!Idle.user = Null
  BY DEF S!NoUser, S!NoSession, S!Idle, S!UserRow, S!SessionRow, S!RequestState, S!Places
<1> DEFINE hers == [S!NoUser EXCEPT !.here = TRUE, !.email = Mine, !.password = TRUE, !.verified = TRUE]
           one == [S!NoSession EXCEPT !.state = "live", !.user = Owner, !.root = 1]
<1>2. hers \in S!UserRow /\ hers.here /\ ~hers.anonymous /\ hers.era = 0
  BY DEF S!NoUser, S!UserRow, SessionsSetting
<1>3. /\ one.state = "live" /\ one.user = Owner /\ one.root = 1 /\ one.era = 0
      /\ (1 \in Session => one \in S!SessionRow)
  BY DEF S!NoSession, S!SessionRow, SessionsSetting
<1>4. /\ user = [u \in User |-> IF u = Owner THEN hers ELSE S!NoUser]
      /\ session = [s \in Session |-> IF s = 1 THEN one ELSE S!NoSession]
      /\ req = [r \in Request |-> S!Idle] /\ denied = {}
  BY DEF S!Init
<1> HIDE DEF hers, one
<1>5. /\ link \in [user : User \cup {Null}, raced : BOOLEAN]
      /\ link # S!NoLink => link.user = Owner
  <2> DEFINE linked == [S!NoLink EXCEPT !.user = Owner]
  <2>1. link \in {S!NoLink, linked}
    BY DEF S!Init
  <2>2. /\ S!NoLink \in [user : User \cup {Null}, raced : BOOLEAN]
        /\ linked \in [user : User \cup {Null}, raced : BOOLEAN] /\ linked.user = Owner
    BY DEF S!NoLink, SessionsSetting
  <2> HIDE DEF linked
  <2> QED BY <2>1, <2>2
<1>6. /\ reset \in [Token -> [state : {"none", "unused", "used", "deleted"}, user : User \cup {Null}]]
      /\ \A t \in Token : reset[t].user \in {Owner, Null} /\ (reset[t].state = "unused" => reset[t].user = Owner)
  <2>1. [state |-> "unused", user |-> Owner] \in [state : {"none", "unused", "used", "deleted"}, user : User \cup {Null}]
        /\ S!NoToken \in [state : {"none", "unused", "used", "deleted"}, user : User \cup {Null}]
        /\ S!NoToken.state = "none" /\ S!NoToken.user = Null
    BY DEF S!NoToken, SessionsSetting
  <2> QED BY <2>1 DEF S!Init
<1>7. user \in [User -> S!UserRow] /\ session \in [Session -> S!SessionRow]
  BY <1>1, <1>2, <1>3, <1>4
<1>8. S!TypeOK
  BY <1>1, <1>4, <1>5, <1>6, <1>7 DEF S!TypeOK
<1>9. user[Owner] = hers /\ Owner \in User /\ Null \notin User
  BY <1>4 DEF SessionsSetting
<1>10. LinksKnown
  BY <1>2, <1>5, <1>6, <1>9 DEF LinksKnown
<1>11. \A u \in User : UserFits(u)
  BY <1>1, <1>2, <1>4 DEF UserFits
<1>12. ASSUME NEW s \in Session PROVE SessionFits(s)
  <2>1. CASE s = 1
    <3>1. session[s] = one
      BY <1>4, <2>1
    <3>2. Checked(Owner, 0, one.raced)
      BY <1>2, <1>9 DEF Checked
    <3> QED BY <1>2, <1>3, <1>9, <2>1, <3>1, <3>2 DEF SessionFits
  <2>2. CASE s # 1
    BY <1>1, <1>4, <1>9, <2>2 DEF SessionFits
  <2> QED BY <2>1, <2>2
<1>13. \A r \in Request : Fits(r)
  BY <1>1, <1>4, <1>9 DEF Fits, Stage, Linking, Unlinking, Rotating, Sweeping, Apart
<1>14. ASSUME NEW s \in Session, session[s].state = "live" PROVE s = 1 /\ session[s] = one
  BY <1>1, <1>4, <1>14
<1>15. S!OneLivePerSignIn /\ S!OldSessionsEnd
  BY <1>2, <1>3, <1>9, <1>14 DEF S!OneLivePerSignIn, S!OldSessionsEnd
<1>16. S!LinksFollow
  BY <1>2, <1>5, <1>9 DEF S!LinksFollow, S!NoLink
<1> QED BY <1>8, <1>10, <1>11, <1>12, <1>13, <1>15, <1>16 DEF SessionsInv

\* Every step keeps it.
LEMMA SessionsStep == ASSUME SessionsSetting, SessionsInv, [S!Next]_(S!vars) PROVE SessionsInv'
<1>1. ASSUME NEW r \in Request, S!SignIn(r) PROVE SessionsInv'
  BY <1>1, ChecksKeep, WriteKeeps, FindsUserKeeps, LinkKeeps, BeginsKeep, FindRotatedKeeps, RotateKeeps DEF S!SignIn
<1>2. ASSUME NEW r \in Request, S!Password(r) PROVE SessionsInv'
  BY <1>2, BeginsKeep, TokenKeeps, MarksKeep, FindsKeep, ResetKeeps, ChangeKeeps DEF S!Password
<1>3. ASSUME NEW r \in Request, S!SignOut(r) PROVE SessionsInv'
  BY <1>3, RevokeKeeps, FindsKeep, RevokeAllKeeps, DropsKeep, ErasesKeep, DeletionKeeps, TokenKeeps DEF S!SignOut
<1>4. ASSUME NEW r \in Request, S!Profile(r) PROVE SessionsInv'
  BY <1>4, RegisterKeeps, BeginsKeep, VerifyKeeps, EmailKeeps DEF S!Profile
<1>5. ASSUME UNCHANGED S!vars PROVE SessionsInv'
  <2>1. UNCHANGED <<user, session, link, reset, denied, req>>
    BY <1>5 DEF S!vars
  <2>2. S!TypeOK' /\ LinksKnown' /\ S!LinksFollow'
    BY <2>1 DEF SessionsInv, S!TypeOK, LinksKnown, S!LinksFollow, S!NoLink
  <2>3. (\A u \in User : UserFits(u))' /\ (\A s \in Session : SessionFits(s))'
    BY <2>1 DEF SessionsInv, UserFits, SessionFits, Checked, S!NoUser, S!NoSession
  <2>4. (\A r \in Request : Fits(r))'
    BY <2>1 DEF SessionsInv, Fits, Stage, Linking, Unlinking, Rotating, Sweeping, Apart, Checked
  <2>5. S!OneLivePerSignIn' /\ S!OldSessionsEnd'
    BY <2>1 DEF SessionsInv, S!OneLivePerSignIn, S!OldSessionsEnd
  <2> QED BY <2>2, <2>3, <2>4, <2>5 DEF SessionsInv
<1> QED BY <1>1, <1>2, <1>3, <1>4, <1>5, FailKeeps, RestartKeeps DEF S!Next

(* The inductive invariant of the rows that signing in is about: who       *)
(* rotates a session has it alone, who ends sessions has found all that    *)
(* are not told apart, and who signs in was checked at his password.       *)
THEOREM SessionsInductive == ASSUME SessionsSetting PROVE S!Spec => []SessionsInv
<1>1. S!Init => SessionsInv
  BY SessionsBegin
<1>2. SessionsInv /\ [S!Next]_(S!vars) => SessionsInv'
  BY SessionsStep
<1> QED BY <1>1, <1>2, PTL DEF S!Spec

(* A sign-in has one live session however often its token is redeemed; a   *)
(* new password and a deletion end those before; and no Google account     *)
(* stays linked to a deleted user, but for the named races.                *)
THEOREM SignInsKept ==
  ASSUME SessionsSetting
  PROVE  S!Spec => [](S!TypeOK /\ S!OneLivePerSignIn /\ S!OldSessionsEnd /\ S!LinksFollow)
<1>1. SessionsInv => S!TypeOK /\ S!OneLivePerSignIn /\ S!OldSessionsEnd /\ S!LinksFollow
  BY DEF SessionsInv
<1> QED BY <1>1, SessionsInductive, PTL

(* A session that begins for a deleted user's row was checked before the   *)
(* deletion, unless the row has been given an address again.               *)
THEOREM CannotSignInAgain == ASSUME SessionsSetting PROVE S!Spec => S!CannotSignInAgain
<1>1. ASSUME SessionsInv, S!Next PROVE \A s \in Session : Barred(s)
  <2>1. ASSUME NEW r \in Request, S!SignIn(r) PROVE \A s \in Session : Barred(s)
    <3>1. UNCHANGED session \/ S!WriteSession(r) \/ S!RotateSession(r)
      BY <2>1 DEF S!SignIn, S!GetUserByEmailForLogin, S!GetOAuthIdentityForUpdate, S!GetUserByEmailForUpdate,
         S!CreateOAuthUser, S!CreateOAuthIdentity, S!Refresh, S!FindRotated
    <3> QED BY <1>1, <3>1, WriteBarred, RotateBarred DEF Barred
  <2>2. ASSUME NEW r \in Request, S!Password(r) PROVE \A s \in Session : Barred(s)
    <3>1. UNCHANGED session \/ session' = S!Revoked(req[r].found)
      BY <2>2 DEF S!Password, S!GetPasswordResetTokenUser, S!ForgotPassword, S!CreatePasswordResetToken,
         S!UpdateUserPassword, S!MarkPasswordResetUsed, S!ResetRevokes, S!ResetPassword, S!SetHash,
         S!UpdateUserPasswordHash
    <3>2. req[r].found \in SUBSET Session
      BY <1>1 DEF SessionsInv, S!TypeOK, S!RequestState
    <3> QED BY <1>1, <3>1, <3>2, EndsBarred
  <2>3. ASSUME NEW r \in Request, S!SignOut(r) PROVE \A s \in Session : Barred(s)
    <3>1. \/ UNCHANGED session \/ session' = S!Revoked(req[r].found)
          \/ \E s \in Session : session' = [session EXCEPT ![s].state = "revoked"]
          \/ session' = [s \in Session |-> IF s \in req[r].found THEN [session[s] EXCEPT !.state = "deleted"] ELSE session[s]]
      BY <2>3 DEF S!SignOut, S!RevokeSession, S!FindSessions, S!RevokeAllUserSessions, S!DeleteUserOAuthIdentities,
         S!FindUserSessions, S!DeleteUserSessions, S!CommitDeletion, S!DenyUser
    <3>2. req[r].found \in SUBSET Session
      BY <1>1 DEF SessionsInv, S!TypeOK, S!RequestState
    <3> QED BY <1>1, <3>1, <3>2, EndsBarred
  <2>4. ASSUME NEW r \in Request, S!Profile(r) PROVE UNCHANGED session
    BY <2>4 DEF S!Profile, S!CreateUser, S!ResendVerification, S!GetEmailVerificationTokenUser, S!RevokeAllSessions,
       S!ChangePassword, S!DeleteAccount, S!UpdateMe, S!CreateEmailVerificationToken, S!VerifyEmail, S!UpdateUserEmail
  <2>5. ASSUME NEW R \in SUBSET Request, session' = S!Spared(R) PROVE \A s \in Session : Barred(s)
    BY <1>1, <2>5, EndsBarred
  <2>6. S!Restart => session' = S!Spared(Request)
    BY DEF S!Restart
  <2>7. ASSUME NEW r \in Request, S!Fail(r) PROVE session' = S!Spared({r})
    BY <2>7 DEF S!Fail
  <2> QED BY <1>1, <2>1, <2>2, <2>3, <2>4, <2>5, <2>6, <2>7 DEF S!Next, Barred
<1>2. SessionsInv /\ [S!Next]_(S!vars) => [\A s \in Session : Barred(s)]_(S!vars)
  BY <1>1
<1>3. S!Spec => [][\A s \in Session : Barred(s)]_(S!vars)
  BY <1>2, SessionsInductive, PTL DEF S!Spec
<1> QED BY <1>3 DEF S!CannotSignInAgain, Barred
=============================================================================
