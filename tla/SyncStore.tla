----------------------------- MODULE SyncStore -----------------------------
(***************************************************************************)
(* The encrypted copy of one user's on-device wallet (internal/syncstore): *)
(* a passphrase-wrapped data key replaced by compare-and-swap, and a log   *)
(* of records numbered by a per-user counter, which devices push to in     *)
(* batches and pull from by cursor.                                        *)
(*                                                                         *)
(* PushRecords and EraseUser run several statements in one READ COMMITTED  *)
(* transaction: each statement is an action, what it wrote is invisible    *)
(* until the commit, and the row locks it took make others wait.  The      *)
(* handlers for the key and for Changes run one statement each.            *)
(*                                                                         *)
(* Ciphertext, nonces and the byte quota are left out; a record is the     *)
(* sequence number of its last version.                                    *)
(***************************************************************************)
EXTENDS Integers, FiniteSets

CONSTANTS
    Device,      \* devices of the user, each with one push under way at most
    Id,          \* record ids
    MaxBatch,    \* maxBatch: records per POST
    MaxRecords,  \* maxRecords: per user
    PageSize,    \* limit of GET /sync/changes
    Nobody, Eraser,  \* who may hold the counter row besides a device
    MaxPushes, MaxErases, MaxVersion  \* bounds: requests sent, key changes

ASSUME SyncAssumption ==
    /\ IsFiniteSet(Device) /\ Device # {}
    /\ MaxBatch \in Nat \ {0}
    /\ PageSize \in Nat \ {0}
    /\ MaxRecords \in Nat /\ MaxPushes \in Nat
    /\ MaxErases \in Nat /\ MaxVersion \in Nat
    /\ Nobody \notin Device /\ Eraser \notin Device /\ Nobody # Eraser

None  == 0                              \* no row, no sequence number
NoKey == [version |-> 0, wraps |-> 0]   \* no sync_keys row

VARIABLES
    key,      \* sync_keys: its version and the data key it wraps
    counter,  \* sync_counters.next_seq as committed, None without a row
    records,  \* sync_records: [Id -> seq], None without a row
    locker,   \* the transaction that wrote the counter row and has not ended
    push,     \* [Device -> the PushRecords under way]
    erase,    \* the EraseUser under way
    seen,     \* [Device -> the key it fetched or stored last]
    cursor,   \* [Device -> next_seq of its last pull]
    copy,     \* [Device -> the record versions it pulled]
    dataKeys, \* how many data keys devices have made
    sent      \* how many pushes and erases were sent

logVars == <<counter, records, locker>>
keyVars == <<key, seen, dataKeys>>
devVars == <<cursor, copy>>
vars == <<key, counter, records, locker, push, erase, seen, cursor, copy, dataKeys, sent>>

Idle      == [pc |-> "idle", at |-> [i \in {} |-> 0], n |-> 0, first |-> 0]
IdleErase == [pc |-> "idle", rows |-> {}]

\* A batch of n records, as the place of the last record for each id in it
Batches == UNION {[S -> 0..(MaxBatch - 1)] : S \in SUBSET Id}
Fills(at, n) ==
    /\ \A i, j \in DOMAIN at : at[i] = at[j] => i = j
    /\ \A i \in DOMAIN at : at[i] < n
    /\ \E i \in DOMAIN at : at[i] = n - 1

Stored == {i \in Id : records[i] # None}

Init ==
    /\ key = NoKey
    /\ counter = None
    /\ records = [i \in Id |-> None]
    /\ locker = Nobody
    /\ push = [d \in Device |-> Idle]
    /\ erase = IdleErase
    /\ seen = [d \in Device |-> NoKey]
    /\ cursor = [d \in Device |-> 0]
    /\ copy = [d \in Device |-> [i \in Id |-> None]]
    /\ dataKeys = 0
    /\ sent = [pushes |-> 0, erases |-> 0]

-----------------------------------------------------------------------------
(***************************************************************************)
(* The key.  An eraser that deleted the row keeps it locked until it ends. *)
(***************************************************************************)
KeyLocked == erase.pc = "commit"

\* GetKey
GetKey(d) ==
    /\ key # NoKey
    /\ seen' = [seen EXCEPT ![d] = key]
    /\ UNCHANGED <<key, dataKeys, logVars, push, erase, devVars, sent>>

\* PutKey with expected_version 0: InsertSyncKey of a fresh data key
PutNewKey(d) ==
    /\ key = NoKey /\ ~KeyLocked
    /\ dataKeys <= MaxErases
    /\ dataKeys' = dataKeys + 1
    /\ key' = [version |-> 1, wraps |-> dataKeys']
    /\ seen' = [seen EXCEPT ![d] = key']
    /\ UNCHANGED <<logVars, push, erase, devVars, sent>>

\* UpdateSyncKey's WHERE; the broken variant does not compare versions.
AnyVersion(saw) == key # NoKey
StillCurrent(saw) == key # NoKey /\ key.version = saw.version

\* PutKey with the version the device saw: its data key under a new passphrase
ReplaceKey(d) ==
    /\ seen[d] # NoKey /\ StillCurrent(seen[d]) /\ ~KeyLocked
    /\ key.version < MaxVersion
    /\ key' = [version |-> key.version + 1, wraps |-> seen[d].wraps]
    /\ seen' = [seen EXCEPT ![d] = key']
    /\ UNCHANGED <<dataKeys, logVars, push, erase, devVars, sent>>

-----------------------------------------------------------------------------
(***************************************************************************)
(* PushRecords.                                                            *)
(***************************************************************************)
To(d, pc) == push' = [push EXCEPT ![d].pc = pc]

\* The check against SyncStatus; the broken variant forgets the batch.
RoomForOne(n) == Cardinality(Stored) < MaxRecords
Room(n) == Cardinality(Stored) + n <= MaxRecords

\* The request arrives and reads SyncStatus, outside its transaction.
StartPush(d) ==
    /\ push[d].pc = "idle"
    /\ sent.pushes < MaxPushes
    /\ \E n \in 1..MaxBatch, at \in Batches :
         /\ Fills(at, n) /\ Room(n)
         /\ push' = [push EXCEPT ![d] = [pc |-> "key", at |-> at, n |-> n, first |-> 0]]
    /\ sent' = [sent EXCEPT !.pushes = @ + 1]
    /\ UNCHANGED <<keyVars, logVars, erase, devVars>>

\* GetSyncKey, still outside the transaction
CheckKey(d) ==
    /\ push[d].pc = "key"
    /\ IF key = NoKey THEN push' = [push EXCEPT ![d] = Idle] ELSE To(d, "ensure")
    /\ UNCHANGED <<keyVars, logVars, erase, devVars, sent>>

\* EnsureSyncCounter: waits for whoever inserts or deletes the row
EnsureCounter(d) ==
    /\ push[d].pc = "ensure"
    /\ \/ counter # None /\ locker # Eraser /\ UNCHANGED locker
       \/ counter = None /\ locker = Nobody /\ locker' = d
    /\ To(d, "reserve")
    /\ UNCHANGED <<keyVars, counter, records, erase, devVars, sent>>

\* Whether ReserveSyncSeqs can update the row: it is d's own, or nobody holds
\* it.
Lockable(d) == locker \in {d, Nobody}

\* The first number reserved: next_seq, which DEFAULTs to 1
First == IF counter = None THEN 1 ELSE counter

\* ReserveSyncSeqs
ReserveSeqs(d) ==
    /\ push[d].pc = "reserve" /\ Lockable(d)
    /\ counter # None \/ locker = d
    /\ locker' = d
    /\ push' = [push EXCEPT ![d].pc = "write", ![d].first = First]
    /\ UNCHANGED <<keyVars, counter, records, erase, devVars, sent>>

\* UpsertSyncRecord, for each record of the batch
Upsert(d) ==
    /\ push[d].pc = "write"
    /\ DOMAIN push[d].at \cap erase.rows = {}
    /\ To(d, "commit")
    /\ UNCHANGED <<keyVars, logVars, erase, devVars, sent>>

\* next_seq after the push; the broken variant reserves one too few.
OneTooFew(p) == p.first + p.n - 1
NextSeq(p) == p.first + p.n

CommitPush(d) ==
    /\ push[d].pc = "commit"
    /\ records' = [i \in Id |-> IF i \in DOMAIN push[d].at
                                THEN push[d].first + push[d].at[i] ELSE records[i]]
    /\ counter' = NextSeq(push[d])
    /\ locker' = Nobody
    /\ push' = [push EXCEPT ![d] = Idle]
    /\ UNCHANGED <<keyVars, erase, devVars, sent>>

\* Rollback releases the counter row; the broken variant leaks its lock.
Leaked(who) == locker
Released(who) == IF locker = who THEN Nobody ELSE locker

\* A statement fails (ReserveSyncSeqs finds no row once an eraser committed):
\* the transaction is rolled back.
PushFails(d) ==
    /\ push[d].pc # "idle"
    /\ push' = [push EXCEPT ![d] = Idle]
    /\ locker' = Released(d)
    /\ UNCHANGED <<keyVars, counter, records, erase, devVars, sent>>

\* ReserveSyncSeqs updates no row, which ends the request with an error.
CounterGone(d) ==
    /\ push[d].pc = "reserve" /\ counter = None /\ locker # d
    /\ PushFails(d)

-----------------------------------------------------------------------------
(***************************************************************************)
(* EraseUser: Disable, and the same three statements in DeleteAccount.     *)
(***************************************************************************)
HeldByPushes == UNION {DOMAIN push[d].at : d \in {e \in Device : push[e].pc = "commit"}}

\* DeleteSyncRecords sees the rows committed when it starts ...
StartErase ==
    /\ erase.pc = "idle" /\ sent.erases < MaxErases
    /\ erase' = [pc |-> "records", rows |-> {}]
    /\ sent' = [sent EXCEPT !.erases = @ + 1]
    /\ UNCHANGED <<keyVars, logVars, push, devVars>>

\* ... and waits for those a push has rewritten.
EraseRecords ==
    /\ erase.pc = "records"
    /\ Stored \cap HeldByPushes = {}
    /\ erase' = [pc |-> "counter", rows |-> Stored]
    /\ UNCHANGED <<keyVars, logVars, push, devVars, sent>>

\* DeleteSyncCounter does not see a row that a push has inserted but not
\* committed, and waits for a row that a push has updated.
EraseCounter ==
    /\ erase.pc = "counter"
    /\ \/ counter = None /\ UNCHANGED locker
       \/ counter # None /\ locker = Nobody /\ locker' = Eraser
    /\ erase' = [erase EXCEPT !.pc = "key"]
    /\ UNCHANGED <<keyVars, counter, records, push, devVars, sent>>

EraseKey ==
    /\ erase.pc = "key"
    /\ erase' = [erase EXCEPT !.pc = "commit"]
    /\ UNCHANGED <<keyVars, logVars, push, devVars, sent>>

CommitErase ==
    /\ erase.pc = "commit"
    /\ records' = [i \in Id |-> IF i \in erase.rows THEN None ELSE records[i]]
    /\ counter' = IF locker = Eraser THEN None ELSE counter
    /\ key' = NoKey
    /\ locker' = Released(Eraser)
    /\ erase' = IdleErase
    /\ UNCHANGED <<seen, dataKeys, push, devVars, sent>>

EraseFails ==
    /\ erase.pc # "idle"
    /\ erase' = IdleErase
    /\ locker' = Released(Eraser)
    /\ UNCHANGED <<keyVars, counter, records, push, devVars, sent>>

\* The push waits for a row the eraser deleted, the eraser for the counter.
Deadlocked(d) ==
    /\ push[d].pc = "write" /\ DOMAIN push[d].at \cap erase.rows # {}
    /\ erase.pc = "counter" /\ counter # None /\ locker = d

\* PostgreSQL aborts one of the two.
BreakDeadlock == \E d \in Device : Deadlocked(d) /\ (PushFails(d) \/ EraseFails)

-----------------------------------------------------------------------------
(***************************************************************************)
(* Changes: one page of the records after the cursor, oldest first.        *)
(***************************************************************************)
After(d) == {i \in Id : records[i] > cursor[d]}

\* ListSyncChanges, a page in seq order; the broken variant has no ORDER BY.
Unordered(d, page) ==
    /\ Cardinality(page) <= PageSize
    /\ page # After(d) => Cardinality(page) = PageSize

IsPage(d, page) ==
    /\ Cardinality(page) <= PageSize
    /\ page # After(d) => Cardinality(page) = PageSize
    /\ \A i \in page, j \in After(d) \ page : records[i] <= records[j]

Changes(d) ==
    /\ \E page \in SUBSET After(d), last \in After(d) :
         /\ IsPage(d, page) /\ last \in page
         /\ \A i \in page : records[i] <= records[last]
         /\ cursor' = [cursor EXCEPT ![d] = records[last]]
         /\ copy' = [copy EXCEPT ![d] =
                       [i \in Id |-> IF i \in page THEN records[i] ELSE copy[d][i]]]
    /\ UNCHANGED <<keyVars, logVars, push, erase, sent>>

PushStep(d) == CheckKey(d) \/ EnsureCounter(d) \/ ReserveSeqs(d) \/ Upsert(d)
               \/ CommitPush(d) \/ CounterGone(d)
EraseStep == EraseRecords \/ EraseCounter \/ EraseKey \/ CommitErase

Next ==
    \/ \E d \in Device :
         \/ GetKey(d) \/ PutNewKey(d) \/ ReplaceKey(d)
         \/ StartPush(d) \/ PushStep(d) \/ PushFails(d)
         \/ Changes(d)
    \/ StartErase \/ EraseStep \/ EraseFails
    \/ BreakDeadlock

Spec == Init /\ [][Next]_vars

\* The server runs the requests it accepted, the database queues those that
\* wait for a row and aborts one of two that wait for each other.
Fairness ==
    /\ \A d \in Device : SF_vars(PushStep(d))
    /\ SF_vars(EraseStep)
    /\ WF_vars(BreakDeadlock)

FairSpec == Spec /\ Fairness

-----------------------------------------------------------------------------
\* Types; a reserved sequence number is never 0, the cursor devices start from.
TypeOK ==
    /\ key \in [version : Nat, wraps : Nat]
    /\ counter \in Nat
    /\ records \in [Id -> Nat]
    /\ locker \in Device \cup {Nobody, Eraser}
    /\ push \in [Device -> [pc : {"idle", "key", "ensure", "reserve", "write", "commit"},
                            at : Batches, n : 0..MaxBatch, first : Nat]]
    /\ \A d \in Device : push[d].pc \in {"write", "commit"} => push[d].first # None
    /\ erase \in [pc : {"idle", "records", "counter", "key", "commit"}, rows : SUBSET Id]
    /\ seen \in [Device -> [version : Nat, wraps : Nat]]
    /\ cursor \in [Device -> Nat]
    /\ copy \in [Device -> [Id -> Nat]]
    /\ dataKeys \in Nat
    /\ sent \in [pushes : Nat, erases : Nat]

\* Pulling "everything after N" misses nothing: a record numbered at or below a
\* device's cursor is one the device holds in that version.
NothingMissed ==
    \A d \in Device, i \in Id :
        records[i] # None /\ records[i] <= cursor[d] => copy[d][i] = records[i]

\* No two records share a sequence number: a page never ends between equals.
SeqsUnique ==
    \A i, j \in Id : records[i] # None /\ records[i] = records[j] => i = j

\* A new passphrase replaces the key its device saw, never one stored since.
ReplacesWhatItSaw ==
    [][\A d \in Device : ReplaceKey(d) => seen[d] = key]_vars

\* The checked quota is exceeded by what is under way at once, and no more.
QuotaOvershoot ==
    Cardinality(Stored) <= MaxRecords + (Cardinality(Device) - 1) * MaxBatch

\* Disable erases the whole encrypted copy: without a key there are no records.
ErasedIsEmpty == key = NoKey => Stored = {}

\* Every push and every erase ends, also when they wait for each other's rows.
EveryRequestSettles ==
    /\ \A d \in Device : push[d].pc # "idle" ~> push[d].pc = "idle"
    /\ erase.pc # "idle" ~> erase.pc = "idle"
=============================================================================
