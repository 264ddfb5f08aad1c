------------------------------- MODULE Recorder -------------------------------
(***************************************************************************)
(* node/modules/mine-recorder: the diary of the rounds.  For each miner    *)
(* and epoch the datastore holds a map of texts, to which every Record     *)
(* adds keys; Records of epochs ExpireEpoch behind the latest one are      *)
(* cleaned.  The goroutines of a round (mineOne's worker and its waiter,   *)
(* the loop, stragglers of earlier rounds) call Record without any order.  *)
(*                                                                         *)
(* A map is the set of its keys, a key named by the writer that records    *)
(* it.  Each call of the datastore is a step, and may fail, which ends the *)
(* Record; deleting the entries of one epoch is one step.  With the        *)
(* recorder disabled nothing is recorded.                                  *)
(***************************************************************************)
EXTENDS Integers

CONSTANTS
    Miners,
    MaxEpoch,           \* bound: epochs recorded
    Writers,            \* goroutines that record, each its own key ("start", "error" ...)
    ExpireEpoch,
    MaxRecordPerQuery

ASSUME RecorderAssumption ==
    /\ Miners # {}                  \* there is nothing to record otherwise
    /\ MaxEpoch \in Nat \ {0}
    /\ ExpireEpoch \in Nat \ {0}
    /\ MaxRecordPerQuery \in Nat

Epochs == 1 .. MaxEpoch
Entries == Miners \X Epochs
noMin == MaxEpoch + 1   \* the min-epoch key is not in the datastore
Mins == (1 - ExpireEpoch .. MaxEpoch - ExpireEpoch) \cup {noMin}

VARIABLES
    store,          \* the records in the datastore, {} for an absent one
    minEpoch,       \* the min-epoch key
    latest,         \* latestRecordEpoch, lost with the process
    call,           \* the Record call of each writer
    recorded,       \* history: the keys put into an entry that has not expired, but for
                    \*   those dropped by a put that was based on an older get
    newest,         \* history: the highest latestRecordEpoch there has ever been
    firstMin,       \* history: the first min-epoch
    late            \* history: entries put when they had already expired

histories == <<recorded, newest, firstMin, late>>
recorderVars == <<store, minEpoch, latest, call, histories>>

Call == [at : {"idle", "get", "put", "look", "lock", "min", "first", "delete"},
         entry : Entries, before : SUBSET Writers,
         epoch : Mins, deadline : Mins]         \* cleanBefore's loop variable and bound

RecorderTypeOK ==
    /\ store \in [Entries -> SUBSET Writers]
    /\ minEpoch \in Mins
    /\ latest \in 0 .. MaxEpoch
    /\ call \in [Writers -> Call]
    /\ recorded \in [Entries -> SUBSET Writers]
    /\ newest \in 0 .. MaxEpoch
    /\ firstMin \in Mins
    /\ late \subseteq Entries

NoCall == [at |-> "idle", entry |-> CHOOSE x \in Entries : TRUE, before |-> {}, epoch |-> noMin, deadline |-> noMin]

RecorderInit ==
    /\ store = [x \in Entries |-> {}]
    /\ minEpoch = noMin
    /\ latest = 0
    /\ call = [w \in Writers |-> NoCall]
    /\ recorded = [x \in Entries |-> {}]
    /\ newest = 0
    /\ firstMin = noMin
    /\ late = {}

Expired(x, e) == x[2] < e - ExpireEpoch

Return(w) == call' = [call EXCEPT ![w] = NoCall]

------------------------------------------------------------------------------
(* Record *)

Record(w, x) ==
    /\ call[w].at = "idle"
    /\ call' = [call EXCEPT ![w].at = "get", ![w].entry = x]
    /\ UNCHANGED <<store, minEpoch, latest, histories>>

Get(w) ==
    /\ call[w].at = "get"
    /\ call' = [call EXCEPT ![w].at = "put", ![w].before = store[call[w].entry]]
    /\ UNCHANGED <<store, minEpoch, latest, histories>>

CoverNothing(before, after) == after    \* mutant: the record is replaced

\* coverMap
CoverMap(before, after) == before \cup after

Put(w) ==
    LET c == call[w]
        x == c.entry
    IN
    /\ c.at = "put"
    /\ store' = [store EXCEPT ![x] = CoverMap(c.before, {w})]
    /\ call' = [call EXCEPT ![w].at = "look", ![w].before = {}]
    /\ IF Expired(x, newest)
       THEN late' = late \cup {x} /\ UNCHANGED recorded
       ELSE /\ recorded' = [recorded EXCEPT ![x] = (@ \ (store[x] \ c.before)) \cup {w}]
            /\ UNCHANGED late
    /\ UNCHANGED <<minEpoch, latest, newest, firstMin>>

------------------------------------------------------------------------------
(* cleanExpire and cleanBefore *)

\* latestRecordEpoch under the read lock,
Look(w) ==
    /\ call[w].at = "look"
    /\ IF call[w].entry[2] > latest THEN call' = [call EXCEPT ![w].at = "lock"] ELSE Return(w)
    /\ UNCHANGED <<store, minEpoch, latest, histories>>

Deadline(e) == e - ExpireEpoch

\* and again under the write lock: one caller per epoch cleans.
Lock(w) ==
    LET e == call[w].entry[2] IN
    /\ call[w].at = "lock"
    /\ IF e > latest
       THEN /\ latest' = e
            /\ newest' = IF e > newest THEN e ELSE newest
            /\ recorded' = [x \in Entries |-> IF Expired(x, newest') THEN {} ELSE recorded[x]]
            /\ call' = [call EXCEPT ![w].at = "min", ![w].deadline = Deadline(e)]
       ELSE Return(w) /\ UNCHANGED <<latest, newest, recorded>>
    /\ UNCHANGED <<store, minEpoch, firstMin, late>>

GetMin(w) ==
    LET c == call[w] IN
    /\ c.at = "min"
    /\ \/ /\ minEpoch = noMin
          /\ call' = [call EXCEPT ![w].at = "first"]
       \/ /\ minEpoch # noMin /\ c.deadline > minEpoch
          /\ call' = [call EXCEPT ![w].at = "delete", ![w].epoch = minEpoch]
       \/ /\ minEpoch # noMin /\ c.deadline <= minEpoch
          /\ Return(w)
    /\ UNCHANGED <<store, minEpoch, latest, histories>>

\* No min-epoch yet: it begins with this deadline and nothing is deleted.
FirstMin(w) ==
    /\ call[w].at = "first"
    /\ minEpoch' = call[w].deadline
    /\ firstMin' = IF firstMin = noMin \/ minEpoch' > firstMin THEN minEpoch' ELSE firstMin
    /\ Return(w)
    /\ UNCHANGED <<store, latest, recorded, newest, late>>

DeleteEpoch(w) ==
    LET c == call[w] IN
    /\ c.at = "delete"
    /\ c.epoch < c.deadline
    /\ store' = [x \in Entries |-> IF x[2] = c.epoch THEN {} ELSE store[x]]
    /\ call' = [call EXCEPT ![w].epoch = @ + 1]
    /\ late' = {x \in late : x[2] # c.epoch}
    /\ UNCHANGED <<minEpoch, latest, recorded, newest, firstMin>>

\* mutant: the min-epoch is put before the entries are deleted
PutMinEarly(w) ==
    /\ call[w].at = "delete"
    /\ minEpoch' = call[w].deadline
    /\ Return(w)
    /\ UNCHANGED <<store, latest, histories>>

PutMin(w) ==
    /\ call[w].at = "delete"
    /\ call[w].epoch = call[w].deadline
    /\ minEpoch' = call[w].deadline
    /\ Return(w)
    /\ UNCHANGED <<store, latest, histories>>

------------------------------------------------------------------------------
\* A call of the datastore fails: Record returns the error.
Fail(w) ==
    /\ call[w].at \in {"get", "put", "min", "first", "delete"}
    /\ Return(w)
    /\ UNCHANGED <<store, minEpoch, latest, histories>>

\* The process ends, at any step, and starts again on the same datastore.
Restart ==
    /\ latest' = 0
    /\ call' = [w \in Writers |-> NoCall]
    /\ UNCHANGED <<store, minEpoch, histories>>

\* Query: the epochs in [from, from + limit) that have a record; a limit of 0 is 1.
Query(m, from, limit) ==
    LET to == from + (IF limit = 0 THEN 1 ELSE limit) IN
    IF limit > MaxRecordPerQuery THEN {}
    ELSE {e \in Epochs : from <= e /\ e < to /\ store[<<m, e>>] # {}}

RecorderNext ==
    \/ \E w \in Writers :
          \/ \E x \in Entries : Record(w, x)
          \/ Get(w) \/ Put(w) \/ Look(w) \/ Lock(w)
          \/ GetMin(w) \/ FirstMin(w) \/ DeleteEpoch(w) \/ PutMin(w)
          \/ Fail(w)
    \/ Restart

RecorderSpec == RecorderInit /\ [][RecorderNext]_recorderVars

------------------------------------------------------------------------------
(* Properties *)

\* What was recorded can be queried until it expires, ExpireEpoch epochs behind the
\* latest record, also after a restart and beside any number of cleaners, unless two
\* Records of the same miner and epoch overlapped (mod.go:71).
KeptUntilExpired ==
    \A x \in Entries :
       /\ recorded[x] \subseteq store[x]
       /\ recorded[x] # {} => x[2] \in Query(x[1], x[2], 0)

\* Below the persisted min-epoch (mod.go:173) nothing is left, although cleaners may
\* overtake each other, fail or die half-way, except what was recorded too late or was
\* there, unseen, before the first min-epoch was put.
CleanBelowMin ==
    \A x \in Entries :
       minEpoch # noMin /\ x[2] < minEpoch /\ store[x] # {} => x \in late \/ x[2] < firstMin
==============================================================================
