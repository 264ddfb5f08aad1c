---------------------------- MODULE RecorderProofs ----------------------------
(***************************************************************************)
(* Proofs about Recorder, for any number of miners, epochs and writers and *)
(* any ExpireEpoch.                                                        *)
(***************************************************************************)
EXTENDS Recorder, TLAPS

Cleaning == {"min", "first", "delete"}

\* Cleaners, and the persisted min-epoch, stay ExpireEpoch behind the latest record.
Behind ==
    /\ minEpoch # noMin => minEpoch <= newest - ExpireEpoch
    /\ \A w \in Writers : call[w].at \in Cleaning =>
          call[w].deadline # noMin /\ call[w].deadline <= newest - ExpireEpoch
    /\ \A w \in Writers : call[w].at = "delete" =>
          call[w].epoch # noMin /\ call[w].epoch <= call[w].deadline

\* The history forgets what expires.
ExpiredForgotten == \A x \in Entries : Expired(x, newest) => recorded[x] = {}

Stored == \A x \in Entries : recorded[x] \subseteq store[x]

\* Nothing is deleted before there has been a first min-epoch.
FirstSet ==
    /\ minEpoch = noMin <=> firstMin = noMin
    /\ \A w \in Writers : call[w].at = "delete" => firstMin # noMin

\* Below e nothing is left but what was recorded too late or was never seen.
CleanBelow(e) == \A x \in Entries : x[2] < e /\ store[x] # {} => x \in late \/ x[2] < firstMin

\* What holds below the min-epoch holds below the epoch a cleaner has come to.
Swept ==
    /\ minEpoch # noMin => CleanBelow(minEpoch)
    /\ \A w \in Writers : call[w].at = "delete" => CleanBelow(call[w].epoch)

RecorderIInv == RecorderTypeOK /\ Behind /\ ExpiredForgotten /\ Stored /\ FirstSet /\ Swept

------------------------------------------------------------------------------
(* Type correctness *)

\* The call of a writer that has none.
LEMMA NoCallType == NoCall \in Call /\ NoCall.at = "idle"
<1>1. PICK m \in Miners : TRUE
  BY RecorderAssumption
<1>2. <<m, 1>> \in Entries
  BY RecorderAssumption DEF Entries, Epochs
<1>3. (CHOOSE x \in Entries : TRUE) \in Entries
  BY <1>2
<1>4. noMin \in Mins
  BY DEF Mins
<1> QED BY <1>3, <1>4 DEF NoCall, Call

\* The deadline of an epoch is a possible min-epoch.
LEMMA DeadlineType ==
    ASSUME NEW e \in Epochs
    PROVE  Deadline(e) \in Mins /\ Deadline(e) # noMin
  BY RecorderAssumption DEF Deadline, Mins, noMin, Epochs

\* So is the epoch after one that is still before a deadline.
LEMMA NextEpochType ==
    ASSUME NEW e \in Mins, NEW d \in Mins, e < d, d # noMin
    PROVE  e + 1 \in Mins /\ e + 1 # noMin /\ e + 1 <= d
  BY RecorderAssumption DEF Mins, noMin

\* The steps of one writer.
Step(w) ==
    \/ \E x \in Entries : Record(w, x)
    \/ Get(w) \/ Put(w) \/ Look(w) \/ Lock(w)
    \/ GetMin(w) \/ FirstMin(w) \/ DeleteEpoch(w) \/ PutMin(w)
    \/ Fail(w)

\* A writer's step changes its own call, to a call.
LEMMA OwnCall ==
    ASSUME RecorderTypeOK, Behind, NEW w \in Writers, Step(w)
    PROVE  call'[w] \in Call /\ call' = [call EXCEPT ![w] = call'[w]]
<1>a. call \in [Writers -> Call] /\ call[w] \in Call
  BY DEF RecorderTypeOK
<1>1. CASE Return(w)
  BY <1>1, <1>a, NoCallType, Zenon DEF Return
<1>2. ASSUME NEW x \in Entries, Record(w, x)
      PROVE  call'[w] \in Call /\ call' = [call EXCEPT ![w] = call'[w]]
  BY <1>2, <1>a, Zenon DEF Record, Call
<1>3. CASE Get(w)
  <2>1. store[call[w].entry] \in SUBSET Writers
    BY <1>a DEF RecorderTypeOK, Call
  <2> QED BY <1>3, <2>1, <1>a, Zenon DEF Get, Call
<1>4. CASE Put(w)
  BY <1>4, <1>a, Zenon DEF Put, Call
<1>5. ASSUME NEW s \in {"lock", "first"}, call' = [call EXCEPT ![w].at = s]
      PROVE  call'[w] \in Call /\ call' = [call EXCEPT ![w] = call'[w]]
  BY <1>5, <1>a, Zenon DEF Call
<1>6. CASE Lock(w) /\ ~Return(w)
  <2>1. Deadline(call[w].entry[2]) \in Mins
    BY <1>a, DeadlineType DEF Call, Entries
  <2>2. call' = [call EXCEPT ![w].at = "min", ![w].deadline = Deadline(call[w].entry[2])]
    BY <1>6 DEF Lock
  <2> QED BY <2>1, <2>2, <1>a, Zenon DEF Call
<1>7. CASE call' = [call EXCEPT ![w].at = "delete", ![w].epoch = minEpoch]
  BY <1>7, <1>a, Zenon DEF Call, RecorderTypeOK
<1>8. CASE DeleteEpoch(w)
  <2>1. call[w].epoch + 1 \in Mins
    BY <1>8, <1>a, NextEpochType DEF DeleteEpoch, Behind, Cleaning, Call
  <2> QED BY <1>8, <2>1, <1>a, Zenon DEF DeleteEpoch, Call
<1> QED BY <1>1, <1>2, <1>3, <1>4, <1>5, <1>6, <1>7, <1>8
    DEF Step, Look, Lock, GetMin, FirstMin, PutMin, Fail

\* The initial state is well formed.
LEMMA InitRecorderTypeOK == RecorderInit => RecorderTypeOK
  BY NoCallType, RecorderAssumption DEF RecorderInit, RecorderTypeOK, Mins, noMin

\* Every step of a writer, and a restart, keeps the types.
LEMMA NextRecorderTypeOK ==
    RecorderTypeOK /\ Behind /\ [RecorderNext]_recorderVars => RecorderTypeOK'
<1> SUFFICES ASSUME RecorderTypeOK, Behind, [RecorderNext]_recorderVars PROVE RecorderTypeOK'
  OBVIOUS
<1>1. ASSUME NEW w \in Writers, Step(w) PROVE RecorderTypeOK'
  <2>1. call' \in [Writers -> Call] /\ call[w] \in Call
    BY <1>1, OwnCall DEF RecorderTypeOK
  <2>2. call[w].entry \in Entries /\ call[w].entry[2] \in Epochs
    BY <2>1 DEF Call, Entries
  <2>3. CASE UNCHANGED <<store, minEpoch, latest, histories>>
    BY <2>1, <2>3 DEF RecorderTypeOK, histories
  <2>4. CASE Put(w)
    BY <2>1, <2>2, <2>4 DEF Put, RecorderTypeOK, Call, CoverMap
  <2>5. CASE Lock(w)
    <3>1. latest' \in 0 .. MaxEpoch /\ newest' \in 0 .. MaxEpoch
      BY <2>2, <2>5, RecorderAssumption DEF Lock, RecorderTypeOK, Epochs
    <3>2. recorded' \in [Entries -> SUBSET Writers]
      BY <2>5 DEF Lock, RecorderTypeOK
    <3> QED BY <2>1, <2>5, <3>1, <3>2 DEF Lock, RecorderTypeOK
  <2>6. CASE FirstMin(w) \/ PutMin(w)
    BY <2>1, <2>6 DEF FirstMin, PutMin, RecorderTypeOK, Call, histories
  <2>7. CASE DeleteEpoch(w)
    BY <2>1, <2>7 DEF DeleteEpoch, RecorderTypeOK
  <2> QED BY <1>1, <2>3, <2>4, <2>5, <2>6, <2>7 DEF Step, Record, Get, Look, GetMin, Fail
<1>2. CASE Restart
  BY <1>2, NoCallType, RecorderAssumption DEF Restart, RecorderTypeOK, histories
<1>3. CASE UNCHANGED recorderVars
  BY <1>3 DEF recorderVars, histories, RecorderTypeOK
<1> QED BY <1>1, <1>2, <1>3 DEF RecorderNext, Step

------------------------------------------------------------------------------
(* Cleaners stay behind *)

\* A step leaves its writer outside the cleaning, or is one of four.
LEMMA OwnFields ==
    ASSUME RecorderTypeOK, Behind, NEW w \in Writers, Step(w)
    PROVE  /\ \A v \in Writers \ {w} : call'[v] = call[v]
           /\ \/ call'[w].at \notin Cleaning
              \/ /\ Lock(w) /\ call[w].entry[2] > latest
                 /\ call'[w].at = "min" /\ call'[w].deadline = Deadline(call[w].entry[2])
              \/ /\ GetMin(w)
                 /\ call'[w].at = "first" /\ call'[w].deadline = call[w].deadline
              \/ /\ GetMin(w) /\ minEpoch # noMin /\ minEpoch < call[w].deadline
                 /\ call'[w].at = "delete" /\ call'[w].deadline = call[w].deadline
                 /\ call'[w].epoch = minEpoch
              \/ /\ DeleteEpoch(w)
                 /\ call'[w].at = "delete" /\ call'[w].deadline = call[w].deadline
                 /\ call'[w].epoch = call[w].epoch + 1
<1>a. call \in [Writers -> Call] /\ call[w] \in Call
  BY DEF RecorderTypeOK
<1>b. \A v \in Writers \ {w} : call'[v] = call[v]
  BY <1>a, OwnCall
<1>1. CASE Return(w)
  <2>1. call'[w].at = "idle"
    BY <1>1, <1>a, NoCallType DEF Return
  <2> QED BY <1>b, <2>1 DEF Cleaning
<1>2. CASE \E x \in Entries : Record(w, x)
  BY <1>2, <1>a, <1>b DEF Record, Cleaning
<1>3. CASE Get(w)
  <2>1. call'[w].at = "put"
    BY <1>3, <1>a DEF Get, Call
  <2> QED BY <1>b, <2>1 DEF Cleaning
<1>4. CASE Put(w)
  <2>1. call'[w].at = "look"
    BY <1>4, <1>a DEF Put, Call
  <2> QED BY <1>b, <2>1 DEF Cleaning
<1>5. CASE Look(w) /\ ~Return(w)
  <2>1. call'[w].at = "lock"
    BY <1>5, <1>a DEF Look, Call
  <2> QED BY <1>b, <2>1 DEF Cleaning
<1>6. CASE Lock(w) /\ ~Return(w)
  <2>1. /\ call[w].entry[2] > latest
        /\ call' = [call EXCEPT ![w].at = "min", ![w].deadline = Deadline(call[w].entry[2])]
    BY <1>6 DEF Lock
  <2>2. call'[w].at = "min" /\ call'[w].deadline = Deadline(call[w].entry[2])
    BY <2>1, <1>a, Zenon DEF Call
  <2> QED BY <1>6, <1>b, <2>1, <2>2
<1>7. CASE GetMin(w) /\ call' = [call EXCEPT ![w].at = "first"]
  BY <1>7, <1>a, <1>b DEF Call
<1>8. CASE GetMin(w) /\ ~Return(w) /\ ~(call' = [call EXCEPT ![w].at = "first"])
  <2>1. /\ call' = [call EXCEPT ![w].at = "delete", ![w].epoch = minEpoch]
        /\ minEpoch # noMin /\ call[w].deadline > minEpoch
    BY <1>8 DEF GetMin
  <2>2. /\ call'[w].at = "delete" /\ call'[w].deadline = call[w].deadline
        /\ call'[w].epoch = minEpoch
    BY <2>1, <1>a, Zenon DEF Call
  <2>3. minEpoch < call[w].deadline
    BY <2>1
  <2> QED BY <1>8, <1>b, <2>1, <2>2, <2>3
<1>9. CASE DeleteEpoch(w)
  <2>1. call[w].at = "delete" /\ call' = [call EXCEPT ![w].epoch = @ + 1]
    BY <1>9 DEF DeleteEpoch
  <2>2. /\ call'[w].at = "delete" /\ call'[w].deadline = call[w].deadline
        /\ call'[w].epoch = call[w].epoch + 1
    BY <2>1, <1>a DEF Call
  <2> QED BY <1>9, <1>b, <2>2
<1> QED BY <1>1, <1>2, <1>3, <1>4, <1>5, <1>6, <1>7, <1>8, <1>9 DEF Step, FirstMin, PutMin, Fail

\* newest never goes back, and the record that moves latest moves it too.
LEMMA NewestGrows ==
    ASSUME RecorderTypeOK, Behind, NEW w \in Writers, Step(w)
    PROVE  /\ newest' >= newest
           /\ Lock(w) /\ call[w].entry[2] > latest => call[w].entry[2] <= newest'
<1>1. call[w].entry[2] \in Epochs
  BY DEF RecorderTypeOK, Call, Entries
<1>2. CASE Lock(w)
  BY <1>1, <1>2, RecorderAssumption DEF Lock, RecorderTypeOK, Epochs
<1>3. CASE ~Lock(w)
  <2>1. newest' = newest
    BY <1>3 DEF Step, Record, Get, Put, Look, GetMin, FirstMin, DeleteEpoch, PutMin, Fail, histories
  <2> QED BY <1>3, <2>1 DEF RecorderTypeOK
<1> QED BY <1>2, <1>3

\* The cleaners and the min-epoch stay behind the latest record.
LEMMA NextBehind == RecorderTypeOK /\ Behind /\ [RecorderNext]_recorderVars => Behind'
<1> SUFFICES ASSUME RecorderTypeOK, Behind, [RecorderNext]_recorderVars PROVE Behind'
  OBVIOUS
<1>1. ASSUME NEW w \in Writers, Step(w) PROVE Behind'
  <2>1. /\ newest \in 0 .. MaxEpoch /\ newest' \in 0 .. MaxEpoch /\ newest' >= newest
        /\ minEpoch \in Mins
        /\ \A v \in Writers : call[v].deadline \in Mins /\ call[v].epoch \in Mins
    BY <1>1, NewestGrows, NextRecorderTypeOK DEF RecorderTypeOK, Call
  <2>2. call[w].entry[2] \in Epochs
    BY DEF RecorderTypeOK, Call, Entries
  <2>3. minEpoch' = minEpoch \/ (minEpoch' = call[w].deadline /\ call[w].at \in Cleaning)
    BY <1>1 DEF Step, Record, Get, Put, Look, Lock, GetMin, FirstMin, DeleteEpoch, PutMin, Fail,
        Cleaning
  <2>4. minEpoch' # noMin => minEpoch' <= newest' - ExpireEpoch
    BY <2>1, <2>3, RecorderAssumption DEF Behind, Mins, noMin
  <2>5. call'[w].at \in Cleaning =>
           call'[w].deadline # noMin /\ call'[w].deadline <= newest' - ExpireEpoch
    <3>1. CASE /\ Lock(w) /\ call[w].entry[2] > latest
               /\ call'[w].deadline = Deadline(call[w].entry[2])
      <4>1. call[w].entry[2] <= newest'
        BY <1>1, <3>1, NewestGrows
      <4>2. Deadline(call[w].entry[2]) # noMin
        BY <2>2, DeadlineType
      <4>3. Deadline(call[w].entry[2]) <= newest' - ExpireEpoch
        BY <2>1, <2>2, <4>1, RecorderAssumption DEF Deadline, Epochs
      <4> QED BY <3>1, <4>2, <4>3
    <3>2. CASE call[w].at \in Cleaning /\ call'[w].deadline = call[w].deadline
      BY <2>1, <3>2, RecorderAssumption DEF Behind, Mins, noMin
    <3> QED BY <1>1, <3>1, <3>2, OwnFields DEF GetMin, DeleteEpoch, Cleaning
  <2>6. call'[w].at = "delete" =>
           call'[w].epoch # noMin /\ call'[w].epoch <= call'[w].deadline
    <3>1. CASE GetMin(w) /\ minEpoch # noMin /\ minEpoch < call[w].deadline
               /\ call'[w].deadline = call[w].deadline /\ call'[w].epoch = minEpoch
      BY <2>1, <3>1, RecorderAssumption DEF Mins, noMin
    <3>2. CASE DeleteEpoch(w) /\ call'[w].deadline = call[w].deadline
               /\ call'[w].epoch = call[w].epoch + 1
      BY <2>1, <3>2, NextEpochType DEF DeleteEpoch, Behind, Cleaning
    <3> QED BY <1>1, <3>1, <3>2, OwnFields DEF Cleaning
  <2>7. ASSUME NEW v \in Writers \ {w}, call'[v].at \in Cleaning
        PROVE  call'[v].deadline # noMin /\ call'[v].deadline <= newest' - ExpireEpoch
    <3>1. call'[v] = call[v]
      BY <1>1, OwnFields
    <3> QED BY <2>1, <2>7, <3>1, RecorderAssumption DEF Behind, Mins, noMin
  <2>8. ASSUME NEW v \in Writers \ {w}, call'[v].at = "delete"
        PROVE  call'[v].epoch # noMin /\ call'[v].epoch <= call'[v].deadline
    BY <1>1, <2>8, OwnFields DEF Behind
  <2> QED BY <2>4, <2>5, <2>6, <2>7, <2>8 DEF Behind
<1>2. CASE Restart
  BY <1>2, NoCallType DEF Restart, Behind, histories, Cleaning
<1>3. CASE UNCHANGED recorderVars
  BY <1>3 DEF recorderVars, histories, Behind
<1> QED BY <1>1, <1>2, <1>3 DEF RecorderNext, Step

------------------------------------------------------------------------------
(* What is recorded is kept *)

\* An epoch below a cleaner's deadline has expired.
LEMMA DeletedExpired ==
    ASSUME RecorderTypeOK, Behind, NEW x \in Entries, NEW e \in Mins, e # noMin,
           e <= newest - ExpireEpoch, x[2] < e
    PROVE  Expired(x, newest)
<1>1. x[2] \in Epochs
  BY DEF Entries
<1> QED BY <1>1, RecorderAssumption DEF Expired, Epochs, Mins, noMin, RecorderTypeOK

\* The history forgets what expires, as soon as a Lock makes it expire.
LEMMA NextForgotten ==
    RecorderTypeOK /\ Behind /\ ExpiredForgotten /\ [RecorderNext]_recorderVars => ExpiredForgotten'
<1> SUFFICES ASSUME RecorderTypeOK, Behind, ExpiredForgotten, [RecorderNext]_recorderVars
             PROVE  ExpiredForgotten'
  OBVIOUS
<1>1. CASE UNCHANGED <<recorded, newest>>
  BY <1>1 DEF ExpiredForgotten, Expired
<1>2. ASSUME NEW w \in Writers, Put(w) PROVE ExpiredForgotten'
  <2>1. call[w].entry \in Entries
    BY DEF RecorderTypeOK, Call
  <2> QED BY <1>2, <2>1 DEF Put, ExpiredForgotten, Expired, RecorderTypeOK
<1>3. ASSUME NEW w \in Writers, Lock(w) PROVE ExpiredForgotten'
  BY <1>3 DEF Lock, ExpiredForgotten, Expired
<1> QED BY <1>1, <1>2, <1>3 DEF RecorderNext, Record, Get, Look, GetMin, FirstMin, DeleteEpoch,
        PutMin, Fail, Restart, recorderVars, histories

\* A put keeps what its own get has seen, and a cleaner deletes only what has expired.
LEMMA NextStored ==
    RecorderTypeOK /\ Behind /\ ExpiredForgotten /\ Stored /\ [RecorderNext]_recorderVars => Stored'
<1> SUFFICES ASSUME RecorderTypeOK, Behind, ExpiredForgotten, Stored, [RecorderNext]_recorderVars
             PROVE  Stored'
  OBVIOUS
<1>1. CASE UNCHANGED <<recorded, store>>
  BY <1>1 DEF Stored
<1>2. ASSUME NEW w \in Writers, Put(w) PROVE Stored'
  <2>1. call[w].entry \in Entries
    BY DEF RecorderTypeOK, Call
  <2>2. CASE Expired(call[w].entry, newest)
    BY <1>2, <2>1, <2>2 DEF Put, Stored, ExpiredForgotten, RecorderTypeOK
  <2>3. CASE ~Expired(call[w].entry, newest)
    BY <1>2, <2>1, <2>3 DEF Put, Stored, RecorderTypeOK, CoverMap
  <2> QED BY <2>2, <2>3
<1>3. ASSUME NEW w \in Writers, Lock(w) PROVE Stored'
  BY <1>3 DEF Lock, Stored, RecorderTypeOK
<1>4. ASSUME NEW w \in Writers, DeleteEpoch(w) PROVE Stored'
  <2>1. /\ call[w].deadline \in Mins /\ call[w].deadline # noMin
        /\ call[w].deadline <= newest - ExpireEpoch /\ call[w].epoch < call[w].deadline
    BY <1>4 DEF DeleteEpoch, Behind, Cleaning, RecorderTypeOK, Call
  <2>2. ASSUME NEW x \in Entries, x[2] = call[w].epoch PROVE recorded[x] = {}
    BY <2>1, <2>2, DeletedExpired DEF ExpiredForgotten
  <2> QED BY <1>4, <2>2 DEF DeleteEpoch, Stored, RecorderTypeOK
<1> QED BY <1>1, <1>2, <1>3, <1>4 DEF RecorderNext, Record, Get, Look, GetMin, FirstMin,
        PutMin, Fail, Restart, recorderVars, histories

------------------------------------------------------------------------------
(* Below the min-epoch *)

\* The first min-epoch and the min-epoch are put together.
LEMMA NextFirstSet ==
    RecorderTypeOK /\ Behind /\ FirstSet /\ [RecorderNext]_recorderVars => FirstSet'
<1> SUFFICES ASSUME RecorderTypeOK, Behind, FirstSet, [RecorderNext]_recorderVars PROVE FirstSet'
  OBVIOUS
<1>1. ASSUME NEW w \in Writers, Step(w) PROVE FirstSet'
  <2>1. CASE UNCHANGED <<minEpoch, firstMin>>
    <3>1. call'[w].at = "delete" => firstMin # noMin
      BY <1>1, OwnFields DEF FirstSet, DeleteEpoch, Cleaning
    <3> QED BY <1>1, <2>1, <3>1, OwnFields DEF FirstSet
  <2>2. CASE FirstMin(w)
    <3>1. minEpoch' # noMin /\ firstMin' # noMin
      BY <2>2 DEF FirstMin, Behind, Cleaning
    <3> QED BY <3>1 DEF FirstSet
  <2>3. CASE PutMin(w)
    <3>1. minEpoch' # noMin /\ firstMin' = firstMin /\ firstMin # noMin
      BY <2>3 DEF PutMin, Behind, Cleaning, FirstSet, histories
    <3> QED BY <3>1 DEF FirstSet
  <2> QED BY <1>1, <2>1, <2>2, <2>3
      DEF Step, Record, Get, Put, Look, Lock, GetMin, DeleteEpoch, Fail, histories
<1>2. CASE Restart
  BY <1>2, NoCallType DEF Restart, FirstSet, histories
<1>3. CASE UNCHANGED recorderVars
  BY <1>3 DEF recorderVars, histories, FirstSet
<1> QED BY <1>1, <1>2, <1>3 DEF RecorderNext, Step

\* Below e nothing is left after the step.
CleanNext(e) == \A x \in Entries : x[2] < e /\ store'[x] # {} => x \in late' \/ x[2] < firstMin'

\* What is clean below an expired epoch stays so, whoever records, deletes or begins.
LEMMA CleanStays ==
    ASSUME RecorderTypeOK, Behind, FirstSet, firstMin # noMin, NEW w \in Writers, Step(w),
           NEW e \in Mins, e # noMin, e <= newest - ExpireEpoch, CleanBelow(e)
    PROVE  CleanNext(e)
<1> SUFFICES ASSUME NEW x \in Entries, x[2] < e, store'[x] # {}
             PROVE  x \in late' \/ x[2] < firstMin'
  BY DEF CleanNext
<1>1. CASE UNCHANGED <<store, late, firstMin>>
  BY <1>1 DEF CleanBelow
<1>2. CASE Put(w)
  <2>1. Expired(x, newest)
    BY DeletedExpired
  <2>2. store'[x] = store[x] \/ x = call[w].entry
    BY <1>2 DEF Put, RecorderTypeOK
  <2> QED BY <1>2, <2>1, <2>2 DEF Put, CleanBelow
<1>3. CASE FirstMin(w)
  <2>1. firstMin \in Mins /\ minEpoch' \in Mins /\ x[2] \in Epochs
    BY <1>3 DEF FirstMin, RecorderTypeOK, Call, Entries
  <2>2. x[2] < firstMin => x[2] < firstMin'
    BY <1>3, <2>1, RecorderAssumption DEF FirstMin, Mins, noMin, Epochs
  <2> QED BY <1>3, <2>2 DEF FirstMin, CleanBelow
<1>4. CASE DeleteEpoch(w)
  BY <1>4 DEF DeleteEpoch, CleanBelow, RecorderTypeOK
<1> QED BY <1>1, <1>2, <1>3, <1>4
    DEF Step, Record, Get, Look, Lock, GetMin, PutMin, Fail, histories

\* A cleaner leaves every epoch it passes clean.
LEMMA NextSwept ==
    RecorderTypeOK /\ Behind /\ FirstSet /\ Swept /\ [RecorderNext]_recorderVars => Swept'
<1> SUFFICES ASSUME RecorderTypeOK, Behind, FirstSet, Swept,
    [RecorderNext]_recorderVars PROVE Swept'
  OBVIOUS
<1>1. ASSUME NEW w \in Writers, Step(w) PROVE Swept'
  <2>a. /\ minEpoch \in Mins /\ minEpoch' \in Mins /\ firstMin' \in Mins
        /\ \A v \in Writers : call[v].deadline \in Mins /\ call[v].epoch \in Mins
        /\ newest \in 0 .. MaxEpoch
        /\ \A x \in Entries : x[2] \in Epochs
    BY <1>1, NextRecorderTypeOK DEF RecorderTypeOK, Call, Entries
  <2>b. ASSUME NEW v \in Writers, call[v].at = "delete"
        PROVE  /\ firstMin # noMin /\ call[v].epoch # noMin /\ CleanBelow(call[v].epoch)
               /\ call[v].epoch <= newest - ExpireEpoch
    BY <2>a, <2>b, RecorderAssumption DEF Behind, Cleaning, FirstSet, Swept, Mins, noMin
  <2>1. minEpoch' # noMin => CleanNext(minEpoch')
    <3>1. CASE minEpoch' = minEpoch /\ minEpoch # noMin
      <4>1. firstMin # noMin /\ CleanBelow(minEpoch) /\ minEpoch <= newest - ExpireEpoch
        BY <3>1 DEF FirstSet, Swept, Behind
      <4>2. CleanNext(minEpoch)
        BY <1>1, <2>a, <3>1, <4>1, CleanStays
      <4> QED BY <3>1, <4>2
    <3>2. CASE FirstMin(w)
      <4>1. minEpoch' <= firstMin'
        BY <2>a, <3>2, RecorderAssumption DEF FirstMin, Mins, noMin
      <4> QED BY <2>a, <4>1, RecorderAssumption DEF CleanNext, Mins, noMin, Epochs
    <3>3. CASE PutMin(w)
      <4>1. /\ minEpoch' = call[w].epoch /\ UNCHANGED <<store, late, firstMin>>
            /\ call[w].at = "delete"
        BY <3>3 DEF PutMin, histories
      <4> QED BY <2>b, <4>1 DEF CleanBelow, CleanNext
    <3> QED BY <1>1, <3>1, <3>2, <3>3
        DEF Step, Record, Get, Put, Look, Lock, GetMin, DeleteEpoch, Fail
  <2>2. ASSUME NEW v \in Writers \ {w}, call'[v].at = "delete" PROVE CleanNext(call'[v].epoch)
    <3>1. call'[v] = call[v]
      BY <1>1, OwnFields
    <3>2. CleanNext(call[v].epoch)
      BY <1>1, <2>a, <2>b, <2>2, <3>1, CleanStays
    <3> QED BY <3>1, <3>2
  <2>3. ASSUME call'[w].at = "delete" PROVE CleanNext(call'[w].epoch)
    <3>1. CASE GetMin(w) /\ minEpoch # noMin /\ call'[w].epoch = minEpoch
      BY <3>1 DEF GetMin, histories, Swept, CleanBelow, CleanNext
    <3>2. CASE DeleteEpoch(w) /\ call'[w].epoch = call[w].epoch + 1
      <4>1. CleanNext(call[w].epoch)
        BY <1>1, <2>a, <2>b, <3>2, CleanStays DEF DeleteEpoch
      <4>2. ASSUME NEW x \in Entries, x[2] < call[w].epoch + 1, store'[x] # {}
            PROVE  x[2] < call[w].epoch
        <5>1. x[2] # call[w].epoch
          BY <3>2, <4>2 DEF DeleteEpoch
        <5>2. x[2] \in Int /\ call[w].epoch \in Int
          BY <2>a, RecorderAssumption DEF Mins, noMin, Epochs
        <5> QED BY <4>2, <5>1, <5>2
      <4> QED BY <3>2, <4>1, <4>2 DEF CleanNext
    <3> QED BY <1>1, <2>3, <3>1, <3>2, OwnFields DEF Cleaning
  <2> QED BY <2>1, <2>2, <2>3 DEF Swept, CleanBelow, CleanNext
<1>2. CASE Restart
  BY <1>2, NoCallType DEF Restart, Swept, CleanBelow, histories
<1>3. CASE UNCHANGED recorderVars
  BY <1>3 DEF recorderVars, histories, Swept, CleanBelow
<1> QED BY <1>1, <1>2, <1>3 DEF RecorderNext, Step

------------------------------------------------------------------------------
(* The theorems *)

\* The inductive invariant holds of an empty datastore.
LEMMA InitRecorderIInv == RecorderInit => RecorderIInv
  BY InitRecorderTypeOK, NoCallType
  DEF RecorderInit, RecorderIInv, Behind, Cleaning, ExpiredForgotten, Stored, FirstSet, Swept

\* Every step keeps it.
LEMMA NextRecorderIInv == RecorderIInv /\ [RecorderNext]_recorderVars => RecorderIInv'
  BY NextRecorderTypeOK, NextBehind, NextForgotten, NextStored, NextFirstSet, NextSwept
  DEF RecorderIInv

\* Type correctness of the datastore and of the Record calls; that a cleaner's epoch stays
\* in range needs Behind.
THEOREM RecorderTypeCorrect == RecorderSpec => []RecorderTypeOK
<1>1. RecorderIInv => RecorderTypeOK
  BY DEF RecorderIInv
<1> QED BY <1>1, InitRecorderIInv, NextRecorderIInv, PTL DEF RecorderSpec

\* What was recorded can be queried until it expires, for any number of writers, cleaners
\* and restarts.
THEOREM RecordsAreKept == RecorderSpec => []KeptUntilExpired
<1>1. RecorderIInv => KeptUntilExpired
  <2> SUFFICES ASSUME RecorderIInv, NEW x \in Entries
               PROVE  /\ recorded[x] \subseteq store[x]
                      /\ recorded[x] # {} => x[2] \in Query(x[1], x[2], 0)
    BY DEF KeptUntilExpired
  <2>1. recorded[x] \subseteq store[x]
    BY DEF RecorderIInv, Stored
  <2>2. x = <<x[1], x[2]>> /\ x[2] \in Epochs
    BY DEF Entries
  <2>3. x[2] \in Int /\ ~(0 > MaxRecordPerQuery)
    BY <2>2, RecorderAssumption DEF Epochs
  <2> QED BY <2>1, <2>2, <2>3 DEF Query
<1> QED BY <1>1, InitRecorderIInv, NextRecorderIInv, PTL DEF RecorderSpec

\* Below the persisted min-epoch nothing is left but what was recorded too late or was
\* there before the first min-epoch.
THEOREM BelowMinIsClean == RecorderSpec => []CleanBelowMin
<1>1. RecorderIInv => CleanBelowMin
  BY DEF RecorderIInv, Swept, CleanBelow, CleanBelowMin
<1> QED BY <1>1, InitRecorderIInv, NextRecorderIInv, PTL DEF RecorderSpec
==============================================================================
