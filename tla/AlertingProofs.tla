---------------------------- MODULE AlertingProofs ----------------------------
(***************************************************************************)
(* Proofs about the journal and the alerts, for any number of callers,     *)
(* events and rolled files, every capacity of the channel and size of a    *)
(* file, and every fault of the file system.                               *)
(***************************************************************************)
EXTENDS Alerting, FiniteSetTheorems, TLAPS

------------------------------------------------------------------------------
(* Sequences of events *)

Ascending(q) == \A i, j \in DOMAIN q : i < j => q[i] < q[j]
Precedes(q, r) == \A i \in DOMAIN q, j \in DOMAIN r : q[i] < r[j]
Under(q, n) == \A i \in DOMAIN q : q[i] < n
Above(n, q) == \A i \in DOMAIN q : n < q[i]

\* What an event appended to a sequence adds to it.
LEMMA Appended ==
    ASSUME NEW S \in SUBSET Nat, NEW q \in Seq(S), NEW n \in S
    PROVE  /\ Append(q, n) \in Seq(S)
           /\ Len(Append(q, n)) = Len(q) + 1
           /\ \A i \in DOMAIN Append(q, n) :
                 \/ i = Len(q) + 1 /\ Append(q, n)[i] = n
                 \/ i \in DOMAIN q /\ i < Len(q) + 1 /\ Append(q, n)[i] = q[i]
           /\ \A i \in DOMAIN q : i \in DOMAIN Append(q, n) /\ Append(q, n)[i] = q[i]
           /\ Len(q) + 1 \in DOMAIN Append(q, n) /\ Append(q, n)[Len(q) + 1] = n
  OBVIOUS

\* What is left of a sequence when its first event is received.
LEMMA Received ==
    ASSUME NEW S \in SUBSET Nat, NEW q \in Seq(S), q # <<>>
    PROVE  /\ Head(q) \in S /\ Head(q) = q[1] /\ 1 \in DOMAIN q
           /\ Tail(q) \in Seq(S) /\ Len(Tail(q)) = Len(q) - 1
           /\ \A i \in DOMAIN Tail(q) : i + 1 \in DOMAIN q /\ 1 < i + 1 /\ Tail(q)[i] = q[i + 1]
           /\ \A i \in DOMAIN q : i = 1 \/ (i - 1 \in DOMAIN Tail(q) /\ Tail(q)[i - 1] = q[i])
  OBVIOUS

\* A newer event keeps a sequence in order.
LEMMA AppendedInOrder ==
    ASSUME NEW S \in SUBSET Nat, NEW q \in Seq(S), NEW n \in S, Ascending(q), Under(q, n)
    PROVE  Ascending(Append(q, n)) /\ Under(Append(q, n), n + 1)
<1> DEFINE r == Append(q, n)
<1>1. \A i \in DOMAIN r : \/ i = Len(q) + 1 /\ r[i] = n
                          \/ i \in DOMAIN q /\ i < Len(q) + 1 /\ r[i] = q[i]
  BY Appended
<1>2. Len(q) \in Nat /\ n \in Nat /\ \A i \in DOMAIN q : i \in Nat /\ q[i] \in Nat
  <2>1. Len(q) \in Nat /\ \A i \in DOMAIN q : i \in Nat
    OBVIOUS
  <2>2. \A i \in DOMAIN q : q[i] \in S
    OBVIOUS
  <2>3. \A x \in S : x \in Nat
    OBVIOUS
  <2> QED BY <2>1, <2>2, <2>3
<1> HIDE DEF r
<1>3. Ascending(r)
  BY <1>1, <1>2 DEF Ascending, Under
<1>4. Under(r, n + 1)
  BY <1>1, <1>2 DEF Under
<1> QED BY <1>3, <1>4 DEF r

\* And so does the loss of the first.
LEMMA ReceivedInOrder ==
    ASSUME NEW S \in SUBSET Nat, NEW q \in Seq(S), q # <<>>, Ascending(q)
    PROVE  Ascending(Tail(q)) /\ Above(Head(q), Tail(q))
<1> DEFINE r == Tail(q)
<1>1. /\ Head(q) = q[1] /\ 1 \in DOMAIN q
      /\ \A i \in DOMAIN r : i \in Nat /\ i + 1 \in DOMAIN q /\ 1 < i + 1 /\ r[i] = q[i + 1]
  BY Received
<1> HIDE DEF r
<1>2. Ascending(r)
  BY <1>1 DEF Ascending
<1>3. Above(Head(q), r)
  BY <1>1 DEF Ascending, Above
<1> QED BY <1>2, <1>3 DEF r

------------------------------------------------------------------------------
(* The invariants *)

\* Where runLoop is tells what it holds; without a fault the file is open whenever an
\* event is to be written, and empty whenever it is to be created.
Places ==
    /\ writing # noEvent <=> loop = "write"
    /\ fi => /\ exists /\ loop \in {"select", "write"}
             /\ fSize < SizeLimit /\ Len(current) = fSize
    /\ ~exists => current = <<>>
    /\ ~failed /\ loop \in {"select", "write"} => fi
    /\ ~failed /\ loop = "create" => current = <<>>

Waiting == {c \in Callers : sending[c] # noCall}

\* The callers in a select have their number reserved.
Budget == next + Cardinality(Waiting) <= MaxEvents + 1

\* The files are in order, and the clock has not reached the names that are free.
FilesInOrder ==
    /\ \A s \in Seconds : Ascending(rolled[s]) /\ Precedes(rolled[s], current)
    /\ \A s \in Seconds : s > second => rolled[s] = <<>>
    /\ \A r, s \in Seconds : r < s => Precedes(rolled[r], rolled[s])
    /\ Ascending(current)

Older(q) ==
    Under(q, next) /\ Precedes(q, incoming) /\ (writing # noEvent => Under(q, writing))

\* What is on its way is newer than the files.
WayInOrder ==
    /\ Ascending(incoming) /\ Under(incoming, next)
    /\ writing # noEvent => writing < next /\ Above(writing, incoming)
    /\ \A s \in Seconds : Older(rolled[s])
    /\ Older(current)

\* The places where an event can be.
Somewhere(e) ==
    \/ e \in ended
    \/ \E s \in Seconds : \E i \in DOMAIN rolled[s] : rolled[s][i] = e
    \/ \E i \in DOMAIN current : current[i] = e
    \/ e = writing
    \/ \E i \in DOMAIN incoming : incoming[i] = e

NoneLost == ~failed /\ ~clashed => \A e \in 1 .. next - 1 : Somewhere(e)

JournalIInv ==
    JournalTypeOK /\ Places /\ Budget /\ FilesInOrder /\ WayInOrder /\ NoneLost

\* A step of the alerts, as the journal sees it.
JournalNext ==
    \/ \E c \in Callers, t \in Types, kind \in Kinds : RecordEvent(c, t, kind)
    \/ JournalRuns
    \/ Exit

------------------------------------------------------------------------------
(* Type correctness of the journal *)

\* A call is not the absence of one.
LEMMA CallIsNone ==
    ASSUME NEW t, NEW k PROVE [type |-> t, kind |-> k] # noCall
<1>1. DOMAIN [type |-> t, kind |-> k] # DOMAIN noCall
  BY DEF noCall
<1> QED BY <1>1

\* What a step does to the callers in a select.
LEMMA WaitingChanges ==
    ASSUME JournalTypeOK, Budget, NEW c \in Callers
    PROVE  /\ IsFiniteSet(Waiting) /\ Cardinality(Waiting) \in Nat
           /\ c \in Waiting => Cardinality(Waiting \ {c}) = Cardinality(Waiting) - 1
           /\ c \notin Waiting => Cardinality(Waiting \cup {c}) = Cardinality(Waiting) + 1
<1>1. IsFiniteSet(Waiting)
  BY JournalAssumption, FS_Subset DEF Waiting
<1> QED BY <1>1, FS_CardinalityType, FS_AddElement, FS_RemoveElement

\* A caller in the select finds a number left for its event.
LEMMA SentIsEvent ==
    ASSUME JournalTypeOK, Budget, NEW c \in Callers, Send(c)
    PROVE  next \in Events
<1>1. c \in Waiting
  BY DEF Send, Waiting
<1>2. /\ Cardinality(Waiting) \in Nat
      /\ Cardinality(Waiting \ {c}) = Cardinality(Waiting) - 1
      /\ Cardinality(Waiting \ {c}) \in Nat
  BY <1>1, WaitingChanges, FS_CardinalityType, FS_RemoveElement
<1>3. next \in Nat /\ next >= 1 /\ MaxEvents \in Nat
  BY JournalAssumption DEF JournalTypeOK
<1> QED BY <1>2, <1>3 DEF Budget, Events

\* The types of the journal's variables.
LEMMA NextJournalTypes ==
    ASSUME JournalTypeOK, Places, Budget, JournalNext
    PROVE  JournalTypeOK'
<1>0. /\ Events \subseteq Nat /\ noEvent = 0 /\ SizeLimit \in Nat /\ MaxSecond \in Nat
      /\ MaxEvents \in Nat /\ Capacity \in Nat
  BY JournalAssumption DEF Events, noEvent
<1>1. ASSUME NEW c \in Callers, NEW t \in Types, NEW k \in Kinds, RecordEvent(c, t, k)
      PROVE  JournalTypeOK'
  BY <1>1 DEF RecordEvent, handle, files, trail, JournalTypeOK, Calls
<1>2. ASSUME NEW c \in Callers, Send(c) PROVE JournalTypeOK'
  <2>1. next \in Events /\ next' \in 1 .. MaxEvents + 1
    <3>1. next \in Events /\ next' = next + 1
      BY <1>2, SentIsEvent DEF Send
    <3> QED BY <1>0, <3>1 DEF Events
  <2>2. incoming' \in Seq(Events) /\ Len(incoming') <= Capacity
    BY <1>0, <1>2, <2>1, Appended DEF Send, JournalTypeOK
  <2>3. sending' \in [Callers -> Calls \cup {noCall}]
    BY <1>2 DEF Send, JournalTypeOK
  <2> QED BY <1>2, <2>1, <2>2, <2>3 DEF Send, handle, files, trail, JournalTypeOK
<1>3. ASSUME NEW c \in Callers, Drop(c) PROVE JournalTypeOK'
  BY <1>3 DEF Drop, handle, files, trail, JournalTypeOK
<1>4. CASE Receive
  <2>1. writing' \in Events /\ incoming' \in Seq(Events) /\ Len(incoming') <= Capacity
    BY <1>0, <1>4, Received DEF Receive, JournalTypeOK
  <2> QED BY <1>4, <2>1 DEF Receive, handle, files, trail, JournalTypeOK
<1>5. CASE Write
  <2>1. writing \in Events /\ fSize < SizeLimit /\ Len(current) = fSize
    BY <1>5 DEF Write, Places, JournalTypeOK
  <2>2. current' \in Seq(Events) /\ Len(current') <= SizeLimit
    BY <1>0, <1>5, <2>1, Appended DEF Write, JournalTypeOK
  <2>3. fSize' \in 0 .. SizeLimit
    BY <1>0, <1>5, <2>1 DEF Write, JournalTypeOK
  <2>4. loop' \in {"stat", "select"} /\ fi' \in BOOLEAN
    BY <1>5 DEF Write, Full
  <2> QED BY <1>5, <2>2, <2>3, <2>4 DEF Write, trail, JournalTypeOK
<1>6. CASE WriteFails
  BY <1>6 DEF WriteFails, Fails, handle, files, JournalTypeOK
<1>7. CASE LoopCloses
  <2>1. ended' \subseteq Events
    BY <1>7 DEF LoopCloses, JournalTypeOK, ToSet
  <2> QED BY <1>7, <2>1 DEF LoopCloses, files, JournalTypeOK
<1>8. CASE Stat
  BY <1>8 DEF Stat, Rolling, Fails, handle, files, JournalTypeOK
<1>9. CASE Rename
  <2>1. rolled' \in [Seconds -> Seq(Events)] /\ clashed' \in BOOLEAN
    BY <1>9 DEF Rename, RollTo, JournalTypeOK
  <2>2. current' \in Seq(Events) /\ Len(current') <= SizeLimit
    BY <1>0, <1>9 DEF Rename
  <2> QED BY <1>9, <2>1, <2>2 DEF Rename, Rolling, handle, JournalTypeOK
<1>10. CASE Create
  <2>1. current' \in Seq(Events) /\ Len(current') <= SizeLimit /\ fSize' \in 0 .. SizeLimit
    BY <1>0, <1>10 DEF Create
  <2> QED BY <1>10, <2>1 DEF Create, Rolling, JournalTypeOK
<1>11. CASE RollFails
  BY <1>11 DEF RollFails, Rolling, Fails, handle, files, JournalTypeOK
<1>12. CASE OpenFSJournal \/ Close
  <2>1. CASE OpenFSJournal
    BY <2>1 DEF OpenFSJournal, handle, files, trail, JournalTypeOK
  <2>2. CASE Close
    BY <2>2 DEF Close, handle, files, trail, JournalTypeOK
  <2> QED BY <1>12, <2>1, <2>2
<1>13. CASE Tick
  <2>1. second' \in Seconds
    BY <1>0, <1>13 DEF Tick, JournalTypeOK, Seconds
  <2> QED BY <1>13, <2>1 DEF Tick, handle, files, trail, JournalTypeOK
<1>14. CASE Exit
  <2>1. ended' \subseteq Events
    BY <1>14 DEF Exit, JournalTypeOK, ToSet
  <2>2. incoming' \in Seq(Events) /\ Len(incoming') <= Capacity /\ fSize' \in 0 .. SizeLimit
    BY <1>0, <1>14 DEF Exit
  <2>3. sending' \in [Callers -> Calls \cup {noCall}]
    BY <1>14 DEF Exit
  <2> QED BY <1>14, <2>1, <2>2, <2>3 DEF Exit, files, JournalTypeOK
<1> QED BY <1>1, <1>2, <1>3, <1>4, <1>5, <1>6, <1>7, <1>8, <1>9, <1>10, <1>11, <1>12, <1>13, <1>14
    DEF JournalNext, JournalRuns

\* runLoop and rollJournalFile, step by step.
LEMMA NextPlaces ==
    ASSUME JournalTypeOK, Places, JournalNext
    PROVE  Places'
<1>0. Events \subseteq Nat \ {0} /\ noEvent = 0 /\ SizeLimit \in Nat \ {0}
  BY JournalAssumption DEF Events, noEvent
<1>1. CASE UNCHANGED <<loop, writing, fi, fSize, current, exists, failed>>
  BY <1>1 DEF Places
<1>2. CASE \/ \E c \in Callers, t \in Types, kind \in Kinds : RecordEvent(c, t, kind)
           \/ \E c \in Callers : Send(c) \/ Drop(c)
           \/ Close \/ Tick
  BY <1>1, <1>2 DEF RecordEvent, Send, Drop, Close, Tick, handle, files, trail
<1>3. CASE Receive
  <2>1. writing' # noEvent
    BY <1>0, <1>3, Received DEF Receive, JournalTypeOK
  <2> QED BY <1>3, <2>1 DEF Receive, Places, handle, files, trail
<1>4. CASE Write
  <2>1. fi /\ exists /\ fSize < SizeLimit /\ Len(current) = fSize /\ writing \in Events
        /\ fSize \in Nat /\ current \in Seq(Events)
    BY <1>4 DEF Write, Places, JournalTypeOK
  <2>2. Len(current') = fSize'
    BY <1>0, <1>4, <2>1, Appended DEF Write
  <2>3. fSize' \in Nat
    BY <1>4, <2>1 DEF Write
  <2>4. CASE Full(fSize')
    BY <1>4, <2>1, <2>4 DEF Write, Places, trail
  <2>5. CASE ~Full(fSize')
    <3>1. fSize' < SizeLimit
      BY <1>0, <2>3, <2>5 DEF Full
    <3> QED BY <1>4, <2>1, <2>2, <2>5, <3>1 DEF Write, Places, trail
  <2> QED BY <2>4, <2>5
<1>5. CASE WriteFails
  BY <1>5 DEF WriteFails, Fails, Places, handle, files, JournalTypeOK
<1>6. CASE LoopCloses
  BY <1>6 DEF LoopCloses, Places, files
<1>7. CASE Stat
  BY <1>7 DEF Stat, Rolling, Fails, Places, handle, files
<1>8. CASE Rename
  BY <1>8 DEF Rename, Rolling, Places, handle
<1>9. CASE Create
  BY <1>0, <1>9 DEF Create, Rolling, Places
<1>10. CASE RollFails
  BY <1>10 DEF RollFails, Rolling, Fails, Places, handle, files
<1>11. CASE OpenFSJournal
  BY <1>11 DEF OpenFSJournal, Places, handle, files, trail
<1>12. CASE Exit
  BY <1>12 DEF Exit, Places, files
<1> QED BY <1>2, <1>3, <1>4, <1>5, <1>6, <1>7, <1>8, <1>9, <1>10, <1>11, <1>12
    DEF JournalNext, JournalRuns

\* A number is reserved before the select and used or given back by it.
LEMMA NextBudget ==
    ASSUME JournalTypeOK, Budget, JournalNext
    PROVE  Budget'
<1>0. MaxEvents \in Nat /\ next \in Nat
  BY JournalAssumption DEF JournalTypeOK
<1>1. CASE UNCHANGED <<next, sending>>
  BY <1>1 DEF Budget, Waiting
<1>2. ASSUME NEW c \in Callers, NEW t \in Types, NEW k \in Kinds, RecordEvent(c, t, k)
      PROVE  Budget'
  <2>1. c \notin Waiting /\ next + Cardinality(Waiting) <= MaxEvents /\ next' = next
    BY <1>2 DEF RecordEvent, Waiting
  <2>2. Waiting' = Waiting \cup {c}
    BY <1>2, CallIsNone DEF RecordEvent, Waiting, JournalTypeOK
  <2>3. Cardinality(Waiting) \in Nat /\ Cardinality(Waiting)' = Cardinality(Waiting) + 1
    BY <2>1, <2>2, WaitingChanges
  <2> QED BY <1>0, <2>1, <2>3 DEF Budget
<1>3. ASSUME NEW c \in Callers, Send(c) \/ Drop(c)
      PROVE  Budget'
  <2>1. c \in Waiting /\ Waiting' = Waiting \ {c}
    BY <1>3 DEF Send, Drop, Waiting, JournalTypeOK
  <2>2. Cardinality(Waiting) \in Nat /\ Cardinality(Waiting)' = Cardinality(Waiting) - 1
    BY <2>1, WaitingChanges
  <2>3. next' = next + 1 \/ next' = next
    BY <1>3 DEF Send, Drop
  <2> QED BY <1>0, <2>2, <2>3 DEF Budget
<1>4. CASE Exit
  <2>1. Waiting' = {} /\ next' = next
    BY <1>4 DEF Exit, Waiting
  <2>2. Cardinality(Waiting)' = 0
    BY <2>1, FS_EmptySet
  <2>3. next <= MaxEvents + 1
    BY JournalAssumption DEF JournalTypeOK
  <2> QED BY <1>0, <2>1, <2>2, <2>3 DEF Budget
<1> QED BY <1>1, <1>2, <1>3, <1>4
    DEF JournalNext, JournalRuns, Receive, Write, WriteFails, LoopCloses, Stat, Rename, Create,
        RollFails, Rolling, OpenFSJournal, Close, Tick

------------------------------------------------------------------------------
(* The order of the events *)

\* Every event anywhere is a number.
LEMMA EventsAreNumbers ==
    ASSUME JournalTypeOK
    PROVE  /\ Events \in SUBSET Nat /\ incoming \in Seq(Events) /\ current \in Seq(Events)
           /\ \A s \in Seconds : rolled[s] \in Seq(Events)
           /\ \A i \in DOMAIN incoming : incoming[i] \in Nat
           /\ \A i \in DOMAIN current : current[i] \in Nat
           /\ \A s \in Seconds : \A i \in DOMAIN rolled[s] : rolled[s][i] \in Nat
           /\ next \in Nat /\ writing \in Nat
<1>1. Events \in SUBSET Nat /\ \A e \in Events : e \in Nat
  BY DEF Events
<1>2. \A q \in Seq(Events) : \A i \in DOMAIN q : q[i] \in Events
  OBVIOUS
<1>3. incoming \in Seq(Events) /\ current \in Seq(Events) /\ \A s \in Seconds : rolled[s] \in Seq(Events)
  BY DEF JournalTypeOK
<1>4. next \in Nat /\ writing \in Nat
  BY <1>1, JournalAssumption DEF JournalTypeOK, noEvent
<1> QED BY <1>1, <1>2, <1>3, <1>4

\* The current file only gets newer events, and takes the name of the present second.
LEMMA NextFilesInOrder ==
    ASSUME JournalTypeOK, Places, FilesInOrder, WayInOrder, JournalNext
    PROVE  FilesInOrder'
<1>1. CASE UNCHANGED <<current, rolled, second>>
  BY <1>1 DEF FilesInOrder, Ascending, Precedes
<1>2. CASE Write
  <2>1. writing \in Events /\ current' = Append(current, writing) /\ UNCHANGED <<rolled, second>>
    BY <1>2 DEF Write, Places, JournalTypeOK
  <2>2. Ascending(current')
    BY <1>2, <2>1, AppendedInOrder, EventsAreNumbers DEF FilesInOrder, WayInOrder, Older, Places,
        Write
  <2>3. ASSUME NEW s \in Seconds PROVE Precedes(rolled[s], current')
    <3>1. Under(rolled[s], writing) /\ Precedes(rolled[s], current)
      BY <1>2 DEF FilesInOrder, WayInOrder, Older, Places, Write
    <3>2. \A i \in DOMAIN current' : current'[i] = writing
                                     \/ (i \in DOMAIN current /\ current'[i] = current[i])
      BY <2>1, Appended, EventsAreNumbers
    <3> QED BY <3>1, <3>2 DEF Precedes, Under
  <2> QED BY <2>1, <2>2, <2>3 DEF FilesInOrder, Ascending, Precedes
<1>3. CASE Rename
  <2>1. /\ current' = <<>> /\ second' = second /\ second \in Seconds
        /\ rolled' = [rolled EXCEPT ![second] = current]
        /\ rolled \in [Seconds -> Seq(Events)]
    BY <1>3 DEF Rename, RollTo, Rolling, JournalTypeOK
  <2>2. \A s \in Seconds : rolled'[s] = IF s = second THEN current ELSE rolled[s]
    BY <2>1
  <2>3. Ascending(current') /\ \A s \in Seconds : Precedes(rolled'[s], current')
    BY <2>1 DEF Ascending, Precedes
  <2>4. \A s \in Seconds : Ascending(rolled'[s]) /\ (s > second' => rolled'[s] = <<>>)
    BY <2>1, <2>2, JournalAssumption DEF FilesInOrder, Seconds
  <2>5. ASSUME NEW r \in Seconds, NEW s \in Seconds, r < s PROVE Precedes(rolled'[r], rolled'[s])
    <3>1. CASE r = second
      <4>1. s # second /\ rolled[s] = <<>>
        BY <2>5, <3>1 DEF FilesInOrder, Seconds
      <4> QED BY <2>2, <4>1 DEF Precedes
    <3>2. CASE r # second
      BY <2>2, <2>5, <3>2 DEF FilesInOrder
    <3> QED BY <3>1, <3>2
  <2> QED BY <2>3, <2>4, <2>5 DEF FilesInOrder, Ascending, Precedes
<1>4. CASE Create
  BY <1>4 DEF Create, Rolling, FilesInOrder, Ascending, Precedes
<1>5. CASE Tick
  <2>1. UNCHANGED <<current, rolled>> /\ second' = second + 1 /\ second \in Seconds
    BY <1>5 DEF Tick, files, JournalTypeOK
  <2>2. \A s \in Seconds : s > second' => s > second
    BY <2>1, JournalAssumption DEF Seconds
  <2> QED BY <2>1, <2>2 DEF FilesInOrder, Ascending, Precedes
<1> QED BY <1>1, <1>2, <1>3, <1>4, <1>5
    DEF JournalNext, RecordEvent, JournalRuns, Send, Drop, Receive, WriteFails, LoopCloses, Stat,
        RollFails, Rolling, OpenFSJournal, Close, Exit, files

\* The channel hands the events on in the order in which it took them.
LEMMA NextWayInOrder ==
    ASSUME JournalTypeOK, Places, Budget, WayInOrder, JournalNext
    PROVE  WayInOrder'
<1> USE EventsAreNumbers
<1>1. CASE UNCHANGED <<current, rolled, incoming, writing, next>>
  BY <1>1 DEF WayInOrder, Older, Ascending, Under, Above, Precedes
<1>2. ASSUME NEW c \in Callers, Send(c) PROVE WayInOrder'
  <2>1. incoming' = Append(incoming, next) /\ next' = next + 1 /\ UNCHANGED <<current, rolled, writing>>
    BY <1>2 DEF Send, files
  <2>2. next \in Events
    BY <1>2, SentIsEvent
  <2>3. Ascending(incoming') /\ Under(incoming', next')
    BY <2>1, <2>2, AppendedInOrder DEF WayInOrder
  <2>4. \A i \in DOMAIN incoming' : incoming'[i] = next
                                    \/ (i \in DOMAIN incoming /\ incoming'[i] = incoming[i])
    BY <2>1, <2>2, Appended
  <2>5. ASSUME NEW q, \A i \in DOMAIN q : q[i] \in Nat, Older(q)
        PROVE  Under(q, next') /\ Precedes(q, incoming') /\ (writing' # noEvent => Under(q, writing'))
    <3>1. Under(q, next')
      BY <2>1, <2>5 DEF Older, Under
    <3>2. Precedes(q, incoming')
      BY <2>4, <2>5 DEF Older, Under, Precedes
    <3> QED BY <2>1, <2>5, <3>1, <3>2 DEF Older
  <2>6. writing' # noEvent => writing' < next' /\ Above(writing', incoming')
    BY <2>1, <2>4 DEF WayInOrder, Above
  <2>7. Older(current)' /\ \A s \in Seconds : Older(rolled[s])'
    BY <2>1, <2>5 DEF WayInOrder, Older, Under, Precedes
  <2> QED BY <2>3, <2>6, <2>7 DEF WayInOrder, Ascending, Under, Above
<1>3. CASE Receive
  <2>1. /\ incoming # <<>> /\ incoming' = Tail(incoming) /\ writing' = Head(incoming)
        /\ writing = noEvent /\ UNCHANGED <<current, rolled, next>>
    BY <1>3 DEF Receive, Places, files
  <2>2. /\ writing' = incoming[1] /\ 1 \in DOMAIN incoming
        /\ \A i \in DOMAIN incoming' : i + 1 \in DOMAIN incoming /\ incoming'[i] = incoming[i + 1]
    BY <2>1, Received
  <2>3. Ascending(incoming') /\ Above(writing', incoming')
    BY <2>1, ReceivedInOrder DEF WayInOrder
  <2>4. Under(incoming', next') /\ writing' < next'
    BY <2>1, <2>2 DEF WayInOrder, Under
  <2>5. ASSUME NEW q, Older(q)
        PROVE  Under(q, next') /\ Precedes(q, incoming') /\ Under(q, writing')
    BY <2>1, <2>2, <2>5 DEF Older, Under, Precedes
  <2>6. Older(current)' /\ \A s \in Seconds : Older(rolled[s])'
    BY <2>1, <2>5 DEF WayInOrder, Older, Under, Precedes
  <2> QED BY <2>3, <2>4, <2>6 DEF WayInOrder, Ascending, Under, Above
<1>4. CASE Write
  <2>1. /\ current' = Append(current, writing) /\ writing \in Events /\ writing # noEvent
        /\ writing' = noEvent /\ UNCHANGED <<incoming, rolled, next>>
    BY <1>4 DEF Write, Places, JournalTypeOK
  <2>2. \A i \in DOMAIN current' : current'[i] = writing
                                   \/ (i \in DOMAIN current /\ current'[i] = current[i])
    BY <2>1, Appended
  <2>3. Under(current', next) /\ Precedes(current', incoming)
    BY <2>1, <2>2 DEF WayInOrder, Older, Under, Above, Precedes
  <2> QED BY <2>1, <2>3 DEF WayInOrder, Older, Ascending, Under, Precedes
<1>5. CASE WriteFails
  <2>1. writing' = noEvent /\ UNCHANGED <<current, rolled, incoming, next>>
    BY <1>5 DEF WriteFails, files
  <2> QED BY <2>1 DEF WayInOrder, Older, Ascending, Under, Precedes
<1>6. CASE Rename
  <2>1. /\ current' = <<>> /\ UNCHANGED <<incoming, writing, next>>
        /\ \A s \in Seconds : rolled'[s] \in {rolled[s], current}
    BY <1>6 DEF Rename, RollTo, Rolling, JournalTypeOK
  <2>2. ASSUME NEW s \in Seconds PROVE Older(rolled'[s])
    BY <2>1 DEF WayInOrder
  <2>3. \A s \in Seconds : Older(rolled[s])'
    BY <2>1, <2>2 DEF Older, Under, Precedes
  <2>4. Older(current)'
    BY <2>1 DEF Older, Under, Precedes
  <2> QED BY <2>1, <2>3, <2>4 DEF WayInOrder, Ascending, Under, Above
<1>7. CASE Create
  BY <1>7 DEF Create, Rolling, WayInOrder, Older, Ascending, Under, Above, Precedes
<1>8. CASE Exit
  BY <1>8 DEF Exit, files, WayInOrder, Older, Ascending, Under, Precedes
<1> QED BY <1>1, <1>2, <1>3, <1>4, <1>5, <1>6, <1>7, <1>8
    DEF JournalNext, RecordEvent, JournalRuns, Drop, LoopCloses, Stat,
        RollFails, Rolling, OpenFSJournal, Close, Tick, files

------------------------------------------------------------------------------
(* What is lost *)

\* An event moves from the channel to runLoop, the current file and a rolled file, or
\* its process ends.
LEMMA NextNoneLost ==
    ASSUME JournalTypeOK, Places, Budget, NoneLost, JournalNext
    PROVE  NoneLost'
<1> USE EventsAreNumbers
<1>1. ASSUME failed => failed', clashed => clashed', next' = next,
             ~failed' /\ ~clashed' => \A e \in Nat : Somewhere(e) => Somewhere(e)'
      PROVE  NoneLost'
  <2>1. \A e \in 1 .. next - 1 : e \in Nat
    OBVIOUS
  <2> QED BY <1>1, <2>1 DEF NoneLost
<1>2. CASE UNCHANGED <<ended, rolled, current, writing, incoming, failed, clashed, next>>
  <2>1. \A e : Somewhere(e) => Somewhere(e)'
    BY <1>2 DEF Somewhere
  <2> QED BY <1>1, <1>2, <2>1
<1>3. ASSUME NEW c \in Callers, Send(c) PROVE NoneLost'
  <2>1. /\ incoming' = Append(incoming, next) /\ next' = next + 1
        /\ UNCHANGED <<current, rolled, writing, ended, failed, clashed>>
    BY <1>3 DEF Send, files, trail
  <2>2. /\ \A i \in DOMAIN incoming : i \in DOMAIN incoming' /\ incoming'[i] = incoming[i]
        /\ \E i \in DOMAIN incoming' : incoming'[i] = next
    BY <1>3, <2>1, Appended, SentIsEvent
  <2>3. \A e : Somewhere(e) => Somewhere(e)'
    BY <2>1, <2>2 DEF Somewhere
  <2>4. ASSUME ~failed', ~clashed', NEW e \in 1 .. next' - 1 PROVE Somewhere(e)'
    <3>1. e = next \/ e \in 1 .. next - 1
      BY <2>1, <2>4
    <3>2. CASE e = next
      BY <2>1, <2>2, <3>2 DEF Somewhere
    <3>3. CASE e \in 1 .. next - 1
      BY <2>1, <2>3, <2>4, <3>3 DEF NoneLost
    <3> QED BY <3>1, <3>2, <3>3
  <2> QED BY <2>4 DEF NoneLost
<1>4. CASE Receive
  <2>1. /\ incoming # <<>> /\ incoming' = Tail(incoming) /\ writing' = Head(incoming)
        /\ writing = noEvent /\ UNCHANGED <<current, rolled, next, ended, failed, clashed>>
    BY <1>4 DEF Receive, Places, files, trail
  <2>2. \A i \in DOMAIN incoming : incoming[i] = writing'
                                  \/ \E j \in DOMAIN incoming' : incoming'[j] = incoming[i]
    BY <2>1, Received
  <2>3. ASSUME NEW e \in Nat, Somewhere(e), e # noEvent PROVE Somewhere(e)'
    BY <2>1, <2>2, <2>3 DEF Somewhere
  <2>4. \A e \in 1 .. next - 1 : e \in Nat /\ e # noEvent
    BY DEF noEvent
  <2> QED BY <2>1, <2>3, <2>4 DEF NoneLost
<1>5. CASE Write
  <2>1. /\ current' = Append(current, writing) /\ writing \in Events
        /\ UNCHANGED <<incoming, rolled, next, ended, failed, clashed>>
    BY <1>5 DEF Write, Places, JournalTypeOK, trail
  <2>2. /\ \A i \in DOMAIN current : i \in DOMAIN current' /\ current'[i] = current[i]
        /\ \E i \in DOMAIN current' : current'[i] = writing
    BY <2>1
  <2>3. \A e : Somewhere(e) => Somewhere(e)'
    BY <2>1, <2>2 DEF Somewhere
  <2> QED BY <1>1, <2>1, <2>3
<1>6. CASE WriteFails
  <2>1. failed' /\ next' = next
    BY <1>6 DEF WriteFails, Fails, Places, JournalTypeOK
  <2> QED BY <2>1 DEF NoneLost
<1>7. CASE Rename
  <2>1. /\ second \in Seconds /\ rolled \in [Seconds -> Seq(Events)]
        /\ rolled' = [rolled EXCEPT ![second] = current]
        /\ clashed' = (clashed \/ rolled[second] # <<>>)
        /\ UNCHANGED <<incoming, writing, next, ended, failed>>
    BY <1>7 DEF Rename, RollTo, Rolling, JournalTypeOK
  <2>2. ASSUME ~clashed', NEW e, Somewhere(e) PROVE Somewhere(e)'
    <3>1. rolled'[second] = current /\ \A s \in Seconds : s # second => rolled'[s] = rolled[s]
      BY <2>1
    <3>2. rolled[second] = <<>>
      BY <2>1, <2>2
    <3>3. ASSUME NEW s \in Seconds, NEW i \in DOMAIN rolled[s]
          PROVE  i \in DOMAIN rolled'[s] /\ rolled'[s][i] = rolled[s][i]
      <4>1. s # second
        BY <3>2, <3>3
      <4> QED BY <3>1, <3>3, <4>1
    <3> QED BY <2>1, <2>2, <3>1, <3>3 DEF Somewhere
  <2>3. clashed => clashed'
    BY <2>1
  <2> QED BY <1>1, <2>1, <2>2, <2>3
<1>8. CASE Create
  <2>1. UNCHANGED <<incoming, writing, rolled, next, ended, failed, clashed>>
    BY <1>8 DEF Create, Rolling
  <2>2. ASSUME ~failed', NEW e, Somewhere(e) PROVE Somewhere(e)'
    <3>1. current = <<>>
      BY <1>8, <2>1, <2>2 DEF Create, Rolling, Places
    <3> QED BY <2>1, <2>2, <3>1 DEF Somewhere
  <2> QED BY <1>1, <2>1, <2>2
<1>9. CASE LoopCloses
  <2>1. ended \subseteq ended' /\ UNCHANGED <<incoming, writing, rolled, current, next, failed, clashed>>
    BY <1>9 DEF LoopCloses, files
  <2>2. \A e : Somewhere(e) => Somewhere(e)'
    BY <2>1 DEF Somewhere
  <2> QED BY <1>1, <2>1, <2>2
<1>10. CASE Exit
  <2>1. /\ UNCHANGED <<rolled, current, next, failed, clashed>>
        /\ ended' = ended \cup ToSet(incoming) \cup ({writing} \ {noEvent})
    BY <1>10 DEF Exit, files
  <2>2. ASSUME NEW e \in Nat, Somewhere(e), e # noEvent PROVE Somewhere(e)'
    BY <2>1, <2>2 DEF Somewhere, ToSet
  <2>3. \A e \in 1 .. next - 1 : e \in Nat /\ e # noEvent
    BY DEF noEvent
  <2> QED BY <2>1, <2>2, <2>3 DEF NoneLost
<1>11. CASE Stat \/ RollFails
  <2>1. /\ UNCHANGED <<ended, rolled, current, writing, incoming, clashed, next>>
        /\ failed => failed'
    BY <1>11 DEF Stat, RollFails, Rolling, Fails, files, trail
  <2>2. \A e : Somewhere(e) => Somewhere(e)'
    BY <2>1 DEF Somewhere
  <2> QED BY <1>1, <2>1, <2>2
<1> QED BY <1>2, <1>3, <1>4, <1>5, <1>6, <1>7, <1>8, <1>9, <1>10, <1>11
    DEF JournalNext, RecordEvent, JournalRuns, Drop, OpenFSJournal, Close, Tick, files, trail

------------------------------------------------------------------------------
(* The alerts *)

AlertVarsOK ==
    /\ alerts \in [AlertTypes -> [active : BOOLEAN, enabled : BOOLEAN, known : BOOLEAN]]
    /\ lk \in Users \cup {free}
    /\ doing \in [Users -> [type : AlertTypes, kind : {raised, resolved}] \cup {noCall}]
    /\ lastKind \in [Types -> Kinds]

\* A Raise or Resolve under way holds the lock.
Locked == \A c \in Users : doing[c] # noCall => lk = c

\* What a user waits to send is what it is doing.
SendingIsDoing ==
    /\ \A c \in Users : sending[c] # noCall =>
          doing[c] # noCall /\ sending[c] = doing[c] /\ alerts[doing[c].type].enabled
    /\ \A c \in Loop : sending[c] # noCall => sending[c].type = blockMined

\* c has to write the alert of an event that the channel took.
Behind(c, t) == doing[c] # noCall /\ doing[c].type = t /\ sending[c] = noCall

\* An alert agrees with its last event, except while the caller that sent this event
\* still has to write the alert.
LastKindKnown ==
    \A t \in AlertTypes :
       /\ alerts[t].enabled => alerts[t].known
       /\ ~alerts[t].enabled => lastKind[t] # raised
       /\ alerts[t].enabled /\ ~closing =>
             /\ (\A c \in Users : ~Behind(c, t)) => (alerts[t].active <=> lastKind[t] = raised)
             /\ \A c \in Users : Behind(c, t) => lastKind[t] = doing[c].kind

AlertingIInv == JournalIInv /\ AlertVarsOK /\ Locked /\ SendingIsDoing /\ LastKindKnown

\* What the journal does between two calls of the alerts: the channel takes an event,
\* drops one because it is closing, or neither.
LEMMA JournalStepCases ==
    ASSUME JournalTypeOK, JournalStep
    PROVE  /\ UNCHANGED alertVars
           /\ closing => closing'
           /\ \/ \E c \in Callers :
                    /\ sending[c] # noCall /\ closing' = closing
                    /\ sending' = [sending EXCEPT ![c] = noCall]
                    /\ lastKind' = [lastKind EXCEPT ![sending[c].type] = sending[c].kind]
              \/ /\ closing' /\ lastKind' = lastKind
                 /\ \E c \in Callers : sending' = [sending EXCEPT ![c] = noCall]
              \/ UNCHANGED <<sending, lastKind>>
<1>1. UNCHANGED alertVars /\ JournalRuns
  BY DEF JournalStep
<1>2. CASE \E c \in Callers : Send(c)
  <2>1. PICK c \in Callers : Send(c)
    BY <1>2
  <2>2. /\ sending[c] # noCall /\ closing' = closing /\ next' = next + 1
        /\ sending' = [sending EXCEPT ![c] = noCall]
    BY <2>1 DEF Send
  <2>3. next' # next
    BY <2>2, EventsAreNumbers
  <2>4. PICK d \in Callers : /\ sending'[d] # sending[d]
                             /\ lastKind' = [lastKind EXCEPT ![sending[d].type] = sending[d].kind]
    BY <2>3 DEF JournalStep
  <2>5. d = c
    BY <2>2, <2>4 DEF JournalTypeOK
  <2> QED BY <1>1, <2>2, <2>4, <2>5
<1>3. CASE \E c \in Callers : Drop(c)
  <2>1. PICK c \in Callers : Drop(c)
    BY <1>3
  <2>2. closing /\ closing' = closing /\ next' = next /\ sending' = [sending EXCEPT ![c] = noCall]
    BY <2>1 DEF Drop
  <2>3. lastKind' = lastKind
    BY <2>2 DEF JournalStep
  <2> QED BY <1>1, <2>2, <2>3
<1>4. CASE UNCHANGED <<sending, next>> /\ (closing => closing')
  <2>1. lastKind' = lastKind
    BY <1>4 DEF JournalStep
  <2> QED BY <1>1, <1>4, <2>1
<1>5. (\E c \in Callers : Send(c) \/ Drop(c)) \/ (UNCHANGED <<sending, next>> /\ (closing => closing'))
  BY <1>1 DEF JournalRuns, Receive, Write, WriteFails, LoopCloses, Stat, Rename, Create,
              RollFails, Rolling, OpenFSJournal, Close, Tick
<1> QED BY <1>2, <1>3, <1>4, <1>5

\* A step of the alerts is a step of the journal, or leaves it alone.
LEMMA StepIsJournal ==
    ASSUME [AlertingNext]_alertingVars
    PROVE  JournalNext \/ UNCHANGED journalVars
<1>1. /\ Loop \subseteq Callers /\ blockMined \in Types /\ Users \subseteq Callers
      /\ AlertTypes \subseteq Types /\ {mined, raised, resolved} \subseteq Kinds
  BY AlertingAssumption DEF Users, AlertTypes
<1>2. CASE \E c \in Loop : BlockMined(c)
  BY <1>1, <1>2 DEF BlockMined, JournalNext
<1>3. CASE \E c \in Users, t \in AlertTypes, kind \in {raised, resolved} : Update(c, t, kind)
  BY <1>1, <1>3 DEF Update, JournalNext
<1>4. CASE JournalStep \/ ProcessEnds
  BY <1>4 DEF JournalStep, ProcessEnds, JournalNext
<1>5. CASE (\E t \in AlertTypes : AddAlertType(t)) \/ (\E c \in Users : Updated(c))
  BY <1>5 DEF AddAlertType, Updated
<1>6. CASE UNCHANGED alertingVars
  BY <1>6 DEF alertingVars
<1> QED BY <1>2, <1>3, <1>4, <1>5, <1>6 DEF AlertingNext

\* The sets of callers and kinds.
LEMMA CallersSplit ==
    /\ Callers = Users \cup Loop /\ Users \cap Loop = {}
    /\ free \notin Users /\ blockMined \notin AlertTypes /\ AlertTypes \subseteq Types
    /\ raised # resolved /\ {raised, resolved} \subseteq Kinds
  BY AlertingAssumption DEF Users, AlertTypes

\* A call in a select has a type and a kind.
LEMMA SendingTypes ==
    ASSUME JournalTypeOK, NEW c \in Callers, sending[c] # noCall
    PROVE  sending[c].type \in Types /\ sending[c].kind \in Kinds
  BY DEF JournalTypeOK, Calls

\* The types of the alerts.
LEMMA NextAlertVars ==
    ASSUME JournalTypeOK, AlertVarsOK, [AlertingNext]_alertingVars
    PROVE  AlertVarsOK'
<1> USE CallersSplit
<1>1. CASE \E c \in Loop : BlockMined(c)
  BY <1>1 DEF BlockMined, alertVars, AlertVarsOK
<1>2. ASSUME NEW t \in AlertTypes, AddAlertType(t) PROVE AlertVarsOK'
  BY <1>2 DEF AddAlertType, AlertVarsOK, RegisterEventType
<1>3. ASSUME NEW c \in Users, NEW t \in AlertTypes, NEW kind \in {raised, resolved},
             Update(c, t, kind)
      PROVE  AlertVarsOK'
  BY <1>3 DEF Update, AlertVarsOK
<1>4. ASSUME NEW c \in Users, Updated(c) PROVE AlertVarsOK'
  <2>1. PICK t \in AlertTypes : t = doing[c].type
    BY <1>4 DEF Updated, AlertVarsOK
  <2>2. alerts' = [alerts EXCEPT ![t].active = doing[c].kind = raised, ![t].known = TRUE]
    BY <1>4, <2>1 DEF Updated
  <2>3. PICK b \in BOOLEAN : b = (doing[c].kind = raised)
    <3>1. (doing[c].kind = raised) \in BOOLEAN
      OBVIOUS
    <3> QED BY <3>1
  <2>4. alerts' \in [AlertTypes -> [active : BOOLEAN, enabled : BOOLEAN, known : BOOLEAN]]
    <3>1. alerts' = [alerts EXCEPT ![t].active = b, ![t].known = TRUE]
      BY <2>2, <2>3
    <3> QED BY <3>1 DEF AlertVarsOK
  <2> QED BY <1>4, <2>4 DEF Updated, AlertVarsOK
<1>5. CASE JournalStep
  <2>1. lastKind' \in [Types -> Kinds]
    <3>1. ASSUME NEW c \in Callers, sending[c] # noCall,
                 lastKind' = [lastKind EXCEPT ![sending[c].type] = sending[c].kind]
          PROVE  lastKind' \in [Types -> Kinds]
      BY <3>1, SendingTypes DEF AlertVarsOK
    <3>2. CASE lastKind' = lastKind
      BY <3>2 DEF AlertVarsOK
    <3> QED BY <1>5, <3>1, <3>2, JournalStepCases
  <2> QED BY <1>5, <2>1 DEF JournalStep, alertVars, AlertVarsOK
<1>6. CASE ProcessEnds
  BY <1>6 DEF ProcessEnds, AlertVarsOK, noAlert
<1>7. CASE UNCHANGED alertingVars
  BY <1>7 DEF alertingVars, alertVars, AlertVarsOK
<1> QED BY <1>1, <1>2, <1>3, <1>4, <1>5, <1>6, <1>7 DEF AlertingNext

\* Nobody is in a Raise or a Resolve while the lock is free.
LEMMA FreeIsIdle ==
    ASSUME Locked, SendingIsDoing, lk = free
    PROVE  \A c \in Users : doing[c] = noCall /\ sending[c] = noCall
  BY CallersSplit DEF Locked, SendingIsDoing

\* The effect of Updated on the alert and on the others.
LEMMA UpdatedEffect ==
    ASSUME AlertVarsOK, NEW c \in Users, Updated(c)
    PROVE  /\ doing[c] # noCall /\ doing[c].type \in AlertTypes /\ sending[c] = noCall
           /\ alerts'[doing[c].type].active = (doing[c].kind = raised)
           /\ alerts'[doing[c].type].known
           /\ \A t \in AlertTypes : alerts'[t].enabled = alerts[t].enabled
           /\ \A t \in AlertTypes : t # doing[c].type => alerts'[t] = alerts[t]
           /\ \A d \in Users : doing'[d] = IF d = c THEN noCall ELSE doing[d]
           /\ lk' = free /\ UNCHANGED <<sending, closing, lastKind>>
<1>1. PICK t \in AlertTypes : t = doing[c].type
  BY DEF Updated, AlertVarsOK
<1>2. alerts' = [alerts EXCEPT ![t].active = doing[c].kind = raised, ![t].known = TRUE]
  BY <1>1 DEF Updated
<1>3. (doing[c].kind = raised) \in BOOLEAN
  OBVIOUS
<1>4. alerts'[t].active = (doing[c].kind = raised)
  BY <1>2, <1>3 DEF AlertVarsOK
<1>5. alerts'[t].known
  BY <1>2 DEF AlertVarsOK
<1>6. \A u \in AlertTypes : alerts'[u].enabled = alerts[u].enabled
  BY <1>2 DEF AlertVarsOK
<1>7. \A u \in AlertTypes : u # t => alerts'[u] = alerts[u]
  BY <1>2 DEF AlertVarsOK
<1>8. \A d \in Users : doing'[d] = IF d = c THEN noCall ELSE doing[d]
  BY DEF Updated, AlertVarsOK
<1>9. doing[c] # noCall /\ sending[c] = noCall /\ lk' = free /\ UNCHANGED <<sending, closing, lastKind>>
  BY DEF Updated, journalVars
<1> QED BY <1>1, <1>4, <1>5, <1>6, <1>7, <1>8, <1>9

\* The lock and the channel.
LEMMA NextLocked ==
    ASSUME JournalTypeOK, AlertVarsOK, Locked, SendingIsDoing, [AlertingNext]_alertingVars
    PROVE  Locked' /\ SendingIsDoing'
<1> USE CallersSplit
<1>1. ASSUME NEW c \in Loop, BlockMined(c) PROVE Locked' /\ SendingIsDoing'
  <2>1. /\ UNCHANGED <<alerts, lk, doing>>
        /\ sending' = [sending EXCEPT ![c] = [type |-> blockMined, kind |-> mined]]
    BY <1>1 DEF BlockMined, RecordEvent, alertVars
  <2>2. /\ sending'[c].type = blockMined
        /\ \A d \in Callers : d # c => sending'[d] = sending[d]
    BY <2>1 DEF JournalTypeOK
  <2> QED BY <2>1, <2>2 DEF Locked, SendingIsDoing
<1>2. ASSUME NEW t \in AlertTypes, AddAlertType(t) PROVE Locked' /\ SendingIsDoing'
  <2>1. lk = free /\ UNCHANGED <<sending, lk, doing>>
    BY <1>2 DEF AddAlertType, journalVars
  <2> QED BY <2>1, FreeIsIdle DEF Locked, SendingIsDoing
<1>3. ASSUME NEW c \in Users, NEW t \in AlertTypes, NEW kind \in {raised, resolved},
             Update(c, t, kind)
      PROVE  Locked' /\ SendingIsDoing'
  <2> DEFINE call == [type |-> t, kind |-> kind]
  <2>1. lk = free /\ lk' = c /\ alerts' = alerts /\ doing' = [doing EXCEPT ![c] = call]
        /\ (IF alerts[t].enabled THEN sending' = [sending EXCEPT ![c] = call] ELSE sending' = sending)
    BY <1>3 DEF Update, RecordEvent, journalVars
  <2>2. \A d \in Users : doing[d] = noCall /\ sending[d] = noCall
    BY <2>1, FreeIsIdle
  <2>3. doing'[c] = call /\ \A d \in Users : d # c => doing'[d] = noCall
    BY <2>1, <2>2 DEF AlertVarsOK
  <2>4. call # noCall /\ call.type = t
    BY CallIsNone
  <2> HIDE DEF call
  <2>5. /\ \A d \in Callers : d # c => sending'[d] = sending[d]
        /\ sending'[c] # noCall => alerts[t].enabled /\ sending'[c] = call
    BY <2>1, <2>2 DEF JournalTypeOK
  <2> QED BY <2>1, <2>2, <2>3, <2>4, <2>5 DEF Locked, SendingIsDoing
<1>4. ASSUME NEW c \in Users, Updated(c) PROVE Locked' /\ SendingIsDoing'
  <2>1. \A d \in Users : doing[d] # noCall => d = c
    BY <1>4 DEF Updated, Locked
  <2>2. Locked'
    BY <1>4, <2>1, UpdatedEffect DEF Locked
  <2>3. \A d \in Users : sending'[d] = noCall
    BY <1>4, <2>1, UpdatedEffect DEF SendingIsDoing
  <2>4. \A d \in Loop : sending'[d] = sending[d]
    BY <1>4, UpdatedEffect
  <2> QED BY <2>2, <2>3, <2>4 DEF SendingIsDoing
<1>5. CASE JournalStep
  <2>1. UNCHANGED <<alerts, lk, doing>>
    BY <1>5 DEF JournalStep, alertVars
  <2>2. \A d \in Callers : sending'[d] # noCall => sending'[d] = sending[d]
    BY <1>5, JournalStepCases DEF JournalTypeOK
  <2> QED BY <2>1, <2>2 DEF Locked, SendingIsDoing
<1>6. CASE ProcessEnds
  BY <1>6 DEF ProcessEnds, Exit, Locked, SendingIsDoing
<1>7. CASE UNCHANGED alertingVars
  BY <1>7 DEF alertingVars, alertVars, journalVars, Locked, SendingIsDoing
<1> QED BY <1>1, <1>2, <1>3, <1>4, <1>5, <1>6, <1>7 DEF AlertingNext

\* The alerts follow their events: the lock keeps a second user from changing the alert
\* or sending an event between the two halves of a Raise or Resolve.
LEMMA NextLastKind ==
    ASSUME JournalTypeOK, AlertVarsOK, Locked, SendingIsDoing, LastKindKnown,
           [AlertingNext]_alertingVars
    PROVE  LastKindKnown'
<1> USE CallersSplit
<1>1. ASSUME UNCHANGED <<alerts, lastKind, doing>>, \A c \in Users : sending'[c] = sending[c],
             closing => closing'
      PROVE  LastKindKnown'
  BY <1>1 DEF LastKindKnown, Behind
<1>2. ASSUME NEW c \in Loop, BlockMined(c) PROVE LastKindKnown'
  <2>1. /\ UNCHANGED <<alerts, doing, lastKind, closing>>
        /\ sending' = [sending EXCEPT ![c] = [type |-> blockMined, kind |-> mined]]
    BY <1>2 DEF BlockMined, RecordEvent, alertVars
  <2> QED BY <1>1, <2>1 DEF JournalTypeOK
<1>3. ASSUME NEW t \in AlertTypes, AddAlertType(t) PROVE LastKindKnown'
  <2>1. lk = free /\ ~alerts[t].known /\ UNCHANGED <<sending, doing, closing, lastKind>>
    BY <1>3 DEF AddAlertType, journalVars
  <2>2. /\ ~alerts'[t].active /\ alerts'[t].known
        /\ \A u \in AlertTypes : u # t => alerts'[u] = alerts[u]
    BY <1>3 DEF AddAlertType, AlertVarsOK
  <2>3. \A c \in Users : doing[c] = noCall
    BY <2>1, FreeIsIdle
  <2>4. lastKind[t] # raised
    BY <2>1 DEF LastKindKnown
  <2> QED BY <2>1, <2>2, <2>3, <2>4 DEF LastKindKnown, Behind
<1>4. ASSUME NEW c \in Users, NEW t \in AlertTypes, NEW kind \in {raised, resolved},
             Update(c, t, kind)
      PROVE  LastKindKnown'
  <2> DEFINE call == [type |-> t, kind |-> kind]
  <2>1. lk = free /\ doing' = [doing EXCEPT ![c] = call] /\ UNCHANGED <<alerts, lastKind, closing>>
        /\ (IF alerts[t].enabled THEN sending' = [sending EXCEPT ![c] = call] ELSE sending' = sending)
    BY <1>4 DEF Update, RecordEvent, journalVars
  <2>2. \A d \in Users : doing[d] = noCall /\ sending[d] = noCall
    BY <2>1, FreeIsIdle
  <2>3. doing'[c] = call /\ \A d \in Users : d # c => doing'[d] = noCall
    BY <2>1, <2>2 DEF AlertVarsOK
  <2>4. call # noCall /\ call.type = t
    BY CallIsNone
  <2> HIDE DEF call
  <2>5. alerts[t].enabled => sending'[c] = call
    BY <2>1 DEF JournalTypeOK
  <2>6. \A u \in AlertTypes : alerts[u].enabled => \A d \in Users : ~Behind(d, u) /\ ~Behind(d, u)'
    BY <2>2, <2>3, <2>4, <2>5 DEF Behind
  <2> QED BY <2>1, <2>6 DEF LastKindKnown
<1>5. ASSUME NEW c \in Users, Updated(c) PROVE LastKindKnown'
  <2>1. PICK t \in AlertTypes : t = doing[c].type
    BY <1>5, UpdatedEffect
  <2>2. \A d \in Users : doing[d] # noCall => d = c
    BY <1>5 DEF Updated, Locked
  <2>3. \A d \in Users : \A u \in AlertTypes : ~Behind(d, u)'
    BY <1>5, <2>2, UpdatedEffect DEF Behind
  <2>4. alerts[t].enabled /\ ~closing => lastKind[t] = doing[c].kind
    BY <1>5, <2>1, UpdatedEffect DEF LastKindKnown, Behind
  <2>5. \A u \in AlertTypes : u # t => \A d \in Users : ~Behind(d, u)
    BY <2>1, <2>2 DEF Behind
  <2>6. ASSUME NEW u \in AlertTypes
        PROVE  /\ alerts'[u].enabled => alerts'[u].known
               /\ ~alerts'[u].enabled => lastKind'[u] # raised
               /\ alerts'[u].enabled /\ ~closing' => (alerts'[u].active <=> lastKind'[u] = raised)
    <3>1. CASE u = t
      <4>1. alerts'[t].active <=> doing[c].kind = raised
        BY <1>5, <2>1, UpdatedEffect
      <4>2. alerts'[t].known /\ (alerts'[t].enabled <=> alerts[t].enabled) /\ UNCHANGED <<closing, lastKind>>
        BY <1>5, <2>1, UpdatedEffect
      <4>3. ~alerts[t].enabled => lastKind[t] # raised
        BY DEF LastKindKnown
      <4> QED BY <2>4, <3>1, <4>1, <4>2, <4>3
    <3>2. CASE u # t
      BY <1>5, <2>1, <2>5, <3>2, UpdatedEffect DEF LastKindKnown
    <3> QED BY <3>1, <3>2
  <2> QED BY <2>3, <2>6 DEF LastKindKnown
<1>6. CASE JournalStep
  <2>1. UNCHANGED <<alerts, doing>> /\ (closing => closing')
    BY <1>6, JournalStepCases DEF alertVars
  <2>2. CASE UNCHANGED <<sending, lastKind>>
    BY <1>1, <2>1, <2>2
  <2>3. CASE closing' /\ lastKind' = lastKind
    BY <2>1, <2>3 DEF LastKindKnown
  <2>4. ASSUME NEW c \in Callers, sending[c] # noCall, closing' = closing,
               sending' = [sending EXCEPT ![c] = noCall],
               lastKind' = [lastKind EXCEPT ![sending[c].type] = sending[c].kind]
        PROVE  LastKindKnown'
    <3>1. CASE c \in Loop
      <4>1. sending[c].type = blockMined
        BY <2>4, <3>1 DEF SendingIsDoing
      <4>2. \A t \in AlertTypes : lastKind'[t] = lastKind[t]
        BY <2>4, <4>1 DEF AlertVarsOK
      <4>3. \A d \in Users : sending'[d] = sending[d]
        BY <2>4, <3>1 DEF JournalTypeOK
      <4> QED BY <2>1, <2>4, <4>2, <4>3 DEF LastKindKnown, Behind
    <3>2. CASE c \in Users
      <4>1. doing[c] # noCall /\ sending[c] = doing[c] /\ alerts[doing[c].type].enabled
        BY <2>4, <3>2 DEF SendingIsDoing
      <4>2. PICK t \in AlertTypes : t = doing[c].type
        BY <3>2, <4>1 DEF AlertVarsOK
      <4>3. lastKind'[t] = doing[c].kind /\ \A u \in AlertTypes : u # t => lastKind'[u] = lastKind[u]
        BY <2>4, <4>1, <4>2 DEF AlertVarsOK
      <4>4. \A d \in Users : doing[d] # noCall => d = c
        BY <3>2, <4>1 DEF Locked
      <4>5. sending'[c] = noCall
        BY <2>4 DEF JournalTypeOK
      <4>6. Behind(c, t)' /\ \A d \in Users : Behind(d, t)' => d = c
        BY <2>1, <4>1, <4>2, <4>4, <4>5 DEF Behind
      <4>7. \A u \in AlertTypes : u # t => \A d \in Users : ~Behind(d, u) /\ ~Behind(d, u)'
        BY <2>1, <4>2, <4>4 DEF Behind
      <4>8. ASSUME NEW u \in AlertTypes, u # t, alerts[u].enabled, ~closing
            PROVE  alerts[u].active <=> lastKind'[u] = raised
        BY <4>3, <4>7, <4>8 DEF LastKindKnown
      <4>9. \A u \in AlertTypes : /\ alerts[u].enabled => alerts[u].known
                                  /\ ~alerts[u].enabled => lastKind'[u] # raised
        BY <4>1, <4>2, <4>3 DEF LastKindKnown
      <4>10. \A d \in Users, u \in AlertTypes : Behind(d, u)' => lastKind'[u] = doing'[d].kind
        BY <2>1, <4>3, <4>6, <4>7
      <4>11. ASSUME NEW u \in AlertTypes, alerts[u].enabled, ~closing,
                    \A d \in Users : ~Behind(d, u)'
             PROVE  alerts[u].active <=> lastKind'[u] = raised
        BY <3>2, <4>6, <4>8, <4>11
      <4> QED BY <2>1, <2>4, <4>9, <4>10, <4>11 DEF LastKindKnown
    <3> QED BY <3>1, <3>2
  <2> QED BY <1>6, <2>2, <2>3, <2>4, JournalStepCases
<1>7. CASE ProcessEnds
  <2>1. /\ \A t \in AlertTypes : alerts'[t] = noAlert
        /\ \A t \in AlertTypes : lastKind'[t] = resolved
    BY <1>7 DEF ProcessEnds
  <2> QED BY <2>1 DEF LastKindKnown, noAlert
<1>8. CASE UNCHANGED alertingVars
  BY <1>1, <1>8 DEF alertingVars, alertVars, journalVars
<1> QED BY <1>2, <1>3, <1>4, <1>5, <1>6, <1>7, <1>8 DEF AlertingNext

------------------------------------------------------------------------------
(* The theorems *)

\* What is on its way, event by event.
LEMMA OnItsWayIs ==
    ASSUME NEW w \in Nat, NEW S \in SUBSET Nat, NEW q \in Seq(S)
    PROVE  /\ <<>> \o q = q
           /\ \A i \in DOMAIN (<<w>> \o q) :
                 \/ i = 1 /\ (<<w>> \o q)[i] = w
                 \/ i \in Nat /\ 1 < i /\ i - 1 \in DOMAIN q /\ (<<w>> \o q)[i] = q[i - 1]
           /\ 1 \in DOMAIN (<<w>> \o q) /\ (<<w>> \o q)[1] = w
           /\ \A i \in DOMAIN q : i + 1 \in DOMAIN (<<w>> \o q) /\ (<<w>> \o q)[i + 1] = q[i]
  OBVIOUS

\* The invariants of what is on its way, for OnItsWay.
LEMMA OnItsWayInOrder ==
    ASSUME JournalIInv
    PROVE  /\ Ascending(OnItsWay)
           /\ \A s \in Seconds : Precedes(rolled[s], OnItsWay)
           /\ Precedes(current, OnItsWay)
<1>0. JournalTypeOK /\ WayInOrder
  BY DEF JournalIInv
<1>1. CASE writing = noEvent
  <2>1. OnItsWay = incoming
    BY <1>0, <1>1, OnItsWayIs, EventsAreNumbers DEF OnItsWay
  <2> QED BY <1>0, <2>1 DEF WayInOrder, Older
<1>2. CASE writing # noEvent
  <2>1. PICK q : q = OnItsWay
    OBVIOUS
  <2>2. \A i \in DOMAIN q :
           \/ i = 1 /\ q[i] = writing
           \/ i \in Nat /\ 1 < i /\ i - 1 \in DOMAIN incoming /\ q[i] = incoming[i - 1]
    BY <1>0, <1>2, <2>1, OnItsWayIs, EventsAreNumbers DEF OnItsWay
  <2>3. Ascending(q)
    BY <1>0, <1>2, <2>2 DEF WayInOrder, Ascending, Above
  <2>4. ASSUME NEW r, Older(r) PROVE Precedes(r, q)
    BY <1>2, <2>2, <2>4 DEF Older, Precedes, Under
  <2> QED BY <1>0, <2>1, <2>3, <2>4 DEF WayInOrder
<1> QED BY <1>1, <1>2

\* The places of the journal.
LEMMA ToldIs ==
    /\ DOMAIN Told = 0 .. MaxSecond + 2
    /\ \A s \in Seconds : s \in DOMAIN Told /\ Told[s] = rolled[s]
    /\ MaxSecond + 1 \in DOMAIN Told /\ Told[MaxSecond + 1] = current
    /\ MaxSecond + 2 \in DOMAIN Told /\ Told[MaxSecond + 2] = OnItsWay
    /\ \A p \in DOMAIN Told : p \in Seconds \/ p = MaxSecond + 1 \/ p = MaxSecond + 2
<1>1. MaxSecond \in Nat
  BY JournalAssumption
<1>2. DOMAIN Told = 0 .. MaxSecond + 2
  BY DEF Told
<1>3. \A p \in DOMAIN Told : p \in Seconds \/ p = MaxSecond + 1 \/ p = MaxSecond + 2
  BY <1>1, <1>2 DEF Seconds
<1>4. \A s \in Seconds : s \in DOMAIN Told /\ Told[s] = rolled[s]
  BY <1>1 DEF Told, Seconds
<1>5. MaxSecond + 1 \in DOMAIN Told /\ Told[MaxSecond + 1] = current
  BY <1>1 DEF Told, Seconds
<1>6. MaxSecond + 2 \in DOMAIN Told /\ Told[MaxSecond + 2] = OnItsWay
  BY <1>1 DEF Told, Seconds
<1> QED BY <1>2, <1>3, <1>4, <1>5, <1>6

\* The order of the parts is the order of the whole.
LEMMA OrderFollows ==
    ASSUME JournalIInv PROVE InOrder
<1> DEFINE Sorted(p, q) == \A i \in DOMAIN Told[p], j \in DOMAIN Told[q] :
                              p < q \/ (p = q /\ i < j) => Told[p][i] < Told[q][j]
<1>0. FilesInOrder /\ MaxSecond \in Nat /\ \A s \in Seconds : s \in Nat /\ s <= MaxSecond
  BY JournalAssumption DEF JournalIInv, Seconds
<1>1. \A p \in DOMAIN Told : Ascending(Told[p])
  BY <1>0, ToldIs, OnItsWayInOrder DEF FilesInOrder
<1>2. ASSUME NEW p \in DOMAIN Told, NEW q \in DOMAIN Told, p < q
      PROVE  Precedes(Told[p], Told[q])
  <2>1. CASE p \in Seconds /\ q \in Seconds
    BY <1>0, <1>2, <2>1, ToldIs DEF FilesInOrder
  <2>2. CASE p \in Seconds /\ q = MaxSecond + 1
    BY <1>0, <2>2, ToldIs DEF FilesInOrder
  <2>3. CASE p \in Seconds /\ q = MaxSecond + 2
    BY <2>3, ToldIs, OnItsWayInOrder
  <2>4. CASE p = MaxSecond + 1 /\ q = MaxSecond + 2
    BY <2>4, ToldIs, OnItsWayInOrder
  <2>5. p \in Seconds \/ (p = MaxSecond + 1 /\ q = MaxSecond + 2)
    BY <1>0, <1>2, ToldIs
  <2> QED BY <2>1, <2>2, <2>3, <2>4, <2>5, ToldIs
<1>3. ASSUME NEW p \in DOMAIN Told, NEW q \in DOMAIN Told PROVE Sorted(p, q)
  <2>1. CASE p < q
    <3>1. p # q
      BY <1>0, <2>1, ToldIs
    <3> QED BY <1>2, <2>1, <3>1 DEF Precedes
  <2>2. CASE ~(p < q)
    BY <1>1, <2>2 DEF Ascending
  <2> QED BY <2>1, <2>2
<1> QED BY <1>3 DEF InOrder

\* An event that is somewhere is in a file or on its way.
LEMMA LossFollows ==
    ASSUME JournalIInv PROVE LossExcused
<1>0. JournalTypeOK /\ NoneLost
  BY DEF JournalIInv
<1>1. SUFFICES ASSUME ~failed, ~clashed, NEW e \in 1 .. next - 1, e \notin ended
               PROVE  \E p \in DOMAIN Told : e \in ToSet(Told[p])
  BY DEF LossExcused
<1>2. Somewhere(e) /\ e # noEvent
  BY <1>0, <1>1 DEF NoneLost, noEvent
<1>3. \A q : \A i \in DOMAIN q : q[i] \in ToSet(q)
  BY DEF ToSet
<1>4. CASE \E s \in Seconds : \E i \in DOMAIN rolled[s] : rolled[s][i] = e
  BY <1>3, <1>4, ToldIs
<1>5. CASE \E i \in DOMAIN current : current[i] = e
  BY <1>3, <1>5, ToldIs
<1>6. CASE e = writing \/ \E i \in DOMAIN incoming : incoming[i] = e
  <2>1. \E i \in DOMAIN OnItsWay : OnItsWay[i] = e
    <3>1. CASE writing = noEvent
      <4>1. OnItsWay = incoming
        BY <1>0, <3>1, OnItsWayIs, EventsAreNumbers DEF OnItsWay
      <4> QED BY <1>2, <1>6, <3>1, <4>1
    <3>2. CASE writing # noEvent
      <4>1. PICK q : q = OnItsWay /\ q = <<writing>> \o incoming
        BY <3>2 DEF OnItsWay
      <4>2. Events \in SUBSET Nat /\ writing \in Nat /\ incoming \in Seq(Events)
        BY <1>0, EventsAreNumbers
      <4>3. /\ 1 \in DOMAIN q /\ q[1] = writing
            /\ \A i \in DOMAIN incoming : i + 1 \in DOMAIN q /\ q[i + 1] = incoming[i]
        BY <4>1, <4>2, OnItsWayIs
      <4> QED BY <1>6, <4>1, <4>3
    <3> QED BY <3>1, <3>2
  <2> QED BY <1>3, <2>1, ToldIs
<1> QED BY <1>1, <1>2, <1>4, <1>5, <1>6 DEF Somewhere

\* The invariant holds when the first process starts,
LEMMA InitAlerting ==
    ASSUME AlertingInit PROVE AlertingIInv
<1>0. /\ MaxEvents \in Nat /\ SizeLimit \in Nat \ {0} /\ MaxSecond \in Nat /\ Capacity \in Nat
      /\ JournalInit
  BY JournalAssumption DEF AlertingInit
<1>1. JournalTypeOK
  <2>1. <<>> \in Seq(Events) /\ Len(<<>>) = 0
    OBVIOUS
  <2>2. incoming \in Seq(Events) /\ Len(incoming) <= Capacity
        /\ current \in Seq(Events) /\ Len(current) <= SizeLimit
    BY <1>0, <2>1 DEF JournalInit
  <2>3. rolled \in [Seconds -> Seq(Events)] /\ sending \in [Callers -> Calls \cup {noCall}]
    BY <1>0, <2>1 DEF JournalInit
  <2>4. second \in Seconds /\ next \in 1 .. MaxEvents + 1 /\ fSize \in 0 .. SizeLimit
    BY <1>0 DEF JournalInit, Seconds
  <2> QED BY <1>0, <2>2, <2>3, <2>4 DEF JournalInit, JournalTypeOK
<1>2. Places
  BY <1>0 DEF JournalInit, Places
<1>3. Budget
  <2>1. Waiting = {}
    BY <1>0 DEF JournalInit, Waiting
  <2> QED BY <1>0, <2>1, FS_EmptySet DEF JournalInit, Budget
<1>4. FilesInOrder
  BY <1>0 DEF JournalInit, FilesInOrder, Ascending, Precedes
<1>5. WayInOrder
  BY <1>0 DEF JournalInit, WayInOrder, Older, Ascending, Precedes, Under
<1>6. NoneLost
  BY <1>0 DEF JournalInit, NoneLost
<1>7. AlertVarsOK
  BY CallersSplit DEF AlertingInit, AlertVarsOK, noAlert
<1>8. Locked /\ SendingIsDoing
  BY <1>0, CallersSplit DEF AlertingInit, JournalInit, Locked, SendingIsDoing
<1>9. LastKindKnown
  BY CallersSplit DEF AlertingInit, LastKindKnown, noAlert
<1> QED BY <1>1, <1>2, <1>3, <1>4, <1>5, <1>6, <1>7, <1>8, <1>9 DEF AlertingIInv, JournalIInv

\* and every step keeps it.
LEMMA NextAlerting ==
    ASSUME AlertingIInv, [AlertingNext]_alertingVars PROVE AlertingIInv'
<1>0. /\ JournalTypeOK /\ Places /\ Budget /\ FilesInOrder /\ WayInOrder /\ NoneLost
      /\ AlertVarsOK /\ Locked /\ SendingIsDoing /\ LastKindKnown
  BY DEF AlertingIInv, JournalIInv
<1>1. JournalIInv'
  <2>1. CASE JournalNext
    BY <1>0, <2>1, NextJournalTypes, NextPlaces, NextBudget, NextFilesInOrder, NextWayInOrder,
       NextNoneLost DEF JournalIInv
  <2>2. CASE UNCHANGED journalVars
    <3>1. JournalTypeOK' /\ Places'
      BY <1>0, <2>2 DEF journalVars, handle, files, trail, JournalTypeOK, Places
    <3>2. Budget' /\ FilesInOrder' /\ WayInOrder' /\ NoneLost'
      BY <1>0, <2>2 DEF journalVars, handle, files, trail, Budget, Waiting, FilesInOrder,
                        WayInOrder, Older, NoneLost, Somewhere
    <3> QED BY <3>1, <3>2 DEF JournalIInv
  <2> QED BY <2>1, <2>2, StepIsJournal
<1> QED BY <1>0, <1>1, NextAlertVars, NextLocked, NextLastKind DEF AlertingIInv

\* The inductive invariant of the journal and the alerts.
LEMMA AlertingInvariant == AlertingSpec => []AlertingIInv
<1>1. AlertingInit => AlertingIInv
  BY InitAlerting
<1>2. AlertingIInv /\ [AlertingNext]_alertingVars => AlertingIInv'
  BY NextAlerting
<1> QED BY <1>1, <1>2, PTL DEF AlertingSpec

\* The variables of the journal (fsjournal/fs.go) and of the alerts (alerts.go) keep their
\* types: the channel never holds more than its capacity, the current file never more than
\* the limit, and a caller that waits for room in the channel always finds a number for its
\* event.
THEOREM AlertingTypeCorrect == AlertingSpec => []AlertingTypeOK
<1>1. AlertingIInv => AlertingTypeOK
  BY DEF AlertingIInv, JournalIInv, AlertVarsOK, AlertingTypeOK
<1> QED BY <1>1, AlertingInvariant, PTL

\* The journal is told in the order in which the channel took the events, and none twice,
\* through any number of rolls, faults of the file system and ends of the process
\* (rollJournalFile, fs.go:110).
THEOREM JournalIsInOrder == AlertingSpec => []InOrder
<1>1. AlertingIInv => InOrder
  BY OrderFollows DEF AlertingIInv
<1> QED BY <1>1, AlertingInvariant, PTL

\* Without a fault and without two rolls in one second, an event is lost only with the
\* memory of its process (putEvent, fs.go:91).
THEOREM LossIsExcused == AlertingSpec => []LossExcused
<1>1. AlertingIInv => LossExcused
  BY LossFollows DEF AlertingIInv
<1> QED BY <1>1, AlertingInvariant, PTL

\* Between two changes an alert is active exactly when its last event in the journal says
\* so (update, alerts.go:80), whichever users of the alerts raise and resolve it.
THEOREM AlertsMatchJournal == AlertingSpec => []AlertMatchesJournal
<1>1. AlertingIInv => AlertMatchesJournal
  BY DEF AlertingIInv, LastKindKnown, Behind, AlertMatchesJournal, GetAlerts
<1> QED BY <1>1, AlertingInvariant, PTL
==============================================================================
