------------------------------- MODULE Journal -------------------------------
(***************************************************************************)
(* lib/journal and lib/journal/fsjournal: the audit trail.  RecordEvent    *)
(* hands an event to a buffered channel, runLoop writes the events to the  *)
(* current file and rolls that file, under a name with the resolution of a *)
(* second, when it is full.  The process may crash at any step; the next   *)
(* one opens the journal again, which also rolls.                          *)
(*                                                                         *)
(* An event is its number, in the order in which the channel takes them;   *)
(* the size of a file is its number of events.                             *)
(***************************************************************************)
EXTENDS Integers, FiniteSets, Sequences, SequencesExt

CONSTANTS
    Callers,            \* goroutines that record events
    Types,              \* event types, "system:event"
    DisabledEvents,     \* DisabledEvents of the environment, a set of types
    Kinds,              \* what an event says
    Capacity,           \* of the channel incoming, 32 in the code
    SizeLimit,          \* events in a file, 1 GiB in the code
    MaxEvents,          \* bound: events recorded
    MaxSecond,          \* bound: seconds the clock runs
    Faults              \* system calls that may fail: "write", "stat", "rename", "create"

ASSUME JournalAssumption ==
    /\ IsFiniteSet(Callers)
    /\ DisabledEvents \subseteq Types
    /\ Capacity \in Nat \ {0}
    /\ SizeLimit \in Nat \ {0}
    /\ MaxEvents \in Nat
    /\ MaxSecond \in Nat

Events == 1 .. MaxEvents
Calls == [type : Types, kind : Kinds]
Seconds == 0 .. MaxSecond
noEvent == 0
noCall == [type |-> "none"]

VARIABLES
    loop,       \* runLoop, or the opening of the journal: "down" when the process is
    opening,    \* rollJournalFile is called by OpenFSJournal
    incoming,   \* the channel
    writing,    \* the event putEvent writes
    closing,    \* the channels closing and closed
    closed,
    fi,         \* f.fi is open
    fSize,
    current,    \* the current file, if there is one, and the rolled ones
    exists,
    rolled,
    sending,    \* the event of each caller in the select of RecordEvent
    second,     \* the clock
    next,       \* the number of the next event
    ended,      \* history: events still in memory when their process ended
    failed,     \* history: some system call failed
    clashed     \* history: two files were rolled in the same second

files == <<current, exists, rolled>>
handle == <<fi, fSize>>
trail == <<ended, failed, clashed>>
journalVars == <<loop, opening, incoming, writing, closing, closed, handle, files,
                 sending, second, next, trail>>

JournalTypeOK ==
    /\ loop \in {"down", "select", "write", "stat", "rename", "create", "done"}
    /\ opening \in BOOLEAN
    /\ incoming \in Seq(Events) /\ Len(incoming) <= Capacity
    /\ writing \in Events \cup {noEvent}
    /\ closing \in BOOLEAN /\ closed \in BOOLEAN
    /\ fi \in BOOLEAN /\ fSize \in 0 .. SizeLimit
    /\ current \in Seq(Events) /\ Len(current) <= SizeLimit
    /\ exists \in BOOLEAN
    /\ rolled \in [Seconds -> Seq(Events)]
    /\ sending \in [Callers -> Calls \cup {noCall}]
    /\ second \in Seconds
    /\ next \in 1 .. MaxEvents + 1
    /\ ended \subseteq Events
    /\ failed \in BOOLEAN /\ clashed \in BOOLEAN

JournalInit ==
    /\ loop = "down" /\ opening = FALSE
    /\ incoming = <<>> /\ writing = noEvent
    /\ closing = FALSE /\ closed = FALSE
    /\ fi = FALSE /\ fSize = 0
    /\ current = <<>> /\ exists = FALSE
    /\ rolled = [s \in Seconds |-> <<>>]
    /\ sending = [c \in Callers |-> noCall]
    /\ second = 0
    /\ next = 1
    /\ ended = {}
    /\ failed = FALSE /\ clashed = FALSE

\* The journal that the callers hold has been opened.
Opened == ~opening /\ loop # "down"

------------------------------------------------------------------------------
(* RecordEvent *)

\* RegisterEventType: the token of a type is disabled when the registry was built with it.
RegisterEventType(t) == t \notin DisabledEvents

\* The body of RecordEvent up to its select; a disabled type, or a supplier that panics,
\* records nothing.
RecordEvent(c, t, kind) ==
    /\ Opened
    /\ sending[c] = noCall
    /\ next + Cardinality({d \in Callers : sending[d] # noCall}) <= MaxEvents
    /\ sending' = [sending EXCEPT ![c] = [type |-> t, kind |-> kind]]
    /\ UNCHANGED <<loop, opening, incoming, writing, closing, closed, handle, files, second, next, trail>>

\* Its select: the channel takes the event, waiting for room,
Send(c) ==
    /\ sending[c] # noCall
    /\ Len(incoming) < Capacity
    /\ incoming' = Append(incoming, next)
    /\ next' = next + 1
    /\ sending' = [sending EXCEPT ![c] = noCall]
    /\ UNCHANGED <<loop, opening, writing, closing, closed, handle, files, second, trail>>

\* mutant: the select does not wait for closing
NeverDrop(c) == FALSE /\ UNCHANGED journalVars

\* or the journal is closing and the event is dropped.
Drop(c) ==
    /\ sending[c] # noCall
    /\ closing
    /\ sending' = [sending EXCEPT ![c] = noCall]
    /\ UNCHANGED <<loop, opening, incoming, writing, closing, closed, handle, files, second,
                   next, trail>>

------------------------------------------------------------------------------
(* runLoop and putEvent *)

Receive ==
    /\ loop = "select"
    /\ incoming # <<>>
    /\ writing' = Head(incoming)
    /\ incoming' = Tail(incoming)
    /\ loop' = "write"
    /\ UNCHANGED <<opening, closing, closed, handle, files, sending, second, next, trail>>

Fails(call) == call \in Faults /\ failed' = TRUE

Full(n) == n >= SizeLimit

Write ==
    /\ loop = "write"
    /\ fi
    /\ current' = Append(current, writing)
    /\ fSize' = fSize + 1
    /\ loop' = IF Full(fSize') THEN "stat" ELSE "select"
    /\ fi' = ~Full(fSize')                  \* rollJournalFile closes the file first
    /\ writing' = noEvent
    /\ UNCHANGED <<opening, incoming, closing, closed, exists, rolled, sending, second, next, trail>>

\* The event cannot be marshalled or written, or the file was closed by a roll that
\* failed: the event is logged and lost.
WriteFails ==
    /\ loop = "write"
    /\ IF fi THEN Fails("write") ELSE UNCHANGED failed
    /\ loop' = "select"
    /\ writing' = noEvent
    /\ UNCHANGED <<opening, incoming, closing, closed, handle, files, sending, second, next,
                   ended, clashed>>

\* mutant: closed is not closed
LoopForgets ==
    /\ loop = "select"
    /\ closing
    /\ loop' = "done"
    /\ fi' = FALSE
    /\ ended' = ended \cup ToSet(incoming)
    /\ UNCHANGED <<opening, incoming, writing, closing, closed, fSize, files, sending, second, next,
                   failed, clashed>>

\* runLoop sees closing: what is still in the channel is lost.
LoopCloses ==
    /\ loop = "select"
    /\ closing
    /\ loop' = "done"
    /\ closed' = TRUE
    /\ fi' = FALSE
    /\ ended' = ended \cup ToSet(incoming)
    /\ UNCHANGED <<opening, incoming, writing, closing, fSize, files, sending, second, next,
                   failed, clashed>>

------------------------------------------------------------------------------
(* rollJournalFile *)

Rolling(step) ==
    /\ loop = step
    /\ UNCHANGED <<incoming, writing, closing, closed, sending, second, next, ended>>

\* A failing stat is taken for an absent file.
Stat ==
    /\ Rolling("stat")
    /\ \/ /\ loop' = IF exists THEN "rename" ELSE "create"
          /\ UNCHANGED failed
       \/ /\ exists /\ Fails("stat")
          /\ loop' = "create"
    /\ UNCHANGED <<opening, handle, files, clashed>>

KeepCurrent(s) == UNCHANGED <<rolled, clashed>>    \* mutant: the file is not kept

\* The current file becomes the rolled file of second s, over the one that is there.
RollTo(s) ==
    /\ rolled' = [rolled EXCEPT ![s] = current]
    /\ clashed' = (clashed \/ rolled[s] # <<>>)

RenameCopies ==    \* mutant: the file is copied, and truncated by the create
    /\ Rolling("rename")
    /\ RollTo(second)
    /\ loop' = "create"
    /\ UNCHANGED <<opening, handle, current, exists, failed>>

Rename ==
    /\ Rolling("rename")
    /\ RollTo(second)
    /\ current' = <<>> /\ exists' = FALSE
    /\ loop' = "create"
    /\ UNCHANGED <<opening, handle, failed>>

Create ==
    /\ Rolling("create")
    /\ current' = <<>> /\ exists' = TRUE
    /\ fi' = TRUE /\ fSize' = 0
    /\ loop' = "select" /\ opening' = FALSE
    /\ UNCHANGED <<rolled, failed, clashed>>

\* The rename or the create fails.  putEvent ignores it and leaves the closed file in
\* f.fi; OpenFSJournal returns it and the node does not start.
RollFails ==
    /\ \E step \in {"rename", "create"} : Rolling(step) /\ Fails(step)
    /\ loop' = IF opening THEN "down" ELSE "select"
    /\ opening' = FALSE
    /\ UNCHANGED <<handle, files, clashed>>

------------------------------------------------------------------------------
(* The process: OpenFSJournal, Close (the fx hook, once) and a crash *)

OpenFSJournal ==
    /\ loop = "down"
    /\ loop' = "stat" /\ opening' = TRUE
    /\ UNCHANGED <<incoming, writing, closing, closed, handle, files, sending, second, next, trail>>

Close ==
    /\ Opened
    /\ ~closing
    /\ closing' = TRUE
    /\ UNCHANGED <<loop, opening, incoming, writing, closed, handle, files, sending, second, next, trail>>

\* The process ends, at any step or after its Close.
Exit ==
    /\ loop # "down"
    /\ loop' = "down" /\ opening' = FALSE
    /\ incoming' = <<>> /\ writing' = noEvent
    /\ closing' = FALSE /\ closed' = FALSE
    /\ fi' = FALSE /\ fSize' = 0
    /\ sending' = [c \in Callers |-> noCall]
    /\ ended' = ended \cup ToSet(incoming) \cup ({writing} \ {noEvent})
    /\ UNCHANGED <<files, second, next, failed, clashed>>

Tick ==
    /\ second < MaxSecond
    /\ second' = second + 1
    /\ UNCHANGED <<loop, opening, incoming, writing, closing, closed, handle, files, sending, next, trail>>

\* Everything but the calls of RecordEvent.
JournalRuns ==
    \/ \E c \in Callers : Send(c) \/ Drop(c)
    \/ Receive \/ Write \/ WriteFails \/ LoopCloses
    \/ Stat \/ Rename \/ Create \/ RollFails
    \/ OpenFSJournal \/ Close \/ Tick

LoopSteps == Receive \/ Write \/ WriteFails \/ Stat \/ Rename \/ Create \/ RollFails

\* The goroutines run; a select with several ready cases takes each sooner or later, and
\* senders wait for a full channel in turn.
JournalFairness ==
    /\ WF_journalVars(LoopSteps)
    /\ SF_journalVars(LoopCloses)
    /\ \A c \in Callers : SF_journalVars(Send(c)) /\ WF_journalVars(Drop(c))

------------------------------------------------------------------------------
(* Properties *)

\* The files by age, the current one last, then what is on its way to them.
OnItsWay == (IF writing = noEvent THEN <<>> ELSE <<writing>>) \o incoming
Told == [p \in 0 .. MaxSecond + 2 |-> CASE p \in Seconds       -> rolled[p]
                                        [] p = MaxSecond + 1 -> current
                                        [] p = MaxSecond + 2 -> OnItsWay]

\* With no fault of the file system, and no two files rolled in the same second
\* (fs.go:115), an event that the channel took is in a file or on its way to one, however
\* often the file is rolled and the process closed, killed and started, unless it was
\* still in memory when its process ended.
LossExcused ==
    ~failed /\ ~clashed =>
       (1 .. next - 1) \ ended \subseteq UNION {ToSet(Told[p]) : p \in DOMAIN Told}

\* The journal tells the events in the order in which the channel took them, and none
\* twice: the rolled files by their names (fs.go:115), then the current one, then the channel,
\* also after faults, crashes and two rolls in one second.
InOrder ==
    \A p, q \in DOMAIN Told : \A i \in DOMAIN Told[p], j \in DOMAIN Told[q] :
       p < q \/ (p = q /\ i < j) => Told[p][i] < Told[q][j]

\* Close returns (fs.go:85), unless the process is killed meanwhile.
CloseReturns == closing ~> closed \/ ~closing
==============================================================================
