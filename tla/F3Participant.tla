---------------------------- MODULE F3Participant ----------------------------
(***************************************************************************)
(* f3participant: for every open miner a Participant goroutine keeps a     *)
(* lease on the next F3 instances with the F3 node; MultiParticipant       *)
(* starts and stops the participants and MonitorMiner follows the miners   *)
(* that are open.                                                          *)
(*                                                                         *)
(* Time is the number of instances that pass.  A call that is answered     *)
(* takes none.  A wait of (ValidityTerm - renewWithin) * CatchUpAlignment  *)
(* lasts at most ValidityTerm - renewWithin instances, because an instance *)
(* is not shorter than the alignment; a backoff may last any number.       *)
(***************************************************************************)
EXTENDS Integers

CONSTANTS
    Miners,
    LeaseTerm,      \* F3LeaseTerm
    MaxAttempts     \* checkProgressMaxAttempts

ASSUME F3Assumption == LeaseTerm \in Nat \ {0, 1} /\ MaxAttempts \in Nat

VARIABLES
    alive,      \* the process has not panicked
    status,     \* the miner manager's view of a miner (see MinerManage)
    parts,      \* keys of MultiParticipant.participants
    p,          \* the Participant of a miner
    monitor,    \* miners MonitorMiner has still to look at in this tick
    stop,       \* MultiParticipant.Stop: "no", "running", "ok" or "error"
    toStop      \* participants it has not stopped yet

multiVars == <<alive, status, parts, monitor, stop, toStop>>
f3Vars == <<multiVars, p>>

Status == {"absent", "closed", "open"}
Calls == {"ticket", "participate", "manifest"}
Counts == 0 .. MaxAttempts + 2

Participant ==
    [step      : Calls \cup {"new", "backoff", "wait", "ended"},
     next      : Calls,             \* the step after a backoff
     cancelled : BOOLEAN,           \* its context is cancelled
     broken    : BOOLEAN,           \* its errgroup holds an error
     attempts  : Counts,            \* the backoff's counter
     ticket    : 0 .. LeaseTerm,    \* instances the ticket is still good for
     lease     : 0 .. LeaseTerm,    \* instances the node's lease is still good for
     budget    : 0 .. LeaseTerm,    \* instances that may pass while it waits
     manifest  : BOOLEAN,           \* it has a manifest of the lease's network
     disturbed : BOOLEAN]           \* history: a call failed since a lease was granted

NewParticipant(step) ==
    [step |-> step, next |-> "ticket", cancelled |-> FALSE, broken |-> FALSE, attempts |-> 0,
     ticket |-> 0, lease |-> 0, budget |-> 0, manifest |-> FALSE,
     disturbed |-> TRUE]

F3TypeOK ==
    /\ alive \in BOOLEAN
    /\ status \in [Miners -> Status]
    /\ parts \subseteq Miners
    /\ p \in [Miners -> Participant]
    /\ monitor \subseteq Miners
    /\ stop \in {"no", "running", "ok", "error"}
    /\ toStop \subseteq Miners

\* NewMultiParticipant makes a participant for every open miner and Start starts them.
F3Init ==
    /\ alive = TRUE
    /\ status \in [Miners -> Status]
    /\ parts = {m \in Miners : status[m] = "open"}
    /\ p = [m \in Miners |-> NewParticipant(IF m \in parts THEN "ticket" ELSE "new")]
    /\ monitor = {}
    /\ stop = "no"
    /\ toStop = {}

Running(m) == p[m].step \notin {"new", "ended"}

------------------------------------------------------------------------------
(* Participant *)

NeverRenew == 0                 \* mutant: the lease is used up before it is renewed

\* renewLeaseWithin
RenewWithin == LeaseTerm \div 2

\* An answer to a call in this step, if the participant is to see it.
Answered(m, call) == alive /\ p[m].step = call /\ ~p[m].cancelled /\ UNCHANGED multiVars

\* run returns and its variables are gone; the node's lease is not.
Ended(m, error) == [NewParticipant("ended") EXCEPT !.cancelled = p[m].cancelled,
                                                   !.lease = p[m].lease, !.broken = error]

\* An RPC or a timer returns to a cancelled context: run returns nil.
Cancelled(m) ==
    /\ alive /\ Running(m) /\ p[m].cancelled
    /\ p' = [p EXCEPT ![m] = Ended(m, FALSE)]
    /\ UNCHANGED multiVars

\* ErrF3Disabled, from any of the three calls: run returns the error.
Disabled(m) ==
    /\ \E call \in Calls : Answered(m, call)
    /\ p' = [p EXCEPT ![m] = Ended(m, TRUE)]

\* Counts matter up to the first that is greater than MaxAttempts + 1.
Saturated(n) == IF n > MaxAttempts + 2 THEN MaxAttempts + 2 ELSE n

\* backoff.Attempt counts the calls of Duration, of which a failed attempt makes two:
\* one for the log line and one for the timer.
CountAttempt(n) == Saturated(n + 2)

BackOff(m, then) ==
    p' = [p EXCEPT ![m].step = "backoff", ![m].next = then,
                   ![m].attempts = CountAttempt(@), ![m].disturbed = TRUE]

\* Leave tryParticipate for another ticket.
AnotherTicket(m) ==
    p' = [p EXCEPT ![m].step = "ticket", ![m].budget = 0, ![m].disturbed = TRUE]

\* tryGetF3ParticipationTicket: a ticket for LeaseTerm instances; tryParticipate begins.
GotTicket(m) ==
    /\ Answered(m, "ticket")
    /\ p' = [p EXCEPT ![m].step = "participate", ![m].ticket = LeaseTerm, ![m].attempts = 0,
                      ![m].manifest = FALSE]

\* ... or an error.
TicketError(m) == Answered(m, "ticket") /\ BackOff(m, "ticket")

\* The lease is granted for what is left of the ticket.  At mid-term a new ticket is due;
Renew(m) ==
    /\ Answered(m, "participate")
    /\ p[m].ticket \in 1 .. RenewWithin
    /\ p' = [p EXCEPT ![m].step = "ticket", ![m].lease = p[m].ticket]

\* before it, the participant waits, once it has the manifest of the lease's network.
Granted(m) ==
    /\ Answered(m, "participate")
    /\ p[m].ticket > RenewWithin
    /\ \E s \in {"manifest"} \cup IF p[m].manifest THEN {"wait"} ELSE {} :
          p' = [p EXCEPT ![m].step = s, ![m].lease = p[m].ticket, ![m].attempts = 0,
                         ![m].disturbed = FALSE, ![m].budget = p[m].ticket - RenewWithin]

\* mutant: again with the ticket that was refused
RetryRefused(m) == Answered(m, "participate") /\ BackOff(m, "participate")

\* ErrF3ParticipationTicketExpired or ...StartBeforeExisting: another ticket.
TicketRefused(m) == Answered(m, "participate") /\ AnotherTicket(m)

\* ErrF3ParticipationTicketInvalid: another ticket, after a backoff.
TicketInvalid(m) == Answered(m, "participate") /\ BackOff(m, "ticket")

\* ErrF3ParticipationIssuerMismatch or ErrF3NotReady: again with the same ticket.
NotThisNode(m) == Answered(m, "participate") /\ BackOff(m, "participate")

\* Any other error: again with the same ticket, until the counter says enough.
Unexpected(m) ==
    /\ Answered(m, "participate")
    /\ IF p[m].attempts > MaxAttempts
       THEN p' = [p EXCEPT ![m].step = "ticket", ![m].disturbed = TRUE]
       ELSE BackOff(m, "participate")

\* getManifest: the lease's network, so wait; another network, so another ticket; an
\* error or no manifest, so again.
GotManifest(m) ==
    /\ Answered(m, "manifest")
    /\ p' = [p EXCEPT ![m].step = "wait", ![m].manifest = TRUE]

OtherNetwork(m) == Answered(m, "manifest") /\ AnotherTicket(m)

NoManifest(m) == Answered(m, "manifest") /\ BackOff(m, "manifest")

\* A timer fires: after the wait the lease is checked with the same ticket.
Wake(m) ==
    /\ alive /\ ~p[m].cancelled
    /\ p[m].step \in {"wait", "backoff"}
    /\ p' = [p EXCEPT ![m].step = IF @ = "wait" THEN "participate" ELSE p[m].next,
                      ![m].next = "ticket",
                      ![m].budget = IF p[m].next = "manifest" THEN @ ELSE 0]
    /\ UNCHANGED multiVars

Elapse(n) == IF n = 0 THEN 0 ELSE n - 1

\* F3 goes to its next instance.
Instance(m) ==
    /\ alive
    /\ p[m].step = "backoff" \/ (p[m].step = "wait" /\ p[m].budget > 0)
    /\ p' = [p EXCEPT ![m].ticket = Elapse(@), ![m].lease = Elapse(@),
                      ![m].budget = IF p[m].step = "wait" THEN @ - 1 ELSE @]
    /\ UNCHANGED multiVars

------------------------------------------------------------------------------
(* MultiParticipant *)

\* The miner manager's cache changes (ManualStart, ManualStop, UpdateAddress).
StatusChange(m, s) ==
    /\ alive /\ status[m] # s
    /\ status' = [status EXCEPT ![m] = s]
    /\ UNCHANGED <<alive, parts, p, monitor, stop, toStop>>

\* MonitorMiner's ticker: the miners listed now; a List that fails changes nothing.
MonitorTick ==
    /\ alive /\ monitor = {}
    /\ monitor' = {m \in Miners : status[m] # "absent"}
    /\ UNCHANGED <<alive, status, parts, p, stop, toStop>>

\* Stop and MonitorMiner use the map without a lock.
MayAbort == alive' = TRUE \/ (alive' = FALSE /\ stop = "running")

RemoveNobody(m) == FALSE /\ UNCHANGED f3Vars       \* mutant

\* removeParticipant deletes the participant, cancels it and waits for it.
RemoveParticipant(m) ==
    /\ alive /\ m \in monitor
    /\ status[m] # "open"
    /\ m \in parts
    /\ MayAbort
    /\ parts' = parts \ {m}
    /\ p' = [p EXCEPT ![m].cancelled = TRUE]
    /\ UNCHANGED <<status, monitor, stop, toStop>>

\* addParticipant starts the participant it looked up, which is nil, and not the one
\* it has just inserted.
AddParticipant(m) ==
    /\ alive /\ m \in monitor
    /\ status[m] = "open"
    /\ m \notin parts
    /\ parts' = parts \cup {m}
    /\ alive' = FALSE
    /\ UNCHANGED <<status, p, monitor, stop, toStop>>

\* Nothing to do for m, or its participant has ended.
Monitored(m) ==
    /\ alive /\ m \in monitor
    /\ IF status[m] = "open" THEN m \in parts ELSE m \notin parts /\ ~Running(m)
    /\ monitor' = monitor \ {m}
    /\ UNCHANGED <<alive, status, parts, p, stop, toStop>>

\* Stop, once, when the node shuts down.
Stop ==
    /\ alive /\ stop = "no"
    /\ stop' = "running"
    /\ toStop' = parts
    /\ UNCHANGED <<alive, status, parts, p, monitor>>

\* mutant: the context is not cancelled
StopNotCancelled(m) == FALSE /\ UNCHANGED f3Vars

\* Participant.Stop cancels ...
StopOne(m) ==
    /\ alive /\ stop = "running"
    /\ m \in toStop /\ \A k \in toStop : ~p[k].cancelled
    /\ p' = [p EXCEPT ![m].cancelled = TRUE]
    /\ UNCHANGED multiVars

\* mutant: ... and does not wait
StoppedAtOnce(m) ==
    /\ alive /\ stop = "running"
    /\ m \in toStop /\ p[m].cancelled
    /\ toStop' = toStop \ {m}
    /\ UNCHANGED <<alive, status, parts, p, monitor, stop>>

\* ... and waits; the first error is returned, and the participants after it run on.
Stopped(m) ==
    /\ alive /\ stop = "running"
    /\ m \in toStop /\ p[m].cancelled /\ ~Running(m)
    /\ IF p[m].broken THEN stop' = "error" /\ UNCHANGED toStop
       ELSE toStop' = toStop \ {m} /\ UNCHANGED stop
    /\ UNCHANGED <<alive, status, parts, p, monitor>>

StopReturn ==
    /\ alive /\ stop = "running" /\ toStop = {}
    /\ stop' = "ok"
    /\ UNCHANGED <<alive, status, parts, p, monitor, toStop>>

------------------------------------------------------------------------------
F3Next ==
    \/ \E m \in Miners :
          \/ Cancelled(m) \/ Disabled(m)
          \/ GotTicket(m) \/ TicketError(m)
          \/ Renew(m) \/ Granted(m) \/ TicketRefused(m) \/ TicketInvalid(m) \/ NotThisNode(m) \/ Unexpected(m)
          \/ GotManifest(m) \/ OtherNetwork(m) \/ NoManifest(m)
          \/ Wake(m) \/ Instance(m)
          \/ RemoveParticipant(m) \/ AddParticipant(m) \/ Monitored(m)
          \/ StopOne(m) \/ Stopped(m)
          \/ \E s \in Status : StatusChange(m, s)
    \/ MonitorTick \/ Stop \/ StopReturn

(***************************************************************************)
(* Timers fire, a cancelled call returns, and a call that is made again    *)
(* and again is answered one day.  With a ticket that has expired, that    *)
(* answer says so: a participant that is only ever told of another issuer  *)
(* never asks for a new ticket.                                            *)
(***************************************************************************)
F3Spec ==
    /\ F3Init
    /\ [][F3Next]_f3Vars
    /\ WF_f3Vars(MonitorTick)
    /\ WF_f3Vars(StopReturn)
    /\ \A m \in Miners :
         /\ WF_f3Vars(Cancelled(m))
         /\ WF_f3Vars(Wake(m))
         /\ SF_f3Vars(GotTicket(m))
         /\ SF_f3Vars(Granted(m))
         /\ SF_f3Vars(Renew(m))
         /\ SF_f3Vars(p[m].ticket = 0 /\ TicketRefused(m))
         /\ SF_f3Vars(GotManifest(m))
         /\ WF_f3Vars(RemoveParticipant(m))
         /\ WF_f3Vars(AddParticipant(m))
         /\ WF_f3Vars(Monitored(m))
         /\ WF_f3Vars(StopOne(m))
         /\ WF_f3Vars(Stopped(m))

------------------------------------------------------------------------------
(* Properties *)

\* A participant that holds a lease renews it before it runs out (participation.go:173),
\* unless a call has failed since it was last granted one.
LeaseKept ==
    \A m \in Miners : Running(m) /\ ~p[m].cancelled /\ ~p[m].disturbed => p[m].lease > 0

\* When MultiParticipant.Stop returns nil (multiparticipation.go:91) nothing of it runs
\* but what MonitorMiner is removing; an error means that some participant had ended on
\* its own, because F3 is disabled.
StopExcused ==
    /\ stop = "ok" => \A m \in Miners : Running(m) => m \in monitor
    /\ stop = "error" => \E m \in Miners : p[m].broken

\* Whatever the node answers in between, a participant that goes on running gets a
\* lease again and again.
LeaseRecurs ==
    \A m \in Miners : <>[](alive /\ Running(m) /\ ~p[m].cancelled) => []<>(p[m].lease > 0)

\* MonitorMiner (multiparticipation.go:121) ends the participant of a miner that stays
\* closed, unless adding a miner has ended the process.  A miner that is no longer listed
\* at all keeps its participant.
ClosedLeaves ==
    \A m \in Miners : <>[](status[m] = "closed") => <>[](~alive \/ ~Running(m))

\* Stop returns.
StopReturns == stop = "running" ~> (stop # "running" \/ ~alive)
==============================================================================
