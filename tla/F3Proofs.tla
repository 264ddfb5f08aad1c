------------------------------- MODULE F3Proofs -------------------------------
(***************************************************************************)
(* Proofs about F3Participant, for any number of miners, any lease term of *)
(* two or more instances and any number of attempts.                       *)
(***************************************************************************)
EXTENDS F3Participant, TLAPS

\* While no call has failed, the lease outlasts what is left of the wait by the time that
\* renewing it may take, and is good in every step between two waits.
LeaseOK(r) ==
    ~r.disturbed =>
       /\ r.step # "backoff"
       /\ r.lease > 0
       /\ r.step \in {"manifest", "wait"} => r.lease >= r.budget + RenewWithin

LeaseInv == \A m \in Miners : LeaseOK(p[m])

\* What runs is in the map, or MonitorMiner has just taken it out and waits for it.
RunningKnown == \A m \in Miners : Running(m) => m \in parts \cup monitor

\* Once Stop has begun, what runs it has still to stop, or MonitorMiner is removing it; the
\* participant that ended with an error stays as it is.
StopInv ==
    /\ stop \in {"running", "ok"} =>
          \A m \in Miners :
             Running(m) => m \in toStop \/ (m \in monitor /\ (alive => m \notin parts))
    /\ stop = "ok" => toStop = {}
    /\ stop = "error" => \E m \in Miners : p[m].broken /\ ~Running(m)

------------------------------------------------------------------------------
(* Type correctness *)

\* renewLeaseWithin is at least one instance and less than the term.
LEMMA RenewWithinType == RenewWithin \in 1 .. LeaseTerm - 1
  BY F3Assumption DEF RenewWithin

\* The backoff's counter stays in its range.
LEMMA CountType == ASSUME NEW n \in Counts PROVE CountAttempt(n) \in Counts
  BY F3Assumption DEF CountAttempt, Saturated, Counts

\* A participant as it is made, and as it ends.
LEMMA NewType ==
    ASSUME NEW s \in {"new", "ticket", "ended"} PROVE NewParticipant(s) \in Participant
  BY F3Assumption DEF NewParticipant, Participant, Calls, Counts

\* The steps of a participant's goroutine change that participant only.
OwnStep(m) ==
    \/ Cancelled(m) \/ Disabled(m)
    \/ GotTicket(m) \/ TicketError(m)
    \/ Renew(m) \/ Granted(m) \/ TicketRefused(m) \/ TicketInvalid(m)
    \/ NotThisNode(m) \/ Unexpected(m)
    \/ GotManifest(m) \/ OtherNetwork(m) \/ NoManifest(m)
    \/ Wake(m) \/ Instance(m)

\* ... of its own record, to a record.
LEMMA OwnType ==
    ASSUME F3TypeOK, NEW m \in Miners, OwnStep(m)
    PROVE  /\ UNCHANGED multiVars
           /\ p'[m] \in Participant
           /\ p' = [p EXCEPT ![m] = p'[m]]
<1> DEFINE Terms == 0 .. LeaseTerm
<1>a. p[m] \in Participant /\ p \in [Miners -> Participant]
  BY DEF F3TypeOK
<1>b. /\ p[m].ticket \in Terms /\ p[m].lease \in Terms /\ p[m].budget \in Terms
      /\ p[m].attempts \in Counts /\ CountAttempt(p[m].attempts) \in Counts
      /\ 0 \in Terms /\ LeaseTerm \in Terms /\ 0 \in Counts
  BY <1>a, CountType, F3Assumption DEF Participant, Counts
<1>c. /\ Elapse(p[m].ticket) \in Terms /\ Elapse(p[m].lease) \in Terms
      /\ p[m].ticket > RenewWithin => p[m].ticket - RenewWithin \in Terms
      /\ p[m].budget > 0 => p[m].budget - 1 \in Terms
  BY <1>b, RenewWithinType, F3Assumption DEF Elapse
<1>d. Ended(m, TRUE) \in Participant /\ Ended(m, FALSE) \in Participant
  <2>1. NewParticipant("ended") \in Participant
    BY NewType
  <2> QED BY <1>a, <2>1, Zenon DEF Ended, Participant
<1>e. {"ticket", "participate", "manifest", "wait", "backoff"}
         \subseteq Calls \cup {"new", "backoff", "wait", "ended"}
  BY DEF Calls
<1>f. {"ticket", "participate", "manifest"} \subseteq Calls /\ p[m].next \in Calls
  BY <1>a DEF Calls, Participant
<1> HIDE DEF Terms
<1>1. CASE Cancelled(m)
  BY <1>1, <1>a, <1>d, Zenon DEF Cancelled, Participant, Terms
<1>2. CASE Disabled(m)
  BY <1>2, <1>a, <1>d, Zenon DEF Disabled, Answered, Participant, Terms
<1>3. CASE GotTicket(m)
  BY <1>3, <1>a, <1>b, <1>e, Zenon DEF GotTicket, Answered, Participant, Terms
<1>4. CASE TicketError(m)
  BY <1>4, <1>a, <1>b, <1>e, <1>f, Zenon DEF TicketError, Answered, BackOff, Participant, Terms
<1>5. CASE Renew(m)
  BY <1>5, <1>a, <1>b, <1>e, Zenon DEF Renew, Answered, Participant, Terms
<1>6. CASE Granted(m)
  <2>1. PICK s \in {"manifest", "wait"} :
             p' = [p EXCEPT ![m].step = s, ![m].lease = p[m].ticket, ![m].attempts = 0,
                            ![m].disturbed = FALSE, ![m].budget = p[m].ticket - RenewWithin]
    BY <1>6 DEF Granted
  <2>2. p[m].ticket - RenewWithin \in Terms /\ s \in Calls \cup {"new", "backoff", "wait", "ended"}
    BY <1>6, <2>1, <1>c, <1>e DEF Granted
  <2>3. UNCHANGED multiVars
    BY <1>6 DEF Granted, Answered
  <2> QED BY <2>1, <2>2, <2>3, <1>a, <1>b, Zenon DEF Participant, Terms
<1>7. CASE TicketRefused(m)
  BY <1>7, <1>a, <1>b, <1>e, Zenon DEF TicketRefused, Answered, AnotherTicket, Participant, Terms
<1>8. CASE TicketInvalid(m)
  BY <1>8, <1>a, <1>b, <1>e, <1>f, Zenon DEF TicketInvalid, Answered, BackOff, Participant, Terms
<1>9. CASE NotThisNode(m)
  BY <1>9, <1>a, <1>b, <1>e, <1>f, Zenon DEF NotThisNode, Answered, BackOff, Participant, Terms
<1>10. CASE Unexpected(m)
  <2>1. UNCHANGED multiVars
    BY <1>10 DEF Unexpected, Answered
  <2>2. CASE p' = [p EXCEPT ![m].step = "ticket", ![m].disturbed = TRUE]
    BY <2>1, <2>2, <1>a, <1>e, Zenon DEF Participant
  <2>3. CASE BackOff(m, "participate")
    BY <2>1, <2>3, <1>a, <1>b, <1>e, <1>f, Zenon DEF BackOff, Participant, Terms
  <2> QED BY <1>10, <2>2, <2>3 DEF Unexpected
<1>11. CASE GotManifest(m)
  BY <1>11, <1>a, <1>e, Zenon DEF GotManifest, Answered, Participant, Terms
<1>12. CASE OtherNetwork(m)
  BY <1>12, <1>a, <1>b, <1>e, Zenon DEF OtherNetwork, Answered, AnotherTicket, Participant, Terms
<1>13. CASE NoManifest(m)
  BY <1>13, <1>a, <1>b, <1>e, <1>f, Zenon DEF NoManifest, Answered, BackOff, Participant, Terms
<1>14. CASE Wake(m)
  BY <1>14, <1>a, <1>b, <1>e, <1>f, Zenon DEF Wake, Participant, Terms
<1>15. CASE Instance(m)
  BY <1>15, <1>a, <1>b, <1>c, Zenon DEF Instance, Participant, Terms
<1> QED BY <1>1, <1>2, <1>3, <1>4, <1>5, <1>6, <1>7, <1>8, <1>9, <1>10, <1>11, <1>12, <1>13,
    <1>14, <1>15 DEF OwnStep

\* The initial state is well formed.
LEMMA InitF3TypeOK == F3Init => F3TypeOK
<1> SUFFICES ASSUME F3Init PROVE F3TypeOK
  OBVIOUS
<1>1. \A m \in Miners : NewParticipant(IF m \in parts THEN "ticket" ELSE "new") \in Participant
  BY NewType
<1>2. p \in [Miners -> Participant]
  BY <1>1 DEF F3Init
<1> QED BY <1>2, Zenon DEF F3Init, F3TypeOK

\* A context that is cancelled.
LEMMA CancelType ==
    ASSUME F3TypeOK, NEW m \in Miners, p' = [p EXCEPT ![m].cancelled = TRUE]
    PROVE  /\ p'[m] \in Participant /\ p'[m] = [p[m] EXCEPT !.cancelled = TRUE]
           /\ p' = [p EXCEPT ![m] = p'[m]]
  BY ZenonT(40) DEF F3TypeOK, Participant

\* Every step of a participant, of MonitorMiner, of Stop and of the miner manager keeps
\* the types.
LEMMA NextF3TypeOK == F3TypeOK /\ [F3Next]_f3Vars => F3TypeOK'
<1> SUFFICES ASSUME F3TypeOK, [F3Next]_f3Vars PROVE F3TypeOK'
  OBVIOUS
<1>1. ASSUME NEW m \in Miners, OwnStep(m) PROVE F3TypeOK'
  BY <1>1, OwnType DEF F3TypeOK, multiVars
<1>2. ASSUME NEW m \in Miners, RemoveParticipant(m) \/ StopOne(m) PROVE F3TypeOK'
  BY <1>2, CancelType DEF RemoveParticipant, MayAbort, StopOne, F3TypeOK, multiVars
<1>3. ASSUME NEW m \in Miners, AddParticipant(m) \/ Monitored(m) \/ Stopped(m) PROVE F3TypeOK'
  BY <1>3 DEF AddParticipant, Monitored, Stopped, F3TypeOK
<1>4. ASSUME NEW m \in Miners, NEW s \in Status, StatusChange(m, s) PROVE F3TypeOK'
  BY <1>4 DEF StatusChange, F3TypeOK
<1>5. CASE MonitorTick \/ Stop \/ StopReturn
  BY <1>5 DEF MonitorTick, Stop, StopReturn, F3TypeOK
<1>6. CASE UNCHANGED f3Vars
  BY <1>6 DEF f3Vars, multiVars, F3TypeOK
<1> QED BY <1>1, <1>2, <1>3, <1>4, <1>5, <1>6 DEF F3Next, OwnStep

\* Type correctness of the participants and of the map that holds them.
THEOREM F3TypeCorrect == F3Spec => []F3TypeOK
  BY InitF3TypeOK, NextF3TypeOK, PTL DEF F3Spec

------------------------------------------------------------------------------
(* The lease *)

\* A participant's own steps: the lease is renewed before the wait has used it up.
LEMMA OwnLease ==
    ASSUME F3TypeOK, NEW m \in Miners, LeaseOK(p[m]), OwnStep(m)
    PROVE  LeaseOK(p'[m])
<1>a. p \in [Miners -> Participant] /\ p[m] \in Participant
  BY DEF F3TypeOK
<1>b. /\ p[m].ticket \in 0 .. LeaseTerm /\ p[m].lease \in 0 .. LeaseTerm
      /\ p[m].budget \in 0 .. LeaseTerm
  BY <1>a DEF Participant
<1> USE RenewWithinType
<1>1. CASE Cancelled(m)
  BY <1>1, <1>a, <1>b DEF Cancelled, LeaseOK, Ended, NewParticipant
<1>2. CASE Disabled(m)
  BY <1>2, <1>a, <1>b DEF Disabled, Answered, LeaseOK, Ended, NewParticipant
<1>3. CASE GotTicket(m)
  BY <1>3, <1>a, <1>b DEF GotTicket, Answered, LeaseOK
<1>4. CASE TicketError(m)
  BY <1>4, <1>a, <1>b DEF TicketError, Answered, BackOff, LeaseOK
<1>5. CASE Renew(m)
  BY <1>5, <1>a, <1>b DEF Renew, Answered, LeaseOK
<1>6. CASE Granted(m)
  BY <1>6, <1>a, <1>b DEF Granted, Answered, LeaseOK
<1>7. CASE TicketRefused(m)
  BY <1>7, <1>a, <1>b DEF TicketRefused, Answered, AnotherTicket, LeaseOK
<1>8. CASE TicketInvalid(m)
  BY <1>8, <1>a, <1>b DEF TicketInvalid, Answered, BackOff, LeaseOK
<1>9. CASE NotThisNode(m)
  BY <1>9, <1>a, <1>b DEF NotThisNode, Answered, BackOff, LeaseOK
<1>10. CASE Unexpected(m)
  <2>1. CASE p' = [p EXCEPT ![m].step = "ticket", ![m].disturbed = TRUE]
    BY <2>1, <1>a DEF LeaseOK
  <2>2. CASE BackOff(m, "participate")
    BY <2>2, <1>a DEF BackOff, LeaseOK
  <2> QED BY <1>10, <2>1, <2>2 DEF Unexpected
<1>11. CASE GotManifest(m)
  BY <1>11, <1>a, <1>b DEF GotManifest, Answered, LeaseOK
<1>12. CASE OtherNetwork(m)
  BY <1>12, <1>a, <1>b DEF OtherNetwork, Answered, AnotherTicket, LeaseOK
<1>13. CASE NoManifest(m)
  BY <1>13, <1>a, <1>b DEF NoManifest, Answered, BackOff, LeaseOK
<1>14. CASE Wake(m)
  BY <1>14, <1>a, <1>b DEF Wake, LeaseOK
<1>15. CASE Instance(m)
  BY <1>15, <1>a, <1>b DEF Instance, LeaseOK, Elapse
<1> QED BY <1>1, <1>2, <1>3, <1>4, <1>5, <1>6, <1>7, <1>8, <1>9, <1>10, <1>11, <1>12, <1>13,
    <1>14, <1>15 DEF OwnStep

\* Nobody else touches a lease.
LEMMA NextLeaseInv == F3TypeOK /\ LeaseInv /\ [F3Next]_f3Vars => LeaseInv'
<1> SUFFICES ASSUME F3TypeOK, LeaseInv, [F3Next]_f3Vars PROVE LeaseInv'
  OBVIOUS
<1>1. ASSUME NEW m \in Miners, OwnStep(m) PROVE LeaseInv'
  <2>1. LeaseOK(p'[m])
    BY <1>1, OwnLease DEF LeaseInv
  <2>2. \A k \in Miners \ {m} : p'[k] = p[k]
    BY <1>1, OwnType DEF F3TypeOK
  <2> QED BY <2>1, <2>2 DEF LeaseInv
<1>2. ASSUME NEW m \in Miners, p' = [p EXCEPT ![m].cancelled = TRUE] PROVE LeaseInv'
  <2>1. LeaseOK(p'[m])
    BY <1>2 DEF F3TypeOK, Participant, LeaseOK, LeaseInv
  <2>2. \A k \in Miners \ {m} : p'[k] = p[k]
    BY <1>2 DEF F3TypeOK
  <2> QED BY <2>1, <2>2 DEF LeaseInv
<1>3. CASE UNCHANGED p
  BY <1>3 DEF LeaseInv
<1> QED BY <1>1, <1>2, <1>3
    DEF F3Next, OwnStep, RemoveParticipant, StopOne, AddParticipant, Monitored, Stopped,
        StatusChange, MonitorTick, Stop, StopReturn, f3Vars

\* The lease of a participant is renewed before it runs out, for any lease term, as long as
\* no call fails.
THEOREM LeaseIsKept == F3Spec => []LeaseKept
<1>1. F3Init => LeaseInv
  BY DEF F3Init, LeaseInv, LeaseOK, NewParticipant
<1>2. LeaseInv => LeaseKept
  BY DEF LeaseInv, LeaseOK, LeaseKept
<1> QED BY <1>1, <1>2, InitF3TypeOK, NextF3TypeOK, NextLeaseInv, PTL DEF F3Spec

------------------------------------------------------------------------------
(* Stopping *)

\* A participant's own steps never start it again, and leave it alone once it has ended.
LEMMA OwnRuns ==
    ASSUME F3TypeOK, NEW m \in Miners, OwnStep(m)
    PROVE  /\ alive /\ Running(m) /\ UNCHANGED multiVars
           /\ \A k \in Miners \ {m} : p'[k] = p[k]
<1>1. UNCHANGED multiVars /\ \A k \in Miners \ {m} : p'[k] = p[k]
  BY OwnType DEF F3TypeOK
<1>2. alive /\ Running(m)
  BY DEF OwnStep, Cancelled, Disabled, GotTicket, TicketError, Renew, Granted, TicketRefused,
         TicketInvalid, NotThisNode, Unexpected, GotManifest, OtherNetwork, NoManifest, Wake,
         Instance, Answered, Running, Calls
<1> QED BY <1>1, <1>2

\* Cancelling a participant does not end it.
LEMMA CancelRuns ==
    ASSUME F3TypeOK, NEW m \in Miners, p' = [p EXCEPT ![m].cancelled = TRUE]
    PROVE  \A k \in Miners : (Running(k)' <=> Running(k)) /\ p'[k].broken = p[k].broken
  BY CancelType DEF F3TypeOK, Participant, Running

\* What runs stays known, and Stop gets to it.
LEMMA NextStopInv ==
    F3TypeOK /\ RunningKnown /\ StopInv /\ [F3Next]_f3Vars => (RunningKnown /\ StopInv)'
<1> SUFFICES ASSUME F3TypeOK, RunningKnown, StopInv,
    [F3Next]_f3Vars PROVE (RunningKnown /\ StopInv)'
  OBVIOUS
<1>1. ASSUME NEW m \in Miners, OwnStep(m) PROVE (RunningKnown /\ StopInv)'
  <2>1. \A k \in Miners : Running(k)' => Running(k)
    BY <1>1, OwnRuns DEF Running
  <2>2. \A k \in Miners : ~Running(k) => p'[k] = p[k]
    BY <1>1, OwnRuns
  <2> QED BY <1>1, <2>1, <2>2, OwnRuns DEF RunningKnown, StopInv, multiVars, Running
<1>2. ASSUME NEW m \in Miners, RemoveParticipant(m) PROVE (RunningKnown /\ StopInv)'
  BY <1>2, CancelRuns DEF RemoveParticipant, MayAbort, RunningKnown, StopInv
<1>3. ASSUME NEW m \in Miners, StopOne(m) PROVE (RunningKnown /\ StopInv)'
  BY <1>3, CancelRuns DEF StopOne, RunningKnown, StopInv, multiVars
<1>4. ASSUME NEW m \in Miners, AddParticipant(m) PROVE (RunningKnown /\ StopInv)'
  BY <1>4 DEF AddParticipant, RunningKnown, StopInv, Running
<1>5. ASSUME NEW m \in Miners, Monitored(m) PROVE (RunningKnown /\ StopInv)'
  BY <1>5 DEF Monitored, RunningKnown, StopInv, Running
<1>6. ASSUME NEW m \in Miners, Stopped(m) PROVE (RunningKnown /\ StopInv)'
  BY <1>6 DEF Stopped, RunningKnown, StopInv, Running
<1>7. ASSUME NEW m \in Miners, NEW s \in Status, StatusChange(m, s)
      PROVE  (RunningKnown /\ StopInv)'
  BY <1>7 DEF StatusChange, RunningKnown, StopInv, Running
<1>8. CASE MonitorTick
  BY <1>8 DEF MonitorTick, RunningKnown, StopInv, Running
<1>9. CASE Stop
  BY <1>9 DEF Stop, RunningKnown, StopInv, Running
<1>10. CASE StopReturn
  BY <1>10 DEF StopReturn, RunningKnown, StopInv, Running
<1>11. CASE UNCHANGED f3Vars
  BY <1>11 DEF f3Vars, multiVars, RunningKnown, StopInv, Running
<1> QED BY <1>1, <1>2, <1>3, <1>4, <1>5, <1>6, <1>7, <1>8, <1>9, <1>10, <1>11 DEF F3Next, OwnStep

\* When Stop returns nil nothing of it runs but what MonitorMiner is removing, and an
\* error it returns is a participant's own, for any number of participants.
THEOREM StopIsExcused == F3Spec => []StopExcused
<1>1. F3Init => RunningKnown /\ StopInv
  BY DEF F3Init, RunningKnown, StopInv, Running, NewParticipant
<1>2. StopInv => StopExcused
  BY DEF StopInv, StopExcused
<1> QED BY <1>1, <1>2, InitF3TypeOK, NextF3TypeOK, NextStopInv, PTL DEF F3Spec
==============================================================================
