------------------------------- MODULE Alerting -------------------------------
(***************************************************************************)
(* lib/journal/alerting on top of the journal: alerts that are raised and  *)
(* resolved, each change with an event in the journal.  The event is       *)
(* recorded under the lock of the alerts, where it may have to wait for    *)
(* room in the channel.  The mining loop records block_mined beside them.  *)
(* The alerts live as long as the process.                                 *)
(***************************************************************************)
EXTENDS Journal

CONSTANTS
    Loop,           \* the callers that record blockMined,
    blockMined,     \* the type and
    mined,          \* kind of the event of a mined block,
    raised,         \* and of an alert
    resolved,
    free            \* nobody holds the lock

ASSUME AlertingAssumption ==
    /\ Loop \subseteq Callers
    /\ blockMined \in Types
    /\ Kinds = {mined, raised, resolved}
    /\ raised # resolved
    /\ free \notin Callers

AlertTypes == Types \ {blockMined}
Users == Callers \ Loop
noAlert == [active |-> FALSE, enabled |-> FALSE, known |-> FALSE]

VARIABLES
    alerts,     \* a.alerts; the zero Alert, with a disabled journalType, for an absent one
    lk,         \* a.lk
    doing,      \* the Raise or Resolve of each caller, once it has the lock
    lastKind    \* history: the last event of a type that the channel took from this process

alertVars == <<alerts, lk, doing>>
alertingVars == <<journalVars, alertVars, lastKind>>

AlertingTypeOK ==
    /\ JournalTypeOK
    /\ alerts \in [AlertTypes -> [active : BOOLEAN, enabled : BOOLEAN, known : BOOLEAN]]
    /\ lk \in Users \cup {free}
    /\ doing \in [Users -> [type : AlertTypes, kind : {raised, resolved}] \cup {noCall}]
    /\ lastKind \in [Types -> Kinds]

AlertingInit ==
    /\ JournalInit
    /\ alerts = [t \in AlertTypes |-> noAlert]
    /\ lk = free
    /\ doing = [c \in Users |-> noCall]
    /\ lastKind = [t \in Types |-> resolved]

------------------------------------------------------------------------------
\* The mining loop, after a block (multiminer.go:430).
BlockMined(c) ==
    /\ RegisterEventType(blockMined)
    /\ RecordEvent(c, blockMined, mined)
    /\ UNCHANGED <<alertVars, lastKind>>

AddAlertType(t) ==
    /\ Opened /\ lk = free
    /\ ~alerts[t].known
    /\ alerts' = [alerts EXCEPT ![t] = [active |-> FALSE, enabled |-> RegisterEventType(t), known |-> TRUE]]
    /\ UNCHANGED <<journalVars, lk, doing, lastKind>>

UpdateUnlocked(c, t, kind) ==    \* mutant: the lock is not taken
    /\ Opened
    /\ doing[c] = noCall
    /\ doing' = [doing EXCEPT ![c] = [type |-> t, kind |-> kind]]
    /\ lk' = c
    /\ IF alerts[t].enabled THEN RecordEvent(c, t, kind) ELSE UNCHANGED journalVars
    /\ UNCHANGED <<alerts, lastKind>>

\* Raise and Resolve: the lock, then RecordEvent if the alert's type is enabled,
Update(c, t, kind) ==
    /\ Opened
    /\ lk = free
    /\ doing[c] = noCall
    /\ doing' = [doing EXCEPT ![c] = [type |-> t, kind |-> kind]]
    /\ lk' = c
    /\ IF alerts[t].enabled THEN RecordEvent(c, t, kind) ELSE UNCHANGED journalVars
    /\ UNCHANGED <<alerts, lastKind>>

\* and, when RecordEvent has returned, the new alert, which becomes known with whatever
\* journalType it had, and the lock is released.
Updated(c) ==
    /\ doing[c] # noCall
    /\ sending[c] = noCall
    /\ alerts' = [alerts EXCEPT ![doing[c].type].active = doing[c].kind = raised,
                                ![doing[c].type].known = TRUE]
    /\ doing' = [doing EXCEPT ![c] = noCall]
    /\ lk' = free
    /\ UNCHANGED <<journalVars, lastKind>>

\* GetAlerts waits for the lock; the alerts that it returns.
GetAlerts == {t \in AlertTypes : alerts[t].known}

JournalStep ==
    /\ JournalRuns
    /\ \/ next' = next /\ UNCHANGED lastKind
       \/ \E c \in Callers :
             /\ sending'[c] # sending[c] /\ next' # next
             /\ lastKind' = [lastKind EXCEPT ![sending[c].type] = sending[c].kind]
    /\ UNCHANGED alertVars

ProcessEnds ==
    /\ Exit
    /\ alerts' = [t \in AlertTypes |-> noAlert]
    /\ lk' = free
    /\ doing' = [c \in Users |-> noCall]
    /\ lastKind' = [t \in Types |-> resolved]

AlertingNext ==
    \/ \E c \in Loop : BlockMined(c)
    \/ \E t \in AlertTypes : AddAlertType(t)
    \/ \E c \in Users, t \in AlertTypes, kind \in {raised, resolved} : Update(c, t, kind)
    \/ \E c \in Users : Updated(c)
    \/ JournalStep
    \/ ProcessEnds

AlertingSpec ==
    /\ AlertingInit /\ [][AlertingNext]_alertingVars
    /\ JournalFairness
    /\ \A c \in Users : WF_alertingVars(Updated(c))

------------------------------------------------------------------------------
(* Properties *)

\* Between two changes the alerts agree with the journal (alerts.go:80): an alert that is
\* journaled is active exactly when the last event taken for it says that it was raised,
\* whichever callers raised and resolved it at the same time.
AlertMatchesJournal ==
    \A t \in GetAlerts :
       /\ Opened /\ ~closing
       /\ alerts[t].enabled
       /\ \A c \in Users : doing[c] = noCall
       => (alerts[t].active <=> lastKind[t] = raised)

\* A caller waiting for room in the channel holds up every other user of the alerts, but
\* not for ever (alerts.go:81).
LockReleased == lk # free ~> lk = free
==============================================================================
