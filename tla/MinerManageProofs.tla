-------------------------- MODULE MinerManageProofs --------------------------
(***************************************************************************)
(* A stopped miner stays stopped unless a call that had seen it open was   *)
(* under way: for any number of miners, API calls and failures.            *)
(***************************************************************************)
EXTENDS MinerManage, TLAPS

\* A miner closed by CloseMining is open nowhere, so no call can come to carry it.
ClosedEverywhere ==
    \A m \in closed : auth[m] # "open" /\ cache[m] # "open"

\* The calls that carried it when it was closed are the only ones that do.
NotCarried ==
    \A m \in closed \ overlapped, t \in Threads : ~Carries(t, m)

ManageIInv == ManageTypeOK /\ ClosedEverywhere /\ NotCarried /\ StopHolds

\* The initial states.
LEMMA InitManage == ManageInit => ManageIInv
<1> SUFFICES ASSUME ManageInit PROVE ManageIInv
  OBVIOUS
<1>1. wpp \subseteq Miners
  BY DEF ManageInit, Open
<1> QED BY <1>1
        DEF ManageInit, ManageIInv, ManageTypeOK, ClosedEverywhere, NotCarried, StopHolds,
            Threads, Status, At

\* The steps that belong to no call.
LEMMA EnvironmentKeeps ==
    ASSUME ManageIInv,
           \/ \E m \in Miners, s \in Status : AuthChange(m, s)
           \/ BeginRound
           \/ EndRound
           \/ UNCHANGED manageVars
    PROVE  ManageIInv'
<1> USE DEF ManageIInv, ManageTypeOK, ClosedEverywhere, NotCarried, StopHolds, Carries,
            callVars, history
<1>1. ASSUME NEW m \in Miners, NEW s \in Status, AuthChange(m, s) PROVE ManageIInv'
  BY <1>1 DEF AuthChange, Reopened
<1>2. CASE BeginRound \/ EndRound \/ UNCHANGED manageVars
  BY <1>2 DEF BeginRound, EndRound, manageVars
<1> QED BY <1>1, <1>2

\* ManualStart: OpenMining takes the miner out of closed before the call carries it.
LEMMA StartKeeps ==
    ASSUME ManageIInv, NEW t \in Threads,
           \/ \E m \in Miners : ManualStart(t, m)
           \/ OpenMining(t)
           \/ NewWinningPoStProver(t)
           \/ Insert(t)
    PROVE  ManageIInv'
<1> USE DEF ManageIInv, ManageTypeOK, ClosedEverywhere, NotCarried, StopHolds, Carries,
            Goto, history, At, Status
<1>1. ASSUME NEW m \in Miners, ManualStart(t, m) PROVE ManageIInv'
  BY <1>1 DEF ManualStart
<1>2. CASE OpenMining(t)
  <2>1. arg[t] \in Miners
    OBVIOUS
  <2>2. CASE UNCHANGED history
    BY <1>2, <2>1, <2>2 DEF OpenMining, Reopened
  <2>3. CASE Reopened(arg[t])
    BY <1>2, <2>1, <2>3 DEF OpenMining, Reopened
  <2> QED BY <1>2, <2>2, <2>3 DEF OpenMining
<1>3. CASE NewWinningPoStProver(t)
  BY <1>3 DEF NewWinningPoStProver
<1>4. CASE Insert(t)
  BY <1>4 DEF Insert
<1> QED BY <1>1, <1>2, <1>3, <1>4

\* ManualStop: whoever carries the miner when it is closed puts it in overlapped.
LEMMA StopKeeps ==
    ASSUME ManageIInv, NEW t \in Threads,
           \/ \E m \in Miners : ManualStop(t, m)
           \/ CloseMining(t)
           \/ Delete(t)
    PROVE  ManageIInv'
<1> USE DEF ManageIInv, ManageTypeOK, ClosedEverywhere, NotCarried, StopHolds, Goto,
            history, At, Status
<1>1. ASSUME NEW m \in Miners, ManualStop(t, m) PROVE ManageIInv'
  BY <1>1 DEF ManualStop, Carries
<1>2. CASE CloseMining(t)
  <2>1. arg[t] \in Miners
    OBVIOUS
  <2>2. ManageTypeOK'
    BY <1>2, <2>1 DEF CloseMining
  <2>3. ClosedEverywhere'
    BY <1>2, <2>1 DEF CloseMining
  <2>4. ASSUME NEW u \in Threads, NEW m \in Miners, Carries(u, m)' PROVE Carries(u, m)
    BY <1>2, <2>4 DEF CloseMining, Carries
  <2>5. NotCarried'
    BY <1>2, <2>1, <2>2, <2>4 DEF CloseMining
  <2>6. StopHolds'
    BY <1>2 DEF CloseMining
  <2> QED BY <2>2, <2>3, <2>5, <2>6
<1>3. CASE Delete(t)
  BY <1>3 DEF Delete, Carries
<1> QED BY <1>1, <1>2, <1>3

\* UpdateAddress: a closed miner does not enter the new map.
LEMMA UpdateKeeps ==
    ASSUME ManageIInv, NEW t \in Threads,
           \/ UpdateAddress(t)
           \/ \E page \in SUBSET Miners : UpdateList(t, page)
           \/ UpdateError(t)
           \/ \E m \in Miners : Take(t, m) \/ Skip(t, m)
           \/ Swap(t)
    PROVE  ManageIInv'
<1> USE DEF ManageIInv, ManageTypeOK, ClosedEverywhere, NotCarried, StopHolds, Carries,
            Goto, history, At, Status
<1>1. CASE UpdateAddress(t)
  BY <1>1 DEF UpdateAddress
<1>2. ASSUME NEW page \in SUBSET Miners, UpdateList(t, page) PROVE ManageIInv'
  BY <1>2 DEF UpdateList
<1>3. CASE UpdateError(t)
  BY <1>3 DEF UpdateError
<1>4. ASSUME NEW m \in Miners, Take(t, m) PROVE ManageIInv'
  BY <1>4 DEF Take
<1>5. ASSUME NEW m \in Miners, Skip(t, m) PROVE ManageIInv'
  BY <1>5 DEF Skip
<1>6. CASE Swap(t)
  BY <1>6 DEF Swap
<1> QED BY <1>1, <1>2, <1>3, <1>4, <1>5, <1>6

\* Every step of the specification.
LEMMA NextManage == ManageIInv /\ [ManageNext]_manageVars => ManageIInv'
<1> SUFFICES ASSUME ManageIInv, [ManageNext]_manageVars PROVE ManageIInv'
  OBVIOUS
<1> QED BY EnvironmentKeeps, StartKeeps, StopKeeps, UpdateKeeps DEF ManageNext, Threads

\* Type correctness of the miner management.
THEOREM ManageTypeCorrect == ManageSpec => []ManageTypeOK
<1>1. ManageIInv => ManageTypeOK
  BY DEF ManageIInv
<1> QED BY InitManage, NextManage, <1>1, PTL DEF ManageSpec

\* ManualStop holds unless a call that had already seen the miner open was under
\* way when it was closed.
THEOREM StopsHold == ManageSpec => []StopHolds
<1>1. ManageIInv => StopHolds
  BY DEF ManageIInv
<1> QED BY InitManage, NextManage, <1>1, PTL DEF ManageSpec
==============================================================================
