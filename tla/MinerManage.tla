----------------------------- MODULE MinerManage -----------------------------
(***************************************************************************)
(* Which miners mine: node/modules/miner-manager/auth_manager.go (the      *)
(* cache of the miners registered with sophon-auth) and                    *)
(* miner/miningmgr.go (ManualStart, ManualStop, UpdateAddress and the      *)
(* pollingMiners goroutine, which keep minerWPPMap).                       *)
(*                                                                         *)
(* A call of MinerManage holds its lock over the call to the auth server,  *)
(* so it is one step.  The calls of Miner are sequences of such steps      *)
(* without a lock around them; a list of addresses is one call after the   *)
(* other.  lkWPP guards minerWPPMap and is held for a whole mining round   *)
(* by mineOneForAll.  A miner of a disabled user counts as absent.         *)
(***************************************************************************)
EXTENDS FiniteSets

CONSTANTS
    Miners,     \* miner actors
    Callers,    \* concurrent API calls
    poller,     \* the pollingMiners goroutine
    Failures    \* what may go wrong: calls to "auth", or the "prover"

ASSUME ManageAssumption ==
    /\ poller \notin Callers
    /\ Failures \subseteq {"auth", "prover"}

Threads == Callers \cup {poller}
Status == {"absent", "closed", "open"}

VARIABLES
    auth,       \* the auth server's view of each miner (external)
    cache,      \* MinerManage.miners and their OpenMining flags
    wpp,        \* the keys of minerWPPMap
    inRound,    \* mineOneForAll holds lkWPP
    at,         \* the next step of each call
    arg,        \* the miner a ManualStart or ManualStop is about
    todo,       \* UpdateAddress: miners of its list not yet looked at
    fresh,      \* UpdateAddress: the new minerWPPMap it builds
    closed,     \* history: miners whose last change of status was a CloseMining
    stopped,    \* history: those of them whose ManualStop has deleted the miner
    overlapped  \* history: those of them that another call carried at that time

callVars == <<at, arg, todo, fresh>>
history == <<closed, stopped, overlapped>>
manageVars == <<auth, cache, wpp, inRound, callVars, history>>

At == {"idle", "open", "prover", "insert", "close", "delete", "list", "each"}

ManageTypeOK ==
    /\ auth \in [Miners -> Status]
    /\ cache \in [Miners -> Status]
    /\ wpp \subseteq Miners
    /\ inRound \in BOOLEAN
    /\ at \in [Threads -> At]
    /\ arg \in [Threads -> Miners]
    /\ todo \in [Threads -> SUBSET Miners]
    /\ fresh \in [Threads -> SUBSET Miners]
    /\ closed \subseteq Miners
    /\ stopped \subseteq closed
    /\ overlapped \subseteq Miners

Open(view) == {m \in Miners : view[m] = "open"}
Registered(view) == {m \in Miners : view[m] # "absent"}

\* NewMinerManager reads the list; Start adds the miners that are open, except
\* those whose prover could not be made.
ManageInit ==
    /\ auth \in [Miners -> Status]
    /\ cache = auth
    /\ IF "prover" \in Failures THEN wpp \in SUBSET Open(cache) ELSE wpp = Open(cache)
    /\ inRound = FALSE
    /\ at = [t \in Threads |-> "idle"]
    /\ arg \in [Threads -> Miners]
    /\ todo = [t \in Threads |-> {}]
    /\ fresh = [t \in Threads |-> {}]
    /\ closed = {}
    /\ stopped = {}
    /\ overlapped = {}

\* The miner is open, by whatever hand: an earlier ManualStop does not count.
Reopened(m) ==
    /\ closed' = closed \ {m}
    /\ stopped' = stopped \ {m}
    /\ overlapped' = overlapped \ {m}

\* The call will put m into minerWPPMap without looking at its status again.
Carries(t, m) ==
    \/ at[t] \in {"prover", "insert"} /\ arg[t] = m
    \/ at[t] = "each" /\ m \in fresh[t]

Goto(t, step) == at' = [at EXCEPT ![t] = step]

------------------------------------------------------------------------------
(* Environment *)

\* sophon-auth is administered by others too.
AuthChange(m, s) ==
    /\ auth[m] # s
    /\ auth' = [auth EXCEPT ![m] = s]
    /\ Reopened(m)
    /\ UNCHANGED <<cache, wpp, inRound, callVars>>

\* mineOneForAll takes lkWPP and gives it back after the slowest miner, or its
\* timeout.
BeginRound ==
    /\ ~inRound
    /\ inRound' = TRUE
    /\ UNCHANGED <<auth, cache, wpp, callVars, history>>

EndRound ==
    /\ inRound
    /\ inRound' = FALSE
    /\ UNCHANGED <<auth, cache, wpp, callVars, history>>

------------------------------------------------------------------------------
(* ManualStart *)

ManualStart(t, m) ==
    /\ at[t] = "idle"
    /\ Goto(t, "open")
    /\ arg' = [arg EXCEPT ![t] = m]
    /\ UNCHANGED <<auth, cache, wpp, inRound, todo, fresh, history>>

\* OpenMining: unknown miner; the auth server, then the cache; or an error, with
\* or without the auth server having done it.
OpenMining(t) ==
    LET m == arg[t] IN
    /\ at[t] = "open"
    /\ \/ /\ cache[m] = "absent"
          /\ Goto(t, "idle")
          /\ UNCHANGED <<auth, cache, history>>
       \/ /\ cache[m] # "absent"
          /\ auth' = [auth EXCEPT ![m] = "open"]
          /\ cache' = [cache EXCEPT ![m] = "open"]
          /\ Reopened(m)
          /\ Goto(t, "prover")
       \/ /\ cache[m] # "absent"
          /\ "auth" \in Failures
          /\ auth' \in {auth, [auth EXCEPT ![m] = "open"]}
          /\ IF auth' = auth THEN UNCHANGED history ELSE Reopened(m)
          /\ Goto(t, "idle")
          /\ UNCHANGED cache
    /\ UNCHANGED <<wpp, inRound, arg, todo, fresh>>

\* NewWinningPoStProver, which asks the node and may fail.
NewWinningPoStProver(t) ==
    /\ at[t] = "prover"
    /\ \/ Goto(t, "insert")
       \/ "prover" \in Failures /\ Goto(t, "idle")
    /\ UNCHANGED <<auth, cache, wpp, inRound, arg, todo, fresh, history>>

Insert(t) ==
    /\ at[t] = "insert"
    /\ ~inRound
    /\ wpp' = wpp \cup {arg[t]}
    /\ Goto(t, "idle")
    /\ UNCHANGED <<auth, cache, inRound, arg, todo, fresh, history>>

------------------------------------------------------------------------------
(* ManualStop *)

ManualStop(t, m) ==
    /\ at[t] = "idle"
    /\ Goto(t, "close")
    /\ arg' = [arg EXCEPT ![t] = m]
    /\ UNCHANGED <<auth, cache, wpp, inRound, todo, fresh, history>>

\* CloseMining, with the outcomes of OpenMining.
CloseMining(t) ==
    LET m == arg[t] IN
    /\ at[t] = "close"
    /\ \/ /\ cache[m] = "absent"
          /\ Goto(t, "idle")
          /\ UNCHANGED <<auth, cache, history>>
       \/ /\ cache[m] # "absent"
          /\ auth' = [auth EXCEPT ![m] = "closed"]
          /\ cache' = [cache EXCEPT ![m] = "closed"]
          /\ closed' = closed \cup {m}
          /\ overlapped' = IF \E u \in Threads : Carries(u, m)
                           THEN overlapped \cup {m} ELSE overlapped
          /\ Goto(t, "delete")
          /\ UNCHANGED stopped
       \/ /\ cache[m] # "absent"
          /\ "auth" \in Failures
          /\ auth' \in {auth, [auth EXCEPT ![m] = "closed"]}
          /\ Goto(t, "idle")
          /\ UNCHANGED <<cache, history>>
    /\ UNCHANGED <<wpp, inRound, arg, todo, fresh>>

Delete(t) ==
    /\ at[t] = "delete"
    /\ ~inRound
    /\ wpp' = wpp \ {arg[t]}
    /\ stopped' = stopped \cup ({arg[t]} \cap closed)
    /\ Goto(t, "idle")
    /\ UNCHANGED <<auth, cache, inRound, arg, todo, fresh, closed, overlapped>>

------------------------------------------------------------------------------
(* UpdateAddress *)

\* Called by the API or, every minute, by pollingMiners.
UpdateAddress(t) ==
    /\ at[t] = "idle"
    /\ Goto(t, "list")
    /\ UNCHANGED <<auth, cache, wpp, inRound, arg, todo, fresh, history>>

PagesOfSomeLimit(t) == SUBSET Registered(auth)    \* mutant: the poller has a limit too

\* The pages ListUsersWithMiners may return: pollingMiners asks for all, an API
\* call for any skip and limit.
Pages(t) == IF t = poller THEN {Registered(auth)} ELSE SUBSET Registered(auth)

\* Update replaces the cache by what the auth server lists.
UpdateList(t, page) ==
    /\ at[t] = "list"
    /\ page \in Pages(t)
    /\ cache' = [m \in Miners |-> IF m \in page THEN auth[m] ELSE "absent"]
    /\ todo' = [todo EXCEPT ![t] = page]
    /\ fresh' = [fresh EXCEPT ![t] = {}]
    /\ Goto(t, "each")
    /\ UNCHANGED <<auth, wpp, inRound, arg, history>>

UpdateError(t) ==
    /\ at[t] = "list"
    /\ "auth" \in Failures
    /\ Goto(t, "idle")
    /\ UNCHANGED <<auth, cache, wpp, inRound, arg, todo, fresh, history>>

\* mutant: the status in the list, not the current one, decides
TakeListed(t, m) ==
    /\ at[t] = "each"
    /\ m \in todo[t]
    /\ todo' = [todo EXCEPT ![t] = @ \ {m}]
    /\ fresh' = [fresh EXCEPT ![t] = @ \cup {m}]
    /\ UNCHANGED <<auth, cache, wpp, inRound, at, arg, history>>

\* One miner of the list: it enters the new map if it is open by now and its
\* prover can be made ...
Take(t, m) ==
    /\ at[t] = "each"
    /\ m \in todo[t]
    /\ cache[m] = "open"
    /\ todo' = [todo EXCEPT ![t] = @ \ {m}]
    /\ fresh' = [fresh EXCEPT ![t] = @ \cup {m}]
    /\ UNCHANGED <<auth, cache, wpp, inRound, at, arg, history>>

\* ... and is left out otherwise, even if it was mining until now.
Skip(t, m) ==
    /\ at[t] = "each"
    /\ m \in todo[t]
    /\ cache[m] # "open" \/ "prover" \in Failures
    /\ todo' = [todo EXCEPT ![t] = @ \ {m}]
    /\ UNCHANGED <<auth, cache, wpp, inRound, at, arg, fresh, history>>

\* mutant: the new miners are added to the old map
SwapAdds(t) ==
    /\ at[t] = "each"
    /\ todo[t] = {}
    /\ ~inRound
    /\ wpp' = wpp \cup fresh[t]
    /\ Goto(t, "idle")
    /\ UNCHANGED <<auth, cache, inRound, arg, todo, fresh, history>>

Swap(t) ==
    /\ at[t] = "each"
    /\ todo[t] = {}
    /\ ~inRound
    /\ wpp' = fresh[t]
    /\ Goto(t, "idle")
    /\ UNCHANGED <<auth, cache, inRound, arg, todo, fresh, history>>

------------------------------------------------------------------------------
ManageNext ==
    \/ \E m \in Miners, s \in Status : AuthChange(m, s)
    \/ BeginRound
    \/ EndRound
    \/ \E t \in Callers, m \in Miners : ManualStart(t, m) \/ ManualStop(t, m)
    \/ \E t \in Threads :
          \/ OpenMining(t)
          \/ NewWinningPoStProver(t)
          \/ Insert(t)
          \/ CloseMining(t)
          \/ Delete(t)
          \/ UpdateAddress(t)
          \/ \E page \in SUBSET Miners : UpdateList(t, page)
          \/ UpdateError(t)
          \/ \E m \in Miners : Take(t, m) \/ Skip(t, m)
          \/ Swap(t)

ManageSpec == ManageInit /\ [][ManageNext]_manageVars

(***************************************************************************)
(* The ticker fires and calls return; a round ends (MinerOnceTimeout) and  *)
(* a Go mutex is handed to whoever waits long enough; a call that can fail *)
(* (the auth server's list, the prover) does not fail every time.          *)
(***************************************************************************)
FairManageSpec ==
    /\ ManageSpec
    /\ WF_manageVars(EndRound)
    /\ WF_manageVars(UpdateAddress(poller))
    /\ SF_manageVars(\E page \in SUBSET Miners : UpdateList(poller, page))
    /\ \A t \in Threads :
         /\ WF_manageVars(OpenMining(t))
         /\ WF_manageVars(NewWinningPoStProver(t))
         /\ WF_manageVars(CloseMining(t))
         /\ SF_manageVars(Insert(t))
         /\ SF_manageVars(Delete(t))
         /\ SF_manageVars(Swap(t))
         /\ WF_manageVars(\E page \in SUBSET Miners : UpdateList(t, page))
         /\ \A m \in Miners : SF_manageVars(Take(t, m)) /\ WF_manageVars(Skip(t, m))

------------------------------------------------------------------------------
(* Properties *)

\* A miner stopped by ManualStop (miningmgr.go:39) stays out of minerWPPMap until
\* somebody opens it again, unless a ManualStart or UpdateAddress that had already
\* seen it open was under way when it was closed.
StopHolds == stopped \cap wpp \subseteq overlapped

\* pollingMiners (miningmgr.go:254) repairs whatever a race, a lost answer or a
\* change at the auth server has left behind: a miner that remains closed is
\* mined for no more,
ClosedIsDropped ==
    \A m \in Miners : <>[](auth[m] # "open") => <>[](m \notin wpp)

\* and a miner that remains open is mined for again and again, even if paged API
\* updates and failing provers drop it from time to time.
OpenIsMined ==
    \A m \in Miners : <>[](auth[m] = "open") => []<>(m \in wpp)
==============================================================================
