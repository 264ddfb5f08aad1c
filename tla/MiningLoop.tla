------------------------------ MODULE MiningLoop ------------------------------
(***************************************************************************)
(* miner/multiminer.go: the mining loop (mine, getLatestBase,              *)
(* GetBestMiningCandidate, untilNextEpoch) and its lifecycle (Start, Stop). *)
(*                                                                         *)
(* getLatestBase returns a POINTER to the field lastWork, so the loop's    *)
(* base and lastWork are one object: base.TipSet = ts and base.NullRounds++ *)
(* change lastWork.  lastBase is a copy, taken before NullRounds++, and is *)
(* local to mine: it does not survive a restart of the loop, lastWork does. *)
(* The clock is left out: a sleep or a wait is a step that may happen once *)
(* the previous one has.                                                   *)
(***************************************************************************)
EXTENDS MiningBase

VARIABLES
    head,       \* the sync node's head (external)
    active,     \* miners in minerWPPMap
    stop,       \* the stop channel: "nil", "open" or "closed"
    stopping,   \* a Stop call waits on the stopping channel
    loop,       \* the next step of mine
    lastWork,   \* Miner.lastWork, and the loop's base; NoBase when nil
    waited,     \* the base getLatestBase has already waited for; NoBase when nil
    lastBase,   \* mine's copy of the previous round's base
    wins,       \* winners of the current round (winPoSts)
    created,    \* winners whose block was created (blks)
    forked,     \* winners for whom this round recorded ChainForked
    won         \* history: the round on lastBase had a winner

loopVars == <<head, active, stop, stopping, loop, lastWork, waited, lastBase,
              wins, created, forked, won>>

Steps == {"stopped", "top", "candidate", "wait", "check", "mine", "reread",
          "create", "broadcast", "until"}

LoopTypeOK ==
    /\ head \in Tipsets
    /\ active \subseteq Miners
    /\ stop \in {"nil", "open", "closed"}
    /\ stopping \in BOOLEAN
    /\ loop \in Steps
    /\ {lastWork, waited, lastBase} \subseteq Base \cup {NoBase}
    /\ created \subseteq wins
    /\ forked \subseteq Miners
    /\ wins \subseteq Miners
    /\ won \in BOOLEAN

LoopInit ==
    /\ head \in Tipsets
    /\ active \in SUBSET Miners
    /\ stop = "nil"
    /\ stopping = FALSE
    /\ loop = "stopped"
    /\ lastWork = NoBase
    /\ waited = NoBase
    /\ lastBase = NoBase
    /\ wins = {}
    /\ created = {}
    /\ forked = {}
    /\ won = FALSE

------------------------------------------------------------------------------
(* Environment *)

\* The sync node moves its head, to any tipset: reorganisations included.
HeadChange(t) ==
    /\ t # head
    /\ head' = t
    /\ UNCHANGED <<active, stop, stopping, loop, lastWork, waited, lastBase,
                   wins, created, forked, won, won>>

\* ManualStart, ManualStop or UpdateAddress changes minerWPPMap.
SetMiners(ms) ==
    /\ ms # active
    /\ active' = ms
    /\ UNCHANGED <<head, stop, stopping, loop, lastWork, waited, lastBase,
                   wins, created, forked, won, won>>

------------------------------------------------------------------------------
(* Lifecycle *)

\* Start adds the miners that are open and goes to the loop; lastBase is new.
Start(ms) ==
    /\ stop = "nil"
    /\ active' = active \cup ms
    /\ stop' = "open"
    /\ loop' = "top"
    /\ waited' = NoBase
    /\ lastBase' = NoBase
    /\ wins' = {}
    /\ created' = {}
    /\ forked' = {}
    /\ UNCHANGED <<head, stopping, lastWork, won>>

\* Stop closes the channel and waits; it is called once per Start.
Stop ==
    /\ stop = "open"
    /\ stop' = "closed"
    /\ stopping' = TRUE
    /\ UNCHANGED <<head, active, loop, lastWork, waited, lastBase, wins, created,
                   forked, won>>

\* mutant: the stopping channel is never closed
ExitSilently ==
    /\ loop = "top"
    /\ stop = "closed"
    /\ stop' = "nil"
    /\ loop' = "stopped"
    /\ UNCHANGED <<head, active, stopping, lastWork, waited, lastBase, wins, created,
                   forked, won>>

\* The select at the top of mine.
Exit ==
    /\ loop = "top"
    /\ stop = "closed"
    /\ stop' = "nil"
    /\ stopping' = FALSE
    /\ loop' = "stopped"
    /\ UNCHANGED <<head, active, lastWork, waited, lastBase, wins, created, forked, won>>

------------------------------------------------------------------------------
(* One iteration of mine *)

\* Nothing to mine for: sleep and go back to the top.
NoMiners ==
    /\ loop = "top"
    /\ stop # "closed"
    /\ active = {}
    /\ UNCHANGED loopVars

Begin ==
    /\ loop = "top"
    /\ stop # "closed"
    /\ active # {}
    /\ loop' = "candidate"
    /\ waited' = NoBase
    /\ UNCHANGED <<head, active, stop, stopping, lastWork, lastBase, wins, created,
                   forked, won>>

\* GetBestMiningCandidate and the comparison in getLatestBase.
SameSlotAs(base) ==
    /\ waited # NoBase
    /\ TsHeight[waited.ts] = TsHeight[base.ts]
    /\ waited.nulls = base.nulls

Candidate ==
    /\ loop = "candidate"
    /\ lastWork' = BestCandidate(lastWork, head)
    /\ loop' = IF SameSlotAs(BestCandidate(lastWork, head)) THEN "check" ELSE "wait"
    /\ UNCHANGED <<head, active, stop, stopping, waited, lastBase, wins, created,
                   forked, won>>

\* waitFunc and the beacon entry; then the candidate is read again.
Wait ==
    /\ loop = "wait"
    /\ loop' = "candidate"
    /\ waited' = lastWork
    /\ UNCHANGED <<head, active, stop, stopping, lastWork, lastBase, wins, created,
                   forked, won>>

\* ChainHead or StateGetBeaconEntry failed: sleep, back to the top.
BaseError ==
    /\ loop \in {"candidate", "wait"}
    /\ loop' = "top"
    /\ UNCHANGED <<head, active, stop, stopping, lastWork, waited, lastBase, wins,
                   created, forked, won>>

\* The base of the previous round once more: sleep one epoch, back to the top.
SameBase ==
    /\ loop = "check"
    /\ lastWork = lastBase
    /\ loop' = "top"
    /\ UNCHANGED <<head, active, stop, stopping, lastWork, waited, lastBase, wins,
                   created, forked, won>>

NewBase ==
    /\ loop = "check"
    /\ lastWork # lastBase
    /\ loop' = "mine"
    /\ UNCHANGED <<head, active, stop, stopping, lastWork, waited, lastBase, wins,
                   created, forked, won>>

\* mineOneForAll (module MineRound): some of the miners win with a proof.
MineOneForAll(winners) ==
    /\ loop = "mine"
    /\ winners \subseteq active
    /\ wins' = winners
    /\ created' = {}
    /\ forked' = {}
    /\ loop' = "reread"
    /\ UNCHANGED <<head, active, stop, stopping, lastWork, waited, lastBase, won>>

\* The head is read again: a tipset of the same height and the same first block
\* replaces the base; one with another first block is a fork, recorded for
\* every winner.  The read may fail, which leaves the base alone.
Reread ==
    /\ loop = "reread"
    /\ \/ /\ Extends(lastWork, head)
          /\ lastWork' = [lastWork EXCEPT !.ts = head]
          /\ UNCHANGED forked
       \/ /\ Forks(lastWork, head)
          /\ forked' = wins
          /\ UNCHANGED lastWork
       \/ UNCHANGED <<lastWork, forked>>    \* unchanged, another height, or failed
    /\ lastBase' = lastWork'
    /\ won' = (wins # {})
    /\ loop' = IF wins # {} THEN "create" ELSE "until"
    /\ UNCHANGED <<head, active, stop, stopping, waited, wins, created>>

\* createBlock for every winner, forked or not; each may fail.
CreateBlocks(made) ==
    /\ loop = "create"
    /\ made \subseteq wins
    /\ created' = made
    /\ loop' = IF made # {} THEN "broadcast" ELSE "until"
    /\ UNCHANGED <<head, active, stop, stopping, lastWork, waited, lastBase, wins,
                   forked, won>>

\* Wait for the block's timestamp (a Stop does not skip the broadcast) and
\* start one goroutine per block.
Broadcast ==
    /\ loop = "broadcast"
    /\ loop' = "until"
    /\ UNCHANGED <<head, active, stop, stopping, lastWork, waited, lastBase, wins,
                   created, forked, won>>

\* mutant: every round becomes a null round
UntilNextEpochAlways ==
    /\ loop = "until"
    /\ lastWork.nulls < MaxNulls
    /\ lastWork' = [lastWork EXCEPT !.nulls = @ + 1]
    /\ loop' = "top"
    /\ UNCHANGED <<head, active, stop, stopping, waited, lastBase, wins, created, forked, won>>

\* untilNextEpoch; a round without winners becomes a null round.
UntilNextEpoch ==
    /\ loop = "until"
    /\ \/ /\ wins = {}
          /\ lastWork.nulls < MaxNulls
          /\ lastWork' = [lastWork EXCEPT !.nulls = @ + 1]
       \/ /\ wins # {}
          /\ UNCHANGED lastWork
    /\ loop' = "top"
    /\ UNCHANGED <<head, active, stop, stopping, waited, lastBase, wins, created, forked, won>>

LoopStep ==
    \/ Exit
    \/ NoMiners
    \/ Begin
    \/ Candidate
    \/ Wait
    \/ BaseError
    \/ SameBase
    \/ NewBase
    \/ \E ws \in SUBSET Miners : MineOneForAll(ws)
    \/ Reread
    \/ \E ms \in SUBSET Miners : CreateBlocks(ms)
    \/ Broadcast
    \/ UntilNextEpoch

LoopNext ==
    \/ \E t \in Tipsets : HeadChange(t)
    \/ \E ms \in SUBSET Miners : SetMiners(ms) \/ Start(ms)
    \/ Stop
    \/ LoopStep

LoopSpec == LoopInit /\ [][LoopNext]_loopVars

(***************************************************************************)
(* mine is a goroutine whose sleeps and waits end (clock timers), so each  *)
(* of its steps is taken if it stays possible.  A call that can fail       *)
(* (ChainHead, StateGetBeaconEntry) does not fail for ever: of the         *)
(* attempts, which come back again and again, one succeeds.                *)
(***************************************************************************)
LoopFairness ==
    /\ WF_loopVars(Exit)
    /\ WF_loopVars(Begin)
    /\ SF_loopVars(Candidate)
    /\ SF_loopVars(Wait)
    /\ WF_loopVars(SameBase)
    /\ WF_loopVars(NewBase)
    /\ WF_loopVars(\E ws \in SUBSET Miners : MineOneForAll(ws))
    /\ WF_loopVars(Reread)
    /\ WF_loopVars(\E ms \in SUBSET Miners : CreateBlocks(ms))
    /\ WF_loopVars(Broadcast)
    /\ WF_loopVars(UntilNextEpoch)

\* Of the attempts of getLatestBase to find the head at an unchanged height, too,
\* one succeeds.  The code relies on it: overlapCount (multiminer.go:603) is only
\* logged and never ends the loop.
HeadSettles == SF_loopVars(Candidate /\ loop' = "check")

FairLoopSpec == LoopSpec /\ LoopFairness /\ HeadSettles

------------------------------------------------------------------------------
(* The loop implements Rounds *)

RoundOpen == loop \in {"create", "broadcast", "until"}

R == INSTANCE Rounds WITH
       work    <- lastWork,
       last    <- lastBase,
       phase   <- IF RoundOpen THEN "open" ELSE "idle",
       winners <- IF RoundOpen THEN wins ELSE {}

\* mine, getLatestBase and GetBestMiningCandidate with their pointer to lastWork
\* do what Rounds says: no round on the base of the previous round, one more
\* null round after a round without winners and only then.
ImplementsRounds == R!RoundsSpec

------------------------------------------------------------------------------
(* Properties *)

\* The instance has run out of null rounds to explore.
AtBound == loop = "until" /\ wins = {} /\ lastWork.nulls = MaxNulls

\* Stop (multiminer.go:225) waits for mine to close the stopping channel: that
\* always happens, whatever the loop was doing when the stop channel was closed,
\* provided getLatestBase, which does not look at the channel, is left again and
\* again.
StopReturns ==
    []<>(loop \notin {"candidate", "wait"}) => (stopping ~> (~stopping \/ AtBound))

\* A head that stays is mined on: while there are miners, the loop does not go
\* round without ever playing a round on the tipset that has become the head.
\* This is for every head, a lighter one included: GetBestMiningCandidate takes
\* any head that is not the last tipset (multiminer.go:786-788), while its
\* comment says that LAST is kept unless HEAD is heavier (lines 774-776).
\* (It may play only one: a head that moves away and back between two candidates
\* resets the null rounds, and the loop then waits on the base it has played.)
StableHeadIsMined ==
    \A t \in Tipsets :
       <>[](head = t /\ active # {} /\ stop = "open") => <>[](lastBase.ts = t \/ AtBound)
==============================================================================
