-------------------------------- MODULE Mining --------------------------------
(***************************************************************************)
(* The block production path of sophon-miner: the rounds of the mining     *)
(* loop (Rounds, which MiningLoop implements) together with the slash      *)
(* filter and the broadcast goroutines (BroadCast).  A round's results     *)
(* reach the filter through PutBlock and the network through goroutines    *)
(* that outlive the round; the network answers with new heads.             *)
(*                                                                         *)
(* Two constants state what the environment is assumed to do, so that each *)
(* run says under which assumptions the filter protects the miner.         *)
(***************************************************************************)
EXTENDS Rounds, BroadCast

CONSTANTS
    Reorgs,     \* may the head move to a tipset that does not extend the chain?
    Prompt      \* does every broadcast end before the next round begins?

ASSUME MiningAssumption == Reorgs \in BOOLEAN /\ Prompt \in BOOLEAN

VARIABLES
    stage,      \* how far the current round is with a miner; "sent": done with it
    fork,       \* the second reading of the head showed a fork
    reorged     \* history: the head has left the chain it was on

mineVars == <<roundVars, vars, stage, fork, reorged>>

Stages == {"none", "won", "failed", "forked", "sent"}

MiningTypeOK ==
    /\ RoundsTypeOK
    /\ TypeOK
    /\ stage \in [Miners -> Stages]
    /\ fork \in BOOLEAN
    /\ reorged \in BOOLEAN

NotBegun == [m \in Miners |-> "none"]

MiningInit ==
    /\ RoundsInit
    /\ Init
    /\ stage = NotBegun
    /\ fork = FALSE
    /\ reorged = FALSE

------------------------------------------------------------------------------
\* Without reorganisations the next head is a higher tipset, or the same one with
\* more blocks.
Grows(t) ==
    \/ TsHeight[t] > TsHeight[head]
    \/ TsHeight[t] = TsHeight[head] /\ TsTicket[t] = TsTicket[head]

\* The network's next head.
NextHead(t) ==
    /\ TsBlocks[t] \subseteq Published
    /\ Reorgs \/ Grows(t)
    /\ MoveHead(t)
    /\ reorged' = (reorged \/ ~Grows(t))
    /\ UNCHANGED <<vars, stage, fork>>

\* A round may begin on this base.
Begun ==
    /\ phase = "idle"
    /\ work \notin {NoBase, last}
    /\ RoundHeight(work) \in Epochs
    /\ Prompt => \A j \in Jobs : pc[j] \in {"idle", "done"}

NewCandidate == Adopt /\ stage = NotBegun /\ UNCHANGED <<vars, stage, fork, reorged>>

\* A PutBlock without a ticket, which may fail; the local filter ignores it.
Record(m, parents, state) ==
    \/ RecordRound(m, RoundHeight(work), parents, state)
    \/ (Filter = "local" \/ "store" \in Failures) /\ UNCHANGED vars

\* mineOne finds that the miner has won and records Mining.
Win(m) ==
    /\ Begun
    /\ stage[m] = "none"
    /\ Record(m, work.ts, "Mining")
    /\ stage' = [stage EXCEPT ![m] = "won"]
    /\ UNCHANGED <<roundVars, fork, reorged>>

\* mineOneForAll gives up on a miner: no answer in time, or an error after the win.
Fail(m) ==
    /\ Begun
    /\ \/ stage[m] \in {"none", "won"} /\ Record(m, EmptyKey, "Timeout")
       \/ stage[m] = "won" /\ Record(m, EmptyKey, "Error")
    /\ stage' = [stage EXCEPT ![m] = "failed"]
    /\ UNCHANGED <<roundVars, fork, reorged>>

\* The proofs are done and the head is read again.
EndProofs(again) ==
    /\ Begun
    /\ PlayRound({m \in Miners : stage[m] = "won"}, again)
    /\ fork' = Forks(work, again)
    /\ UNCHANGED <<vars, stage, reorged>>

\* A fork is recorded for every winner ...
RecordFork(m) ==
    /\ phase = "open"
    /\ fork
    /\ stage[m] = "won"
    /\ Record(m, EmptyKey, "ChainForked")
    /\ stage' = [stage EXCEPT ![m] = "forked"]
    /\ UNCHANGED <<roundVars, fork, reorged>>

\* ... and the block is created and broadcast all the same.
Send(m, j, x) ==
    /\ phase = "open"
    /\ stage[m] = IF fork THEN "forked" ELSE "won"
    /\ GoBroadCast(j, [miner |-> m, height |-> RoundHeight(work), parents |-> work.ts, msgs |-> x])
    /\ stage' = [stage EXCEPT ![m] = "sent"]
    /\ UNCHANGED <<roundVars, fork, reorged>>

\* createBlock failed: the winner is skipped.
NotCreated(m) ==
    /\ phase = "open"
    /\ stage[m] = IF fork THEN "forked" ELSE "won"
    /\ stage' = [stage EXCEPT ![m] = "sent"]
    /\ UNCHANGED <<roundVars, vars, fork, reorged>>

EndRound ==
    /\ CloseRound
    /\ \A m \in winners : stage[m] = "sent"
    /\ stage' = NotBegun
    /\ fork' = FALSE
    /\ UNCHANGED <<vars, reorged>>

\* Stop and Start between two rounds; goroutines of earlier rounds run on.
RestartLoop == Restart /\ stage = NotBegun /\ UNCHANGED <<vars, stage, fork, reorged>>

\* The process dies: goroutines, lastWork and lastBase are gone.
CrashAll ==
    /\ Crash
    /\ work' = NoBase
    /\ last' = NoBase
    /\ phase' = "idle"
    /\ winners' = {}
    /\ won' = FALSE
    /\ stage' = NotBegun
    /\ fork' = FALSE
    /\ UNCHANGED <<head, reorged>>

MiningNext ==
    \/ \E t \in Tipsets : NextHead(t) \/ EndProofs(t)
    \/ NewCandidate
    \/ \E m \in Miners : Win(m) \/ Fail(m) \/ RecordFork(m) \/ NotCreated(m)
    \/ \E m \in Miners, j \in Jobs, x \in Msgs : Send(m, j, x)
    \/ EndRound
    \/ RestartLoop
    \/ \E j \in Jobs : JobStep(j) /\ UNCHANGED <<roundVars, stage, fork, reorged>>
    \/ CrashAll

MiningSpec == MiningInit /\ [][MiningNext]_mineVars

------------------------------------------------------------------------------
(* Properties *)

\* "double-fork mining (2 blocks at one epoch)": broadCastBlock publishes none.
NoDoubleFork == \A a, b \in Published : ~DoubleFork(a, b)

\* "time-offset mining faults (2 blocks with the same parents)": none published.
NoTimeOffset == \A a, b \in Published : ~TimeOffset(a, b)

\* "parent-grinding fault (didn't mine on top of our own block)": none published.
NoParentGrinding == \A a, b \in Published : ~ParentGrinding(a, b)

\* The blocks that reach the network are free of consensus faults, which the
\* broadcast step is there to verify (docs/zh/design-spec.md:38), unless one of
\* the blocks involved is missing from the filter: its goroutine died, its
\* PutBlock failed, or the node that took it answered with an error.  Parent
\* grinding is only excluded while the head stays on one chain.
FaultCostsARecord ==
    \A j, k \in delivered :
       LET a == blk[j]
           b == blk[k]
       IN DoubleFork(a, b) \/ TimeOffset(a, b) \/ (ParentGrinding(a, b) /\ ~reorged)
          => \E i \in delivered : blk[i] \in {a, b} /\ Unrecorded(i)
==============================================================================
