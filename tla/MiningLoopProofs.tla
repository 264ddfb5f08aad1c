--------------------------- MODULE MiningLoopProofs ---------------------------
(***************************************************************************)
(* MiningLoop is type correct and implements Rounds, for every chain, set  *)
(* of miners and behaviour of the head.                                    *)
(***************************************************************************)
EXTENDS MiningLoop, TLAPS

\* Past the candidate there is a base, and a round is only played on a base other
\* than the previous one: lastWork, which the loop shares with getLatestBase by
\* pointer, is not written between the comparison and the end of the proofs.
BaseChosen ==
    /\ loop \in {"wait", "check", "mine", "reread", "create", "broadcast", "until"}
         => lastWork \in Base
    /\ loop \in {"mine", "reread"} => lastWork # lastBase

\* Start runs a second loop only after the first has left.
OneLoop == stop = "nil" <=> loop = "stopped"

LoopIInv == LoopTypeOK /\ BaseChosen /\ OneLoop

USE DEF Steps

\* A candidate is a base.
LEMMA BestCandidateType ==
    ASSUME NEW w \in Base \cup {NoBase}, NEW t \in Tipsets
    PROVE  BestCandidate(w, t) \in Base
  BY BaseAssumption, NullAssumption DEF BestCandidate, Base, NoBase

\* The initial states.
LEMMA InitLoop == LoopInit => LoopIInv
  BY DEF LoopInit, LoopIInv, LoopTypeOK, BaseChosen, OneLoop

\* Every step keeps the types and the base.
LEMMA NextLoop == LoopIInv /\ [LoopNext]_loopVars => LoopIInv'
<1> SUFFICES ASSUME LoopIInv, [LoopNext]_loopVars PROVE LoopIInv'
  OBVIOUS
<1> USE DEF LoopIInv, LoopTypeOK, BaseChosen, OneLoop
<1>1. ASSUME NEW t \in Tipsets, HeadChange(t) PROVE LoopIInv'
  BY <1>1 DEF HeadChange
<1>2. ASSUME NEW ms \in SUBSET Miners, SetMiners(ms) PROVE LoopIInv'
  BY <1>2 DEF SetMiners
<1>3. ASSUME NEW ms \in SUBSET Miners, Start(ms) PROVE LoopIInv'
  BY <1>3 DEF Start
<1>4. CASE Stop \/ Exit
  BY <1>4 DEF Stop, Exit
<1>5. CASE NoMiners \/ UNCHANGED loopVars
  BY <1>5 DEF NoMiners, loopVars
<1>6. CASE Begin
  BY <1>6 DEF Begin
<1>7. CASE Candidate
  <2>1. lastWork' \in Base
    BY <1>7, BestCandidateType DEF Candidate
  <2> QED BY <1>7, <2>1 DEF Candidate
<1>8. CASE Wait \/ BaseError
  BY <1>8 DEF Wait, BaseError
<1>9. CASE SameBase \/ NewBase
  BY <1>9 DEF SameBase, NewBase
<1>10. ASSUME NEW ws \in SUBSET Miners, MineOneForAll(ws) PROVE LoopIInv'
  BY <1>10 DEF MineOneForAll
<1>11. CASE Reread
  <2>1. lastWork' \in Base
    BY <1>11 DEF Reread, Base
  <2>2. lastBase' = lastWork' /\ forked' \subseteq Miners
    BY <1>11 DEF Reread
  <2>3. loop' \in {"create", "until"}
    BY <1>11 DEF Reread
  <2> QED BY <1>11, <2>1, <2>2, <2>3 DEF Reread
<1>12. ASSUME NEW ms \in SUBSET Miners, CreateBlocks(ms) PROVE LoopIInv'
  BY <1>12 DEF CreateBlocks
<1>13. CASE Broadcast
  BY <1>13 DEF Broadcast
<1>14. CASE UntilNextEpoch
  <2>1. lastWork' \in Base
    BY <1>14, BaseAssumption DEF UntilNextEpoch, Base
  <2> QED BY <1>14, <2>1 DEF UntilNextEpoch
<1> QED BY <1>1, <1>2, <1>3, <1>4, <1>5, <1>6, <1>7, <1>8, <1>9, <1>10, <1>11, <1>12,
           <1>13, <1>14 DEF LoopNext, LoopStep

\* Type correctness of the mining loop.
THEOREM LoopTypeCorrect == LoopSpec => []LoopTypeOK
<1>1. LoopIInv => LoopTypeOK
  BY DEF LoopIInv
<1> QED BY InitLoop, NextLoop, <1>1, PTL DEF LoopSpec

------------------------------------------------------------------------------
(* Refinement *)

\* Initial states map to initial states.
LEMMA InitRefines == LoopInit => R!RoundsInit
  BY DEF LoopInit, R!RoundsInit, RoundOpen, NoBase, R!NoBase

\* Every step of the loop is a step of Rounds or leaves its variables alone.
LEMMA StepRefines == LoopIInv /\ [LoopNext]_loopVars => [R!RoundsNext]_(R!roundVars)
<1> SUFFICES ASSUME LoopIInv, [LoopNext]_loopVars
             PROVE  R!RoundsNext \/ UNCHANGED R!roundVars
  OBVIOUS
<1> USE DEF LoopIInv, LoopTypeOK, BaseChosen, OneLoop, RoundOpen, R!roundVars
<1>1. ASSUME NEW t \in Tipsets, HeadChange(t) PROVE R!MoveHead(t)
  BY <1>1 DEF HeadChange, R!MoveHead
<1>2. ASSUME NEW ms \in SUBSET Miners, SetMiners(ms) PROVE UNCHANGED R!roundVars
  BY <1>2 DEF SetMiners
<1>3. ASSUME NEW ms \in SUBSET Miners, Start(ms)
      PROVE  R!Restart \/ UNCHANGED R!roundVars
  BY <1>3 DEF Start, R!Restart, NoBase, R!NoBase
<1>4. CASE Stop \/ Exit \/ NoMiners \/ Begin \/ UNCHANGED loopVars
  BY <1>4 DEF Stop, Exit, NoMiners, Begin, loopVars
<1>5. CASE Candidate
  <2>1. CASE lastWork.ts = head
    BY <1>5, <2>1 DEF Candidate, BestCandidate
  <2>2. CASE lastWork.ts # head
    BY <1>5, <2>2 DEF Candidate, BestCandidate, R!Adopt, R!BestCandidate, R!RoundsNext
  <2> QED BY <2>1, <2>2
<1>6. CASE Wait \/ BaseError \/ SameBase \/ NewBase
  BY <1>6 DEF Wait, BaseError, SameBase, NewBase
<1>7. ASSUME NEW ws \in SUBSET Miners, MineOneForAll(ws) PROVE UNCHANGED R!roundVars
  BY <1>7 DEF MineOneForAll
<1>8. CASE Reread
  <2> DEFINE plays(again) ==
        /\ again \in {head, lastWork.ts}
        /\ lastWork' = IF Extends(lastWork, again) THEN [lastWork EXCEPT !.ts = again]
                       ELSE lastWork
  <2>1. lastWork.ts \in Tipsets /\ ~Extends(lastWork, lastWork.ts)
    BY <1>8 DEF Reread, Base, Extends, OtherAtHeight
  <2>2. plays(head) \/ plays(lastWork.ts)
    BY <1>8, <2>1 DEF Reread, Extends, Forks
  <2>3. PICK again \in Tipsets : plays(again)
    BY <2>1, <2>2
  <2>4. lastWork \notin {NoBase, lastBase}
    BY <1>8, NullAssumption DEF Reread, Base, NoBase
  <2>5. R!PlayRound(wins, again)
    BY <1>8, <2>3, <2>4
    DEF Reread, R!PlayRound, R!NoBase, NoBase, R!Extends, Extends,
        R!OtherAtHeight, OtherAtHeight
  <2> QED BY <2>3, <2>5 DEF R!RoundsNext
<1>9. ASSUME NEW ms \in SUBSET Miners, CreateBlocks(ms) PROVE UNCHANGED R!roundVars
  BY <1>9 DEF CreateBlocks
<1>10. CASE Broadcast
  BY <1>10 DEF Broadcast
<1>11. CASE UntilNextEpoch
  BY <1>11 DEF UntilNextEpoch, R!CloseRound, R!RoundsNext
<1> QED BY <1>1, <1>2, <1>3, <1>4, <1>5, <1>6, <1>7, <1>8, <1>9, <1>10, <1>11
        DEF LoopNext, LoopStep, R!RoundsNext

\* The loop of multiminer.go, with its pointer to lastWork, its copy lastBase and
\* its two readings of the head, implements the rounds of the abstract loop.
THEOREM LoopImplementsRounds == LoopSpec => ImplementsRounds
<1> QED BY InitLoop, NextLoop, InitRefines, StepRefines, PTL
        DEF LoopSpec, ImplementsRounds, R!RoundsSpec
==============================================================================
