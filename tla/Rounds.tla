-------------------------------- MODULE Rounds --------------------------------
(***************************************************************************)
(* What the mining loop promises, without its program counter: it adopts   *)
(* the head as base, plays at most one round per base, and turns a base it *)
(* did not win on into the same tipset with one more null round.           *)
(* MiningLoop implements this specification; Mining composes it with the   *)
(* broadcast goroutines.                                                   *)
(***************************************************************************)
EXTENDS MiningBase

VARIABLES
    head,       \* the sync node's head
    work,       \* the base being worked on (Miner.lastWork), NoBase at first
    last,       \* the base of the previous round, NoBase after a (re)start
    phase,      \* "idle", or "open" from the end of a round's proofs to its close
    winners,    \* in an open round, the miners that won it
    won         \* history: somebody won the previous round

roundVars == <<head, work, last, phase, winners, won>>

RoundsTypeOK ==
    /\ head \in Tipsets
    /\ work \in Base \cup {NoBase}
    /\ last \in Base \cup {NoBase}
    /\ phase \in {"idle", "open"}
    /\ winners \subseteq Miners
    /\ won \in BOOLEAN

RoundsInit ==
    /\ head \in Tipsets
    /\ work = NoBase
    /\ last = NoBase
    /\ phase = "idle"
    /\ winners = {}
    /\ won = FALSE

MoveHead(t) ==
    /\ t # head
    /\ head' = t
    /\ UNCHANGED <<work, last, phase, winners, won>>

\* The loop asks for its best mining candidate and the head has changed.
Adopt ==
    /\ phase = "idle"
    /\ work.ts # head
    /\ work' = BestCandidate(work, head)
    /\ UNCHANGED <<head, last, phase, winners, won>>

\* A round on a base that is not the one of the previous round.  again is what
\* the second ChainHead returns (the base itself when it fails).
PlayRound(ws, again) ==
    /\ phase = "idle"
    /\ work \notin {NoBase, last}
    /\ again \in {head, work.ts}
    /\ work' = IF Extends(work, again) THEN [work EXCEPT !.ts = again] ELSE work
    /\ last' = work'
    /\ winners' = ws
    /\ won' = (ws # {})
    /\ phase' = "open"
    /\ UNCHANGED head

\* mutant: a round that was won counts as a null round, too
CloseRoundAlways ==
    /\ phase = "open"
    /\ work.nulls < MaxNulls
    /\ work' = [work EXCEPT !.nulls = @ + 1]
    /\ phase' = "idle"
    /\ winners' = {}
    /\ UNCHANGED <<head, last, won>>

\* Only a round nobody won counts as a null round.
CloseRound ==
    /\ phase = "open"
    /\ \/ /\ winners = {}
          /\ work.nulls < MaxNulls
          /\ work' = [work EXCEPT !.nulls = @ + 1]
       \/ /\ winners # {}
          /\ UNCHANGED work
    /\ phase' = "idle"
    /\ winners' = {}
    /\ UNCHANGED <<head, last, won>>

\* Stop and Start: mine begins with an empty lastBase, lastWork is kept.
Restart ==
    /\ phase = "idle"
    /\ last # NoBase
    /\ last' = NoBase
    /\ UNCHANGED <<head, work, phase, winners, won>>

RoundsNext ==
    \/ \E t \in Tipsets : MoveHead(t)
    \/ Adopt
    \/ \E ws \in SUBSET Miners, t \in Tipsets : PlayRound(ws, t)
    \/ CloseRound
    \/ Restart

RoundsSpec == RoundsInit /\ [][RoundsNext]_roundVars

------------------------------------------------------------------------------
(* Properties *)

\* A null round is only ever the successor of a lost round on the same tipset
\* (multiminer.go:475): between rounds the base is the previous one, if that round was
\* won (the loop waits for a new head), its next null round, if it was lost, a freshly
\* adopted tipset without null rounds, or unrelated after a restart.
WorkFollowsLast ==
    phase = "idle" /\ last # NoBase =>
       \/ work = last /\ won
       \/ work.ts = last.ts /\ work.nulls = last.nulls + 1 /\ ~won
       \/ work.nulls = 0
==============================================================================
