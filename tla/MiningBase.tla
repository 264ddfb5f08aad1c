------------------------------ MODULE MiningBase ------------------------------
(***************************************************************************)
(* The type MiningBase of miner/multiminer.go: a tipset to mine on and the *)
(* number of null rounds since it.                                         *)
(***************************************************************************)
EXTENDS ChainData

CONSTANTS
    TsTicket,   \* smallest ticket of a tipset (TipSet.MinTicket)
    MaxNulls    \* bound: consecutive null rounds explored on one tipset

ASSUME BaseAssumption == MaxNulls \in Nat /\ DOMAIN TsTicket = Tipsets

Base == [ts : Tipsets, nulls : 0 .. MaxNulls]
NoBase == [ts |-> EmptyKey, nulls |-> 0]    \* a nil pointer, or the zero MiningBase

\* Height of the block mined on a base.
RoundHeight(base) == TsHeight[base.ts] + base.nulls + 1

\* mutant: only a higher head replaces the base
HigherCandidate(last, head) ==
    IF last # NoBase /\ TsHeight[last.ts] >= TsHeight[head]
    THEN last
    ELSE [ts |-> head, nulls |-> 0]

\* GetBestMiningCandidate: the last one while it is the head, the head without null
\* rounds otherwise.
BestCandidate(last, head) ==
    IF last.ts = head THEN last ELSE [ts |-> head, nulls |-> 0]

\* The second reading of the head, after the proofs: another tipset of the height
\* of the base is the same base with more blocks when the smallest ticket is the
\* same, and a fork otherwise.
OtherAtHeight(base, ts) == TsHeight[ts] = TsHeight[base.ts] /\ ts # base.ts
Extends(base, ts) == OtherAtHeight(base, ts) /\ TsTicket[ts] = TsTicket[base.ts]
Forks(base, ts)   == OtherAtHeight(base, ts) /\ TsTicket[ts] # TsTicket[base.ts]
==============================================================================
