------------------------------ MODULE MCKrgAdm ------------------------------
(* Small instances of KrgAdm: administrators a1 and a2, up to four nodes.  *)
EXTENDS KrgAdm, TLC

CONSTANTS a1, a2

Range(lo, hi) == [ok |-> TRUE, lo |-> lo, hi |-> hi]

HereAllZero == [a \in Admins |-> 0]
HereApart   == [a \in Admins |-> IF a = a1 THEN 0 ELSE 1]

(* Out of range, empty, single, range, and one that does not parse.        *)
SomeLists == { {Range(1, 1)}, {Range(0, 0), Range(2, 7)}, {Range(2, 1)},
               {Range(1, 2), [ok |-> FALSE, lo |-> 0, hi |-> 0]} }

AnyStart  == { st \in [Nodes -> {"possible", "present", "online"}] : st[0] = "online" }

SmallCounts == -1 .. 5
=============================================================================
