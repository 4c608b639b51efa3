---------------------------- MODULE MCMemoryBoot ----------------------------
(***************************************************************************)
(* Maps of an entry at the bottom of memory and any second one, which may  *)
(* touch, overlap or cover the first; boot data of low memory (its first   *)
(* page) and any one other range.                                          *)
(***************************************************************************)
EXTENDS MemoryBoot

CONSTANT Top    \* no range ends above this byte

MCRanges == {r \in [addr : 0 .. Top, length : 0 .. Top] : End(r) <= Top}
MCEntry(r, t) == [addr |-> r.addr, length |-> r.length, type |-> t]
MCMaps == {<<MCEntry(r, 1), MCEntry(s, t)>> :
             r \in {q \in MCRanges : q.addr <= 1}, s \in MCRanges, t \in {1, 2}}
MCBootDatas == {<<[addr |-> 0, length |-> PageSize], r>> : r \in MCRanges}
=============================================================================
