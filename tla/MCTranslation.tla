---------------------------- MODULE MCTranslation ----------------------------
(* Two pages in one TLB set, one instruction that may lie across them, and two  *)
(* address spaces that share an ASID, the second one empty.                     *)
EXTENDS Translation

CONSTANTS p1, p2, f1, f2, s1, s2, EntryMax

MCIdentity == [p \in Pages |-> f1]
MCLeafOf == [p \in Pages |-> p]
MCOne == [p \in Pages |-> 1]
MCAsid == [s \in Spaces |-> 7]
MCPagesOf == [pc \in Pcs |-> <<p1, p2>>]
MCPtes == [s \in Spaces |-> {[frame |-> f1, bits |-> {}]} \cup
    IF s = s1 THEN {[frame |-> f1, bits |-> {"V", "R", "W", "X", "U"}],
                    [frame |-> f2, bits |-> {"V", "R", "X"}]} ELSE {}]

Entries(as) == {<<a, s, w>> \in as \X Sets \X Ways : tlb[a][s].way[w] # None}

\* At most EntryMax TLB entries at a time, all of them for data or all for code.
Few ==
    \/ /\ Cardinality(Entries({"Read", "Write"})) <= EntryMax
       /\ tlb["Code"] = EmptyTlb["Code"] /\ decode = EmptyDecode
    \/ /\ Cardinality(Entries({"Code"})) <= EntryMax
       /\ tlb["Read"] = EmptyTlb["Read"] /\ tlb["Write"] = EmptyTlb["Write"]
=============================================================================
