----------------------------- MODULE MCSaleStock -----------------------------
(***************************************************************************)
(* Small instances of SaleStock. Expiry 9 is "no date". Quantities are     *)
(* whole units.                                                            *)
(***************************************************************************)
EXTENDS SaleStock, TLC

CONSTANTS u1, u2

Need(supply, units) == [supply |-> supply, units |-> units]

OneSupplyNeeds == {<<>>, <<Need(u1, 1)>>, <<Need(u1, 3)>>}
OneOrTwo == {<<Need(u1, 1)>>, <<Need(u1, 2)>>}

\* two supplies, in either order of the lines
CrossedNeeds ==
    {<<Need(u1, 1), Need(u2, 1)>>, <<Need(u2, 2), Need(u1, 1)>>, <<Need(u1, 2)>>}

Lots(bought) ==
    [l \in LotIds |->
        IF l \in DOMAIN bought
        THEN NewLot(bought[l].supply, bought[l].quantity, bought[l].expires, TRUE, 0)
        ELSE NoLot]

Bought(supply, quantity, expires) ==
    [supply |-> supply, quantity |-> quantity, expires |-> expires]

NothingStocked == Lots(<<>>)
OneLot == Lots(<<Bought(u1, 2, 9)>>)
\* the older lot is the later to expire
TwoLots == Lots(<<Bought(u1, 3, 9), Bought(u1, 1, 5)>>)
TwoSupplies == Lots(<<Bought(u1, 2, 9), Bought(u2, 1, 9), Bought(u1, 1, 5)>>)

Interchangeable ==
    Permutations(Sessions) \cup Permutations(Orders) \cup Permutations(Consumptions)

=============================================================================
