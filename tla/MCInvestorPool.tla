--------------------------- MODULE MCInvestorPool ---------------------------
(* Model-checking instance of InvestorPool: two investors, two tranches   *)
(* (senior 0, junior 1), small balances.                                   *)
EXTENDS InvestorPool

CONSTANTS i1, i2, b, pa, none

MCInvestors == {i1, i2}

\* One investor, for the liveness runs.
MCOneInvestor == {i1}

\* A senior tranche with a 10 % subordination minimum, and a spec without
\* a junior tranche that create_pool rejects.
MCSubordinated == { << <<10, 10>>, <<0, 0>> >>, << <<0, 0>>, <<10, 0>> >> }

\* A senior tranche without subordination minimum.
MCUnsubordinated == { << <<5, 0>>, <<0, 0>> >> }

\* Both: create_pool may be called with either.
MCAllSpecs == MCSubordinated \cup MCUnsubordinated

MCCurrencyGenesis == [a \in {i1, i2, b} |-> IF a = b THEN 0 ELSE 2]

\* Only i1 holds a junior token: the senior token has no issuance.
MCTokenFlow == [t \in 0 .. 1 |-> [a \in {i1, i2} |-> IF t = 1 /\ a = i1 THEN 2 ELSE 0]]

\* i2 also holds a senior token.
MCTokenSenior == [t \in 0 .. 1 |-> [a \in {i1, i2} |->
                    IF (t = 1 /\ a = i1) \/ (t = 0 /\ a = i2) THEN 2 ELSE 0]]
=============================================================================
