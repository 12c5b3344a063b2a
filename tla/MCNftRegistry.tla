--------------------------- MODULE MCNftRegistry ---------------------------
(* NftRegistry with two accounts, two assets, one anchored document and   *)
(* the genesis bridge chain 0.  The cfgs make u1 endowed and u2 an        *)
(* authority stash; MCGenesisDev.cfg endows u2 as well.                   *)
EXTENDS NftRegistry

CONSTANTS u1, u2, x1, x2, i1, i2, an1, an2, pf1, pf2, st1, st2, none

\* Only the first anchor is anchored, and only the first proof verifies.
MCVerifies == [a \in {an1} |-> {pf1}]

\* The runtime also needs the matching static proofs.
MCRuntimeVerifies == [a \in {an1} |-> {<<pf1, st1>>}]


=============================================================================
