--------------------------- MODULE MCContractNet ---------------------------
(* Instances of ContractNet for TLC. *)
EXTENDS ContractNet

CONSTANTS w1, w2

MCNumbers == {1, 2}

MCOrderly == {[cost |-> 1, hours |-> 1]}

\* A slow bid, one without a price and one whose price is no number.
MCMixed == {[cost |-> 1, hours |-> 2], [cost |-> Missing, hours |-> 1],
            [cost |-> NotANumber, hours |-> 1]}

=============================================================================
