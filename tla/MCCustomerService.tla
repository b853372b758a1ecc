------------------------- MODULE MCCustomerService -------------------------
(***************************************************************************)
(* An instance of CustomerService small enough for TLC.                    *)
(***************************************************************************)
EXTENDS CustomerService

CONSTANTS r1, r2, r3, seed, ann

MCRequest == {r1, r2, r3}
MCNamed == {seed, ann}
MCSeeded == {seed}
=============================================================================
