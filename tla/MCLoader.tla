------------------------------ MODULE MCLoader ------------------------------
(* Instance of Loader for TLC. *)
EXTENDS Loader, TLC

CONSTANTS address, transaction

\* Two releases; the second has two more versions of the first service.
Releases ==
    {address :> {1} @@ transaction :> {},
     address :> {1, 2, 3} @@ transaction :> {}}
=============================================================================
