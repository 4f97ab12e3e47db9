----------------------------- MODULE MCReconnect -----------------------------
(* The client with three resolved addresses, two of one family.            *)
EXTENDS ClientConnect

RaceFamilies == <<"v6", "v4", "v6">>
=============================================================================
