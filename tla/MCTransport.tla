---------------------------- MODULE MCTransport -----------------------------
(* Frames without payload, of the greatest size, and too large: the last one *)
(* holds the bytes of the first.                                             *)
EXTENDS Transport

MCFrame ==
    {[kind |-> 1, payload |-> <<>>], [kind |-> 2, payload |-> <<2, 0>>],
     [kind |-> 2, payload |-> <<Magic, 1, 0, 0>>]}
=============================================================================
