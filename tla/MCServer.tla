------------------------------ MODULE MCServer ------------------------------
(* The Server specification with its constants given by a configuration:   *)
(* connections c1 (HTTP/1.1) and c2 (HTTP/2), requests r1 and r2.          *)
EXTENDS Server

CONSTANTS c1, c2, r1, r2

=============================================================================
