------------------------------- MODULE MCTls -------------------------------
(* Two key pairs, so that files of different pairs can meet. *)
EXTENDS Tls

CONSTANTS c1, c2, r1, r2, starter

MCConns == {c1, c2}
MCOneConn == {c1}
MCRefreshes == {r1, r2}
MCOneRefresh == {r1}
MCPairs == {1, 2}
============================================================================
