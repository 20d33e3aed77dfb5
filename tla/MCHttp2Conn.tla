------------------------------ MODULE MCHttp2Conn ------------------------------
(* Two request streams on one connection, windows of a few bytes. *)
EXTENDS Http2Conn
=============================================================================
