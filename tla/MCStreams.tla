------------------------------ MODULE MCStreams -----------------------------
(* A small instance of Streams: a forwarded connection, a download and two    *)
(* uploads, of which any two are opened.                                      *)
EXTENDS Streams

McStreams  == {"forward", "get", "put", "put too"}
McKind     == [s \in McStreams |-> CASE s = "forward" -> "tcp"
                                     [] s = "get"     -> "download"
                                     [] OTHER         -> "upload"]
McUpstream == [s \in McStreams |-> IF s = "get" THEN 0 ELSE 1]
McSize     == [s \in McStreams |-> 1]
NoFaults   == {}
=============================================================================
