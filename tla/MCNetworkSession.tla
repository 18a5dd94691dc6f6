--------------------------- MODULE MCNetworkSession ---------------------------
(***************************************************************************)
(* The logs of the clients of NetworkSession.cfg: a small frame, one as    *)
(* long as max_log_size (11) allows and one a byte longer; lines that are  *)
(* empty (and rejected), small, and longer than max_log_size.              *)
(***************************************************************************)
EXTENDS Stash

Log(k, n, v) == [kind |-> k, len |-> n, valid |-> v]
MCShapes == {Log("frame", 3, TRUE), Log("frame", 11, TRUE), Log("frame", 12, TRUE),
             Log("text", 0, FALSE), Log("text", 3, TRUE), Log("text", 14, TRUE)}
=============================================================================
