---------------------------- MODULE MCSseReentrant ----------------------------
(* Small instances of SseReentrant.                                        *)
EXTENDS SseReentrant

MCToken == {":", " ", "message", CR, LF, "data", "retry", "x"}

(* A message with the beginning of the next, its end, and a line that      *)
(* fails between two boundaries.                                           *)
NestedChunks == {
  <<"data", ":", "x", LF, LF, "data">>,
  <<":", LF, LF>>,
  <<LF, "retry", ":", "x", LF, LF>>}

OneMessage == {<<"data", ":", "x", LF, LF>>}
================================================================================
