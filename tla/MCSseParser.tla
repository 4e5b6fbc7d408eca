----------------------------- MODULE MCSseParser ------------------------------
(* Small instances of SseParserHistory.                                    *)
EXTENDS SseParserHistory

MCToken == {":", " ", "message", CR, LF, "data", "event", "id", "retry", "x", "1"}

(* Chunks that end anywhere in a line, whole messages, retries that fail   *)
(* with text behind them, so that a flush may meet one of them as well,    *)
(* and CRLFs that no cut splits.  With a limit of 9 tokens they are often  *)
(* compacted for and often refused.                                        *)
MixedChunks == {
  <<>>,
  <<"data">>,
  <<":", "x">>,
  <<LF>>,
  <<"retry", LF, "retry", LF, LF>>,
  <<"id", ":", "1", CR, LF, CR, LF, "data", ":">>}

(* Cuts between the two halves of a CRLF.                                  *)
SplitChunks == {<<"data", ":", "x", CR>>, <<LF>>}
WholeMessages == {<<"id", ":", "1", LF, "data", ":", "x", LF, LF>>}

(* One message complete, one begun.                                        *)
CallbackChunks == {<<"data", ":", "x", LF, LF, "data">>}
================================================================================
