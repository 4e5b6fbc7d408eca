--------------------------- MODULE MCMessageBuilder ---------------------------
(* A small instance of MessageBuilderHistory: one line of each kind the    *)
(* code tells apart.                                                       *)
EXTENDS MessageBuilderHistory

MCLines == {
  <<>>,
  <<"data", ":", " ", "x">>,
  <<"data", ":">>,
  <<"data">>,
  <<"event", ":", "x">>,
  <<"event", ":", " ", "message">>,
  <<"id", ":", "1">>,
  <<"id">>,
  <<"retry", ":", "1">>,
  <<"retry", ":", "1", "2", "8">>,
  <<":", "data", ":", "x">>,
  <<"x", ":", "1">>}
MCToken == {":", " ", "message", CR, LF, "data", "event", "id", "retry", "x", "1", "2", "8"}
================================================================================
