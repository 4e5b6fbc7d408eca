------------------------------ MODULE MCSseClient ------------------------------
(* A small instance of SseClient: three events.                            *)
EXTENDS SseClient

MCIds == <<"1", "2", "3">>
MCToken == {":", " ", "message", CR, LF, "data", "id", "1", "2", "3"} \cup
           {BOM[i] : i \in 1 .. 3}
================================================================================
