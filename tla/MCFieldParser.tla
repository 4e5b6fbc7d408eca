---------------------------- MODULE MCFieldParser -----------------------------
(***************************************************************************)
(* The instance of FieldTexts for TLC.                                     *)
(***************************************************************************)
EXTENDS FieldTexts

MCToken == Alphabet \cup {":", " ", "message", CR, LF}

================================================================================
