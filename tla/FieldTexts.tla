------------------------------ MODULE FieldTexts -------------------------------
(***************************************************************************)
(* The functions of FieldParser against FieldReference.  The state is a    *)
(* text that grows by one token at a time up to MaxLen tokens, so that     *)
(* every text of that length over Alphabet is a state.                     *)
(***************************************************************************)
EXTENDS FieldReference

CONSTANTS
  Alphabet,   \* the tokens the texts are made of
  MaxLen      \* bound on their length

ASSUME FieldTextsAssumption == Alphabet \subseteq Token /\ MaxLen \in Nat

VARIABLE text

Init == text = <<>>
Grow(c) == Len(text) < MaxLen /\ text' = Append(text, c)
Next == \E c \in Alphabet : Grow(c)
Spec == Init /\ [][Next]_text

--------------------------------------------------------------------------------
(* The digit loop accepts exactly the numbers that fit an int: its         *)
(* overflow tests neither let one through nor refuse INT_MAX itself        *)
(* (parse_retry_value).                                                    *)
RetryIsExact == RetryExact(text)

(* A line is split at its first colon and loses at most one space          *)
(* (parse_field_line).                                                     *)
SplitIsExact == SplitExact(text)

================================================================================
