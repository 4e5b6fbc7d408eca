---------------------------- MODULE FieldReference ----------------------------
(***************************************************************************)
(* What the field parser's functions should compute, without their loops:  *)
(* the reference they are compared with.                                   *)
(***************************************************************************)
EXTENDS FieldParser

(* The values of the first n of a sequence of digits, for each n, without *)
(* any bound on the way.                                                   *)
DecimalPrefixes(s) ==
  LET value[n \in 0 .. Len(s)] ==
        IF n = 0 THEN 0 ELSE 10 * value[n - 1] + DigitValue(s[n])
  IN  value

Decimal(s) == DecimalPrefixes(s)[Len(s)]

(* The ways to cut value into white space, digits, white space.            *)
DigitCuts(value) ==
  {c \in (1 .. Len(value)) \X (1 .. Len(value)) :
     /\ c[1] <= c[2]
     /\ \A i \in c[1] .. c[2] : IsDigit(value[i])
     /\ \A i \in (1 .. c[1] - 1) \cup (c[2] + 1 .. Len(value)) : IsSpace(value[i])}

(* What parse_retry_value is documented to return (sse_parser.hpp:420-430): *)
(* the number between the surrounding white space, if it is nothing but    *)
(* digits and fits an int.                                                 *)
RetryReference(value) ==
  LET numbers == {Decimal(SubSeq(value, c[1], c[2])) : c \in DigitCuts(value)}
  IN  IF \E n \in numbers : n <= IntMax
      THEN CHOOSE n \in numbers : n <= IntMax ELSE None

RetryExact(value) == ParseRetryValue(value) = RetryReference(value)

(* A field line is name, colon, at most one space that is dropped, value:  *)
(* the parts put together again give the line, the name has no colon, and  *)
(* a value that still starts with a space had two.                         *)
SplitExact(line) ==
  /\ \A i \in 1 .. Len(FieldName(line)) : FieldName(line)[i] # Colon
  /\ HasColon(line) =>
       \/ line = FieldName(line) \o <<Colon, Space>> \o FieldValue(line)
       \/ /\ line = FieldName(line) \o <<Colon>> \o FieldValue(line)
          /\ FieldValue(line) = <<>> \/ FieldValue(line)[1] # Space

================================================================================
