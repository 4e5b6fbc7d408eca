----------------------------- MODULE FieldParser ------------------------------
(***************************************************************************)
(* The field parser: free functions that take a line apart and fill a      *)
(* Message.  A line is a sequence of tokens; a token is one character or a *)
(* word no property looks into ("data", "message", ...), so "data: x" is   *)
(* <<"data", ":", " ", "x">>.                                              *)
(***************************************************************************)
EXTENDS Naturals, Sequences

CONSTANTS
  Token,   \* what lines are made of
  IntMax,  \* INT_MAX
  None     \* an optional without a value; the null callback

CR == "CR"
LF == "LF"
Colon == ":"
Space == " "
BOM == <<"xEF", "xBB", "xBF">>

Digits == <<"0", "1", "2", "3", "4", "5", "6", "7", "8", "9">>
DigitValue(c) == (CHOOSE n \in 1 .. 10 : Digits[n] = c) - 1
IsDigit(c) == \E n \in 1 .. 10 : Digits[n] = c

(* std::isspace of the "C" locale.                                         *)
IsSpace(c) == c \in {Space, "TAB", "VT", "FF", CR, LF}

ASSUME FieldParserAssumption ==
  /\ {Colon, Space, "message", CR, LF} \subseteq Token
  /\ IntMax \in Nat
  /\ None \notin Seq(Token) \cup Nat

Message ==
  [event : Seq(Token), data : Seq(Token),
   id : Seq(Token) \cup {None}, retry : 0 .. IntMax \cup {None}]

(* A default constructed Message, and what Message::clear leaves.          *)
DefaultMessage ==
  [event |-> <<"message">>, data |-> <<>>, id |-> None, retry |-> None]

--------------------------------------------------------------------------------
(* Slips the operators below could contain; each breaks a property.        *)

OverflowTestOffByOne(val, digit) ==
  val > IntMax \div 10 \/ val * 10 > IntMax - digit + 1
StripAllSpaces(value) == SelectSeq(value, LAMBDA c : c # Space)

--------------------------------------------------------------------------------
(* parse_retry_value                                                       *)

Trim(value) ==
  LET kept == {i \in 1 .. Len(value) : ~ IsSpace(value[i])}
  IN  IF kept = {} THEN <<>>
      ELSE SubSeq(value, CHOOSE i \in kept : \A j \in kept : i <= j,
                         CHOOSE i \in kept : \A j \in kept : i >= j)

(* The two tests before val *= 10 and val += digit; the first protects the *)
(* multiplication of the second.                                           *)
WouldOverflow(val, digit) ==
  val > IntMax \div 10 \/ val * 10 > IntMax - digit

(* One turn of the digit loop; None is the return of invalid_retry.  A '-' *)
(* is no digit, so the code's test for it adds nothing.                    *)
AddDigit(val, c) ==
  IF val = None \/ ~ IsDigit(c) THEN None
  ELSE IF WouldOverflow(val, DigitValue(c)) THEN None
  ELSE val * 10 + DigitValue(c)

(* The values of val after each turn.                                      *)
DigitLoop(trimmed) ==
  LET val[n \in 0 .. Len(trimmed)] ==
        IF n = 0 THEN 0 ELSE AddDigit(val[n - 1], trimmed[n])
  IN  val

ParseRetryValue(value) ==
  LET trimmed == Trim(value)
  IN  IF trimmed = <<>> THEN None ELSE DigitLoop(trimmed)[Len(trimmed)]

--------------------------------------------------------------------------------
(* parse_field_line                                                        *)

IsComment(line) == line # <<>> /\ line[1] = Colon
HasColon(line) == \E i \in 1 .. Len(line) : line[i] = Colon
FirstColon(line) ==
  CHOOSE i \in 1 .. Len(line) :
    line[i] = Colon /\ \A j \in 1 .. i - 1 : line[j] # Colon

(* Exactly one leading space is removed.                                   *)
StripSpace(value) ==
  IF value # <<>> /\ value[1] = Space THEN Tail(value) ELSE value

FieldName(line) ==
  IF HasColon(line) THEN SubSeq(line, 1, FirstColon(line) - 1) ELSE line
FieldValue(line) ==
  IF HasColon(line)
  THEN StripSpace(SubSeq(line, FirstColon(line) + 1, Len(line)))
  ELSE <<>>

(* msg as the caller finds it afterwards, and the error returned.          *)
ParseFieldLine(line, msg) ==
  LET name == FieldName(line)
      value == FieldValue(line)
      retry == ParseRetryValue(value)
  IN  CASE IsComment(line) -> [err |-> "success", msg |-> msg]
        [] ~ IsComment(line) /\ name \in {<<"event">>, <<"data">>, <<"id">>} ->
             [err |-> "success", msg |-> [msg EXCEPT ![name[1]] = value]]
        [] ~ IsComment(line) /\ name = <<"retry">> /\ retry # None ->
             [err |-> "success", msg |-> [msg EXCEPT !.retry = retry]]
        [] ~ IsComment(line) /\ name = <<"retry">> /\ retry = None ->
             [err |-> "invalid_retry", msg |-> msg]
        [] OTHER -> [err |-> "success", msg |-> msg]

--------------------------------------------------------------------------------
(* has_bom, skip_bom.  Offered to callers; no other part of the library    *)
(* uses them.                                                              *)

HasBom(data) == Len(data) >= 3 /\ SubSeq(data, 1, 3) = BOM
SkipBom(data) ==
  IF HasBom(data) THEN SubSeq(data, 4, Len(data)) ELSE data

================================================================================
