----------------------------- MODULE ParserCopies -----------------------------
(***************************************************************************)
(* Several sse::SseParser objects and their callbacks.  Copy and move are  *)
(* the compiler's own; the lambda that stands for a function pointer holds *)
(* the this of the parser that made it.  A message that completes changes  *)
(* nothing here, so Receiver stands for the delivery.                      *)
(***************************************************************************)
CONSTANTS
  Parsers, StdCallbacks, FnCallbacks, UserData,
  None,       \* a null callback
  Dead,       \* an object that is not there
  Inherited,  \* an object whose callback came from another one
  Crash       \* a call through a null pointer, or into an object not there

(* The callback fields of an object; a parser name in builder stands for   *)
(* the lambda with that this.                                              *)
Fields == [callback_ : StdCallbacks \cup {None}, fn_callback_ : FnCallbacks \cup {None},
           user_data_ : UserData \cup {None},
           builder : StdCallbacks \cup {None} \cup Parsers]

ASSUME ParserCopiesAssumption ==
  /\ Parsers \cap (StdCallbacks \cup {None}) = {}
  /\ None \notin StdCallbacks \cup FnCallbacks
  /\ Inherited \notin StdCallbacks \cup {None} \cup (FnCallbacks \X UserData)
  /\ None \notin FnCallbacks \X UserData
  /\ Dead \notin Fields

VARIABLES
  parser,      \* the fields of each object
  registered   \* the receiver set last on the object itself, or Inherited

vars == <<parser, registered>>

Targets == StdCallbacks \cup {None} \cup (FnCallbacks \X UserData)

(* The one type invariant.  An object that holds a lambda, be it another's, *)
(* has a function pointer.                                                 *)
TypeOK ==
  /\ parser \in [Parsers -> Fields \cup {Dead}]
  /\ \A p \in Parsers :
       parser[p] # Dead /\ parser[p].builder \in Parsers => parser[p].fn_callback_ # None
  /\ registered \in [Parsers -> Targets \cup {Inherited}]

Alive(p) == parser[p] # Dead

Init ==
  /\ parser = [p \in Parsers |-> Dead]
  /\ registered = [p \in Parsers |-> Inherited]

(* Where a message completed in p goes; None if nowhere.                   *)
Receiver(p) ==
  LET callback == parser[p].builder
  IN  IF callback \notin Parsers THEN callback
      ELSE IF ~ Alive(callback) THEN Crash
      ELSE IF parser[callback].fn_callback_ = None THEN Crash
      ELSE <<parser[callback].fn_callback_, parser[callback].user_data_>>

--------------------------------------------------------------------------------
(* Slips the operators below could contain; each breaks a property.        *)

WrapOnce(p, fn) ==
  IF fn = None THEN None
  ELSE IF parser[p].builder \in Parsers THEN parser[p].builder ELSE p
WrapAlways(p, fn) == p

--------------------------------------------------------------------------------
StdFields(callback) ==
  [callback_ |-> callback, fn_callback_ |-> None, user_data_ |-> None, builder |-> callback]

(* The two constructors, which take a std::function or nothing.            *)
Construct(p, callback) ==
  /\ ~ Alive(p)
  /\ parser' = [parser EXCEPT ![p] = StdFields(callback)]
  /\ registered' = [registered EXCEPT ![p] = callback]

SetCallback(p, callback) ==
  /\ Alive(p)
  /\ parser' = [parser EXCEPT ![p] = StdFields(callback)]
  /\ registered' = [registered EXCEPT ![p] = callback]

Wrap(p, fn) == IF fn = None THEN None ELSE p

SetFnCallback(p, fn, user_data) ==
  /\ Alive(p)
  /\ parser' = [parser EXCEPT ![p] =
       [callback_ |-> parser[p].callback_, fn_callback_ |-> fn, user_data_ |-> user_data,
        builder |-> Wrap(p, fn)]]
  /\ registered' = [registered EXCEPT ![p] = IF fn = None THEN None ELSE <<fn, user_data>>]

(* Construction and assignment from p; a copied lambda keeps its this.     *)
Copy(p, q) ==
  /\ Alive(p) /\ p # q
  /\ parser' = [parser EXCEPT ![q] = parser[p]]
  /\ registered' = [registered EXCEPT ![q] = Inherited]

(* A std::function is empty after it was moved from; the pointers stay.    *)
MovedFrom(fields) ==
  [callback_ |-> None, fn_callback_ |-> fields.fn_callback_,
   user_data_ |-> fields.user_data_, builder |-> None]

Move(p, q) ==
  /\ Alive(p) /\ p # q
  /\ parser' = [parser EXCEPT ![q] = parser[p], ![p] = MovedFrom(parser[p])]
  /\ registered' = [registered EXCEPT ![q] = Inherited, ![p] = Inherited]

Destroy(p) ==
  /\ Alive(p)
  /\ parser' = [parser EXCEPT ![p] = Dead]
  /\ registered' = [registered EXCEPT ![p] = Inherited]

Next ==
  \E p \in Parsers :
    \/ \E callback \in StdCallbacks \cup {None} :
         Construct(p, callback) \/ SetCallback(p, callback)
    \/ \E fn \in FnCallbacks \cup {None}, user_data \in UserData :
         SetFnCallback(p, fn, user_data)
    \/ \E q \in Parsers : Copy(p, q) \/ Move(p, q)
    \/ Destroy(p)

Spec == Init /\ [][Next]_vars

--------------------------------------------------------------------------------
(* A callback set on an object itself receives its messages, whatever was  *)
(* copied or moved into the object before, and whatever becomes of its     *)
(* copies and of the object it was copied from (both set_callback).        *)
OwnRegistrationHolds ==
  \A p \in Parsers : Alive(p) /\ registered[p] # Inherited => Receiver(p) = registered[p]

(* sse_parser.hpp:848: "Use external synchronization or separate parser    *)
(* instances per thread": what is done to one instance does not change     *)
(* where the messages of another go.                                       *)
InstancesAreSeparate ==
  [][\A p \in Parsers :
       Alive(p) /\ parser'[p] = parser[p] => Receiver(p)' = Receiver(p)]_vars

================================================================================
