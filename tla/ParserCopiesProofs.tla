-------------------------- MODULE ParserCopiesProofs ---------------------------
(***************************************************************************)
(* Theorems about ParserCopies for every set of objects and callbacks.     *)
(***************************************************************************)
EXTENDS ParserCopies, TLAPS

(* The inductive invariant: an object that was set itself holds that       *)
(* callback, or its own lambda and the function pointer it is to call.     *)
Backs(p) ==
  \/ registered[p] = Inherited
  \/ registered[p] \in StdCallbacks \cup {None} /\ parser[p].builder = registered[p]
  \/ /\ registered[p] = <<parser[p].fn_callback_, parser[p].user_data_>>
     /\ parser[p].builder = p /\ parser[p].fn_callback_ # None

IInv == TypeOK /\ \A p \in Parsers : Alive(p) => Backs(p)

(* No object is there at first.                                            *)
LEMMA InitInv == Init => IInv
  BY DEF Init, IInv, TypeOK, Alive

(* What the constructor and set_callback leave behind.                     *)
LEMMA SetInv ==
  ASSUME IInv, NEW p \in Parsers, NEW callback \in StdCallbacks \cup {None},
         Construct(p, callback) \/ SetCallback(p, callback)
  PROVE  IInv'
<1> DEFINE new == StdFields(callback)
<1>1. new \in Fields /\ new.builder = callback /\ callback \notin Parsers
  BY ParserCopiesAssumption DEF StdFields, Fields
<1>2. parser' = [parser EXCEPT ![p] = new] /\ registered' = [registered EXCEPT ![p] = callback]
  BY DEF Construct, SetCallback
<1> HIDE DEF new
<1>3. TypeOK'
  BY <1>1, <1>2 DEF IInv, TypeOK, Targets
<1>4. Backs(p)'
  BY <1>1, <1>2 DEF IInv, TypeOK, Backs
<1>5. \A q \in Parsers : q # p /\ Alive(q)' => Backs(q)'
  BY <1>2 DEF IInv, TypeOK, Backs, Alive
<1> QED
  BY <1>3, <1>4, <1>5 DEF IInv

(* What set_callback leaves behind for a function pointer.                 *)
LEMMA SetFnInv ==
  ASSUME IInv, NEW p \in Parsers, NEW fn \in FnCallbacks \cup {None},
         NEW user_data \in UserData, SetFnCallback(p, fn, user_data)
  PROVE  IInv'
<1> DEFINE new == [callback_ |-> parser[p].callback_, fn_callback_ |-> fn,
                   user_data_ |-> user_data, builder |-> Wrap(p, fn)]
           due == IF fn = None THEN None ELSE <<fn, user_data>>
<1>1. parser[p] \in Fields
  BY DEF IInv, TypeOK, SetFnCallback, Alive
<1>2. /\ new \in Fields /\ new.builder = Wrap(p, fn)
      /\ new.fn_callback_ = fn /\ new.user_data_ = user_data
  BY <1>1 DEF Fields, Wrap
<1>3. parser' = [parser EXCEPT ![p] = new] /\ registered' = [registered EXCEPT ![p] = due]
  BY <1>1 DEF SetFnCallback, IInv, TypeOK, Fields
<1> HIDE DEF new
<1>4. due \in Targets
  BY DEF Targets
<1> HIDE DEF due
<1>5. TypeOK'
  BY <1>2, <1>3, <1>4, ParserCopiesAssumption DEF IInv, TypeOK, Wrap
<1>6. parser'[p] = new /\ registered'[p] = due
  BY <1>3 DEF IInv, TypeOK
<1>7. Backs(p)'
  BY <1>2, <1>6 DEF Backs, Wrap, due
<1>8. \A q \in Parsers : q # p /\ Alive(q)' => Backs(q)'
  BY <1>3 DEF IInv, TypeOK, Backs, Alive
<1> QED
  BY <1>5, <1>7, <1>8 DEF IInv

(* Copying leaves the source as it was; moving leaves nothing of its own   *)
(* registration.                                                           *)
LEMMA CopyMoveInv ==
  ASSUME IInv, NEW p \in Parsers, NEW q \in Parsers, Copy(p, q) \/ Move(p, q)
  PROVE  IInv'
<1>1. parser[p] \in Fields /\ p # q
  BY DEF IInv, TypeOK, Copy, Move, Alive
<1>2. CASE Copy(p, q)
  <2>1. TypeOK'
    BY <1>1, <1>2 DEF Copy, IInv, TypeOK
  <2>2. \A r \in Parsers : Alive(r)' => Backs(r)'
    BY <1>1, <1>2 DEF Copy, IInv, TypeOK, Backs, Alive
  <2> QED
    BY <2>1, <2>2 DEF IInv
<1>3. CASE Move(p, q)
  <2> DEFINE left == MovedFrom(parser[p])
  <2>1. left \in Fields /\ left.builder \notin Parsers
    BY <1>1, ParserCopiesAssumption DEF MovedFrom, Fields
  <2>2. /\ parser' = [r \in Parsers |-> IF r = p THEN left
                                        ELSE IF r = q THEN parser[p] ELSE parser[r]]
        /\ registered' = [r \in Parsers |-> IF r \in {p, q} THEN Inherited ELSE registered[r]]
    BY <1>1, <1>3 DEF Move, IInv, TypeOK, Fields
  <2> HIDE DEF left
  <2>3. TypeOK'
    BY <1>1, <2>1, <2>2 DEF IInv, TypeOK
  <2>4. \A r \in Parsers : Alive(r)' => Backs(r)'
    BY <2>2 DEF IInv, TypeOK, Backs, Alive
  <2> QED
    BY <2>3, <2>4 DEF IInv
<1> QED
  BY <1>2, <1>3

(* Every operation on every object keeps the invariant.                    *)
LEMMA NextInv == IInv /\ [Next]_vars => IInv'
<1> SUFFICES ASSUME IInv, [Next]_vars PROVE IInv'
  OBVIOUS
<1>1. ASSUME NEW p \in Parsers, Destroy(p) PROVE IInv'
  BY <1>1 DEF Destroy, IInv, TypeOK, Backs, Alive
<1>2. CASE UNCHANGED vars
  BY <1>2 DEF vars, IInv, TypeOK, Backs, Alive
<1> QED
  BY <1>1, <1>2, SetInv, SetFnInv, CopyMoveInv DEF Next

(* For every number of objects: the fields have their types, and an object *)
(* that holds a lambda, its own or one copied into it, has a function      *)
(* pointer too (set_callback, the compiler's copy and move).               *)
THEOREM CopiesTypeCorrect == Spec => []TypeOK
<1>1. IInv => TypeOK
  BY DEF IInv
<1> QED
  BY <1>1, InitInv, NextInv, PTL DEF Spec

(* For every number of objects, copied, moved and destroyed in any order:  *)
(* a callback set on an object itself receives its messages, and no null   *)
(* pointer or other object is asked for it (both set_callback).            *)
THEOREM OwnRegistration == Spec => []OwnRegistrationHolds
<1>1. IInv => OwnRegistrationHolds
  BY ParserCopiesAssumption DEF IInv, TypeOK, Backs, OwnRegistrationHolds, Receiver, Alive
<1> QED
  BY <1>1, InitInv, NextInv, PTL DEF Spec

================================================================================
