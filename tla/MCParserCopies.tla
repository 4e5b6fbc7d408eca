---------------------------- MODULE MCParserCopies -----------------------------
(* Small instances of ParserCopies; objects and callbacks are alike.       *)
EXTENDS ParserCopies, TLC

Alike == Permutations(Parsers) \cup Permutations(FnCallbacks) \cup Permutations(UserData)
================================================================================
