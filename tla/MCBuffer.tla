------------------------------- MODULE MCBuffer -------------------------------
(* Small instances of Buffer for TLC: every chunk of at most ChunkLen      *)
(* bytes over the alphabet of the two terminators and one ordinary byte.   *)
EXTENDS Buffer, SequencesExt

CONSTANT ChunkLen
MCChunks == BoundedSeq({"a", "cr", "lf"}, ChunkLen)
MCByte == {"a", "cr", "lf"}
================================================================================
