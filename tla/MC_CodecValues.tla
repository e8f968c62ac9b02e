--------------------------- MODULE MC_CodecValues ---------------------------
(* CodecValues instantiated for TLC: integer fields over {-1, 0, 1}, a day *)
(* of 86_400 "microseconds" (the range check keeps its shape, TLC's        *)
(* integers stay small), vectors of up to two elements or of 2^16.         *)
EXTENDS CodecValues

MCInts == {-1, 0, 1}
MCShortVectors == {0, 1, 2}
MCLongVectors == {65536}
====
