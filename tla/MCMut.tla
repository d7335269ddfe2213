------------------------------- MODULE MCMut -------------------------------
(* Programs of a few calls over blocks of at most 28 bytes, with words of    *)
(* five bits, so that sizes near the top of the word wrap.                   *)
EXTENDS Mut

MCBase2 == {40, 80}
MCBase3 == {40, 80, 120}
MCStray == {8}
MCBt == 1..6

BookFlags == {{"stats", "backtrace"}, {"stats", "zero"},
              {"free"}, {"free", "stats", "backtrace"}}
ZoneFlags == {{"check"}, {"check", "backtrace", "zero"}}

\* A shape with a size that is not a multiple of the word, and one that is.
ShapeOdd == {<<1, 3>>}
ShapeEven == {<<2, 4>>}
=============================================================================
