-------------------------------- MODULE Utf ---------------------------------
(***************************************************************************)
(* utf8_to_utf16 and utf16_to_utf8 (native/src/utf16.cpp).                 *)
(*                                                                         *)
(* A byte of UTF-8 is <<n, p>>: the lead of an n-byte sequence (n = 5 for  *)
(* a byte that leads none), or a continuation (n = 0), with payload p.     *)
(* The code's numbers are constants, so that a few code points stand for   *)
(* all of Unicode.                                                         *)
(***************************************************************************)
EXTENDS Naturals, FiniteSets, SequencesExt

CONSTANTS
  K,           \* 0x40: values of a continuation's payload
  T1, T2, T3,  \* 0x80, 0x800, 0x10000: first code points of 2, 3 and 4 bytes
  Half,        \* 0x400: surrogates of each half
  Surrogate,   \* 0xd800: the first high surrogate
  Replacement  \* 0xfffd

T4 == T3 + Half * Half

ASSUME UtfAssumptions ==
  /\ {K, T1, T2, T3, Half, Surrogate, Replacement} \subseteq Nat \ {0}
  /\ T1 < T2 /\ T2 < T3 /\ Surrogate + 2 * Half <= Replacement /\ Replacement < T3

High(u) == u \in Surrogate .. Surrogate + Half - 1
Low(u) == u \in Surrogate + Half .. Surrogate + 2 * Half - 1

-----------------------------------------------------------------------------
Units(cp) ==
  IF cp < T3 THEN <<cp>>
  ELSE <<Surrogate + (cp - T3) \div Half, Surrogate + Half + ((cp - T3) % Half)>>

(* The bytes of the first sequence of text, and what it stands for.  A     *)
(* broken, overlong or too large one is a replacement.                     *)
Whole(text) ==
  LET n == text[1][1]
  IN n \in 1 .. 4 /\ n <= Len(text) /\ \A i \in 2 .. n : text[i][1] = 0
FirstLen(text) == IF Whole(text) THEN text[1][1] ELSE 1
Least == <<0, T1, T2, T3>>
CodePoint(text) ==
  LET n == text[1][1]
      value == FoldLeft(LAMBDA v, byte : v * K + byte[2], 0, SubSeq(text, 1, n))
  IN IF Whole(text) /\ Least[n] <= value /\ value < T4 THEN value ELSE Replacement

RECURSIVE ToUtf16(_)
ToUtf16(text) ==
  IF text = <<>> THEN <<>>
  ELSE Units(CodePoint(text)) \o ToUtf16(SubSeq(text, FirstLen(text) + 1, Len(text)))

-----------------------------------------------------------------------------
(* append_utf8 *)
Bytes(cp) ==
  LET n == 1 + Cardinality({t \in {T1, T2, T3} : cp >= t})
  IN [i \in 1 .. n |->
        IF i = 1 THEN <<n, cp \div K ^ (n - 1)>> ELSE <<0, (cp \div K ^ (n - i)) % K>>]

RECURSIVE ToUtf8(_)
ToUtf8(units) ==
  IF units = <<>> THEN <<>>
  ELSE LET u == Head(units)
           pair == High(u) /\ Len(units) > 1 /\ Low(units[2])
           cp == IF pair THEN T3 + (u - Surrogate) * Half + units[2] - Surrogate - Half
                 ELSE IF High(u) \/ Low(u) THEN Replacement ELSE u
       IN Bytes(cp) \o ToUtf8(SubSeq(units, IF pair THEN 3 ELSE 2, Len(units)))
=============================================================================
