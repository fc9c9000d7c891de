------------------------------- MODULE Octets -------------------------------
(* Numbers as the octets both protocols cut them into, lowest octet first.  *)
EXTENDS Integers, Sequences

Octet == 0 .. 255

\* Below 2^16, and below 2^32 without the number itself: TLC's integers end at 2^31.
Word16 == {x \in Nat : x \div 256 \in Octet}
Word32 == {x \in Nat : x \div 16777216 \in Octet}

Low(x) == x % 256

Octets16(x) == <<x % 256, (x \div 256) % 256>>

Octets32(x) ==
  <<x % 256, (x \div 256) % 256, (x \div 65536) % 256, (x \div 16777216) % 256>>

Value16(a, b) == a + 256 * b

Value32(a, b, c, d) == a + 256 * b + 65536 * c + 16777216 * d
=============================================================================
