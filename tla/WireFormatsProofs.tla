------------------------- MODULE WireFormatsProofs -------------------------
(***************************************************************************)
(* For every header the encoders take (all 32 bits of a counter, which TLC *)
(* cannot hold), payload, cut and changed byte: what is encoded is what    *)
(* the parsers return, no datagram has two readers, a cut header is        *)
(* refused, and what a parser returns is in range.                         *)
(*                                                                         *)
(* The SMT translation unrolls an interval of numerals: bounds are stated  *)
(* with <=, and Octet, Character and the field lengths stay folded.        *)
(***************************************************************************)
EXTENDS WireFormats, SequenceTheorems, WellFoundedInduction, TLAPS

Character == 1 .. 255

LEMMA OctetIs == \A x : x \in Octet <=> x \in Nat /\ x <= 255
  BY SMT DEF Octet

LEMMA CharacterIs == \A x : x \in Character <=> x \in Nat /\ x # 0 /\ x <= 255
  BY SMT DEF Character

LEMMA Word16Is == \A x : x \in Word16 => x \in Nat /\ x <= 65535
  BY SMT DEF Word16, Octet

-----------------------------------------------------------------------------
\* Splitting off the lowest octet.
LEMMA Halves ==
  ASSUME NEW x \in Nat
  PROVE  /\ x % 256 \in Octet /\ x % 256 \in Nat /\ x % 256 <= 255 /\ x \div 256 \in Nat
         /\ x = 256 * (x \div 256) + (x % 256)
  <1>1. x % 256 \in Nat /\ x % 256 <= 255  BY SMT
  <1>2. x \div 256 \in Nat /\ x = 256 * (x \div 256) + (x % 256)  BY SMT
  <1> QED  BY <1>1, <1>2, OctetIs

\* The two octets of a 16-bit number add up to it.
LEMMA Octets16Add ==
  ASSUME NEW x \in Word16
  PROVE  /\ x % 256 \in Octet /\ (x \div 256) % 256 \in Octet
         /\ Value16(x % 256, (x \div 256) % 256) = x
  <1> DEFINE a == x % 256
             q == x \div 256
  <1>1. x \in Nat /\ x <= 65535  BY Word16Is
  <1>2. a \in Octet /\ a \in Nat /\ a <= 255 /\ q \in Nat /\ x = 256 * q + a  BY <1>1, Halves
  <1> HIDE DEF a, q
  <1>3. q <= 255  BY <1>1, <1>2, SMT
  <1>4. q % 256 = q /\ q \in Octet  BY <1>2, <1>3, OctetIs, SMT
  <1>5. Value16(a, q % 256) = x  BY <1>2, <1>4, SMT DEF Value16
  <1> QED  BY <1>2, <1>4, <1>5 DEF a, q

LEMMA Digits ==
  ASSUME NEW x \in Nat, NEW a \in Nat, NEW b \in Nat, NEW c \in Nat,
         NEW q \in Nat, NEW r \in Nat, NEW t \in Nat, a <= 255, b <= 255, c <= 255,
         x = 256 * q + a, q = 256 * r + b, r = 256 * t + c
  PROVE  /\ x \div 65536 = r /\ x \div 16777216 = t
         /\ a + 256 * b + 65536 * c + 16777216 * t = x
  <1>1. x = 65536 * r + (256 * b + a) /\ 256 * b + a \in Nat /\ 256 * b + a < 65536  BY SMT
  <1>2. /\ x = 16777216 * t + (65536 * c + 256 * b + a)
        /\ 65536 * c + 256 * b + a \in Nat /\ 65536 * c + 256 * b + a < 16777216
    BY SMT
  <1>3. x \div 65536 = r  BY <1>1, SMT
  <1>4. x \div 16777216 = t  BY <1>2, SMT
  <1> QED  BY <1>2, <1>3, <1>4, SMT

\* So do the four of a 32-bit number.
LEMMA Octets32Add ==
  ASSUME NEW x \in Word32
  PROVE  /\ x % 256 \in Octet /\ (x \div 256) % 256 \in Octet
         /\ (x \div 65536) % 256 \in Octet /\ (x \div 16777216) % 256 \in Octet
         /\ Value32(x % 256, (x \div 256) % 256, (x \div 65536) % 256, (x \div 16777216) % 256) = x
  <1>1. x \in Nat /\ x \div 16777216 \in Nat /\ x \div 16777216 <= 255
    BY OctetIs, SMT DEF Word32
  <1> DEFINE a == x % 256
             q == x \div 256
             b == q % 256
             r == q \div 256
             c == r % 256
             t == r \div 256
  <1>2. a \in Octet /\ a \in Nat /\ a <= 255 /\ q \in Nat /\ x = 256 * q + a
    BY <1>1, Halves
  <1> HIDE DEF a, q
  <1>3. b \in Octet /\ b \in Nat /\ b <= 255 /\ r \in Nat /\ q = 256 * r + b
    BY <1>2, Halves
  <1> HIDE DEF b, r
  <1>4. c \in Octet /\ c \in Nat /\ c <= 255 /\ t \in Nat /\ r = 256 * t + c
    BY <1>3, Halves
  <1> HIDE DEF c, t
  <1>5. x \div 65536 = r /\ x \div 16777216 = t /\ a + 256 * b + 65536 * c + 16777216 * t = x
    BY <1>1, <1>2, <1>3, <1>4, Digits, SMT
  <1>6. t \in Nat /\ t <= 255 /\ t % 256 = t  BY <1>1, <1>4, <1>5, SMT
  <1>7. t % 256 \in Octet  BY <1>6, OctetIs, SMT
  <1>8. Value32(a, b, c, t % 256) = x  BY <1>5, <1>6, SMT DEF Value32
  <1>9. a = x % 256 /\ b = (x \div 256) % 256 /\ c = (x \div 65536) % 256
        /\ t % 256 = (x \div 16777216) % 256
    BY <1>5, SMT DEF a, b, c, q
  <1> QED  BY <1>2, <1>3, <1>4, <1>7, <1>8, <1>9, SMT

-----------------------------------------------------------------------------
LEMMA NameFieldType == NameBytes \in Nat \ {0}
  BY DEF NameBytes

LEMMA LeastOf ==
  ASSUME NEW S \in SUBSET Nat, S # {}
  PROVE  \E i \in S : \A j \in S : i <= j
  <1>1. PICK R : R = OpToRel(<, Nat)  OBVIOUS
  <1>2. IsWellFoundedOn(R, Nat)  BY <1>1, NatLessThanWellFounded
  <1>3. PICK i \in S : \A j \in S : ~ (<<j, i>> \in R)  BY <1>2, WFMin
  <1>4. ASSUME NEW j \in S PROVE i <= j
    <2>1. i \in Nat /\ j \in Nat /\ <<j, i>> \in Nat \X Nat  OBVIOUS
    <2>2. ~ (j < i)  BY <1>1, <1>3, <2>1 DEF OpToRel
    <2> QED  BY <2>1, <2>2
  <1> QED  BY <1>4

Fields == [1 .. NameBytes -> Octet]

\* The first n characters of a name field, and no more, are its name.
EndsAt(field, n) ==
  /\ \A i \in 1 .. n : field[i] # 0
  /\ n = NameBytes \/ field[n + 1] = 0

\* The loop over a name field finds the end of the name, in every field.
LEMMA NameEnds ==
  ASSUME NEW field \in Fields
  PROVE  \E n \in 0 .. NameBytes : EndsAt(field, n)
  <1> DEFINE S == {i \in 1 .. NameBytes : field[i] = 0}
  <1>1. NameBytes \in Nat \ {0}  BY NameFieldType
  <1>2. CASE S = {}
    <2>1. EndsAt(field, NameBytes)  BY <1>1, <1>2 DEF EndsAt
    <2> QED  BY <1>1, <2>1
  <1>3. CASE S # {}
    <2>1. S \in SUBSET Nat  BY <1>1
    <2>2. PICK i \in S : \A j \in S : i <= j  BY <1>3, <2>1, LeastOf
    <2>3. i \in 1 .. NameBytes /\ field[i] = 0  BY <1>1
    <2>4. ASSUME NEW j \in 1 .. i - 1 PROVE field[j] # 0
      <3>1. j \in 1 .. NameBytes /\ ~ (i <= j)  BY <1>1, <2>3
      <3>2. j \notin S  BY <2>2, <3>1
      <3> QED  BY <1>1, <3>1, <3>2
    <2>5. i - 1 \in 0 .. NameBytes /\ field[(i - 1) + 1] = 0  BY <1>1, <2>3
    <2>6. EndsAt(field, i - 1)  BY <2>4, <2>5 DEF EndsAt
    <2> QED  BY <1>1, <2>5, <2>6
  <1> QED  BY <1>2, <1>3

LEMMA NameIs ==
  \A name : name \in Names <=> name \in Seq(Character) /\ Len(name) <= NameBytes
  BY Zenon DEF Names, Character

LEMMA NameCharacters ==
  ASSUME NEW name \in Names
  PROVE  /\ name \in Seq(Character) /\ Len(name) \in 0 .. NameBytes
         /\ \A i \in 1 .. Len(name) : name[i] \in Octet /\ name[i] # 0
  <1>1. name \in Seq(Character) /\ Len(name) <= NameBytes  BY NameIs
  <1>2. Len(name) \in Nat /\ \A i \in 1 .. Len(name) : name[i] \in Character
    BY <1>1, LenProperties, ElementOfSeq
  <1>3. Len(name) \in 0 .. NameBytes  BY <1>1, <1>2, NameFieldType
  <1>4. \A i \in 1 .. Len(name) : name[i] \in Octet /\ name[i] # 0
    BY <1>2, CharacterIs, OctetIs
  <1> QED  BY <1>1, <1>3, <1>4

\* Every field reads as a name.
LEMMA CStringType ==
  ASSUME NEW field \in Fields
  PROVE  CString(field) \in Names
  <1> DEFINE n == CHOOSE m \in 0 .. NameBytes : EndsAt(field, m)
  <1>1. n \in 0 .. NameBytes /\ EndsAt(field, n)  BY NameEnds
  <1>2. CString(field) = SubSeq(field, 1, n)  BY DEF CString, EndsAt
  <1> HIDE DEF n
  <1>3. NameBytes \in Nat  BY NameFieldType
  <1>4. ASSUME NEW i \in 1 .. n PROVE field[i] \in Character
    <2>1. i \in 1 .. NameBytes  BY <1>1, <1>3
    <2>2. field[i] \in Octet  BY <2>1 DEF Fields
    <2>3. field[i] # 0  BY <1>1 DEF EndsAt
    <2> QED  BY <2>2, <2>3, OctetIs, CharacterIs
  <1>5. n \in Nat /\ n <= NameBytes  BY <1>1, <1>3
  <1>6. SubSeq(field, 1, n) \in Seq(Character)
        /\ Len(SubSeq(field, 1, n)) = IF 1 <= n THEN n - 1 + 1 ELSE 0
    BY <1>4, <1>5, SubSeqProperties
  <1>7. Len(SubSeq(field, 1, n)) <= NameBytes  BY <1>5, <1>6
  <1> QED  BY <1>2, <1>6, <1>7, NameIs

LEMMA PaddedField ==
  ASSUME NEW name \in Names
  PROVE  /\ Padded(name) \in Fields
         /\ \A i \in 1 .. NameBytes : /\ i <= Len(name) => Padded(name)[i] = name[i]
                                      /\ i > Len(name) => Padded(name)[i] = 0
  <1>1. Padded(name) = [i \in 1 .. NameBytes |-> IF i <= Len(name) THEN name[i] ELSE 0]
    BY DEF Padded
  <1>2. NameBytes \in Nat /\ Len(name) \in Nat  BY NameFieldType, NameCharacters
  <1>3. ASSUME NEW i \in 1 .. NameBytes
        PROVE  (IF i <= Len(name) THEN name[i] ELSE 0) \in Octet
    <2>1. 0 \in Octet  BY OctetIs
    <2>2. i <= Len(name) => i \in 1 .. Len(name)  BY <1>2
    <2> QED  BY <2>1, <2>2, NameCharacters
  <1> QED  BY <1>1, <1>2, <1>3 DEF Fields

\* A padded name reads as itself, also when it fills the field.
LEMMA NameSurvives ==
  ASSUME NEW name \in Names
  PROVE  CString(Padded(name)) = name
  <1> DEFINE field == Padded(name)
             L == Len(name)
             n == CHOOSE m \in 0 .. NameBytes : EndsAt(field, m)
  <1>1. /\ name \in Seq(Character) /\ L \in 0 .. NameBytes /\ NameBytes \in Nat
        /\ \A i \in 1 .. L : name[i] # 0
    BY NameCharacters, NameFieldType
  <1>2. field \in Fields  BY PaddedField
  <1>3. /\ \A i \in 1 .. NameBytes : i <= L => field[i] = name[i]
        /\ \A i \in 1 .. NameBytes : i > L => field[i] = 0
    BY PaddedField
  <1>4. n \in 0 .. NameBytes /\ EndsAt(field, n)  BY <1>2, NameEnds
  <1>5. CString(field) = SubSeq(field, 1, n)  BY DEF CString, EndsAt
  <1> HIDE DEF field, n, L
  <1>6. n = L
    <2>1. ASSUME n < L PROVE FALSE
      <3>1. n + 1 \in 1 .. L /\ n + 1 \in 1 .. NameBytes /\ n # NameBytes /\ n + 1 <= L
        BY <1>1, <1>4, <2>1
      <3>2. field[n + 1] = 0  BY <1>4, <3>1 DEF EndsAt
      <3> QED  BY <1>1, <1>3, <3>1, <3>2
    <2>2. ASSUME L < n PROVE FALSE
      <3>1. L + 1 \in 1 .. n /\ L + 1 \in 1 .. NameBytes /\ L + 1 > L  BY <1>1, <1>4, <2>2
      <3>2. field[L + 1] # 0  BY <1>4, <3>1 DEF EndsAt
      <3> QED  BY <1>3, <3>1, <3>2
    <2> QED  BY <1>1, <1>4, <2>1, <2>2
  <1>7. L \in Nat /\ \A i \in 1 .. L : i \in 1 .. NameBytes /\ i <= L  BY <1>1
  <1>8. \A i \in 1 .. L : field[i] = name[i] /\ name[i] \in Character
    BY <1>1, <1>3, <1>7, ElementOfSeq DEF L
  <1>9. /\ SubSeq(field, 1, L) \in Seq(Character)
        /\ Len(SubSeq(field, 1, L)) = IF 1 <= L THEN L - 1 + 1 ELSE 0
        /\ \A i \in 1 .. L - 1 + 1 : SubSeq(field, 1, L)[i] = field[1 + i - 1]
    BY <1>7, <1>8, SubSeqProperties
  <1>10. Len(SubSeq(field, 1, L)) = L /\ \A i \in 1 .. L : SubSeq(field, 1, L)[i] = name[i]
    BY <1>7, <1>8, <1>9
  <1>11. SubSeq(field, 1, L) = name  BY <1>1, <1>9, <1>10, SeqEqual DEF L
  <1> QED  BY <1>5, <1>6, <1>11 DEF field

-----------------------------------------------------------------------------
\* What the VBAN encoders write: four bytes behind the signature, a name, a counter.
VbanHead(four, name, count) == Signature \o four \o Padded(name) \o Octets32(count)

LEMMA FourOctets ==
  ASSUME NEW a \in Octet, NEW b \in Octet, NEW c \in Octet, NEW d \in Octet
  PROVE  /\ <<a, b, c, d>> \in Seq(Octet) /\ Len(<<a, b, c, d>>) = 4
         /\ <<a, b, c, d>>[1] = a /\ <<a, b, c, d>>[2] = b
         /\ <<a, b, c, d>>[3] = c /\ <<a, b, c, d>>[4] = d
  OBVIOUS

LEMMA SignatureOctets == Signature \in Seq(Octet) /\ Len(Signature) = 4 /\ Signature[1] = 86
  <1>1. 86 \in Octet /\ 66 \in Octet /\ 65 \in Octet /\ 78 \in Octet  BY OctetIs
  <1> QED  BY <1>1, FourOctets DEF Signature

LEMMA Octets32Type ==
  ASSUME NEW x \in Word32
  PROVE  Octets32(x) \in Seq(Octet) /\ Len(Octets32(x)) = 4
  <1>1. /\ x % 256 \in Octet /\ (x \div 256) % 256 \in Octet
        /\ (x \div 65536) % 256 \in Octet /\ (x \div 16777216) % 256 \in Octet
    BY Octets32Add, SMT
  <1> QED  BY <1>1, FourOctets, SMT DEF Octets32

LEMMA Joins ==
  ASSUME NEW s \in Seq(Octet), NEW t \in Seq(Octet)
  PROVE  /\ s \o t \in Seq(Octet) /\ Len(s \o t) = Len(s) + Len(t)
         /\ \A i \in Nat : 1 <= i /\ i <= Len(s) => (s \o t)[i] = s[i]
         /\ \A i \in Nat : 1 <= i /\ i <= Len(t) => (s \o t)[Len(s) + i] = t[i]
  <1>1. /\ s \o t \in Seq(Octet) /\ Len(s \o t) = Len(s) + Len(t)
        /\ \A i \in 1 .. Len(s) + Len(t) : (s \o t)[i] = IF i <= Len(s) THEN s[i] ELSE t[i - Len(s)]
    BY ConcatProperties
  <1>2. Len(s) \in Nat /\ Len(t) \in Nat  BY LenProperties
  <1>3. ASSUME NEW i \in Nat, 1 <= i, i <= Len(s) PROVE (s \o t)[i] = s[i]
    <2>1. i \in 1 .. Len(s) + Len(t)  BY <1>2, <1>3
    <2> QED  BY <1>1, <1>3, <2>1
  <1>4. ASSUME NEW i \in Nat, 1 <= i, i <= Len(t) PROVE (s \o t)[Len(s) + i] = t[i]
    <2>1. /\ Len(s) + i \in 1 .. Len(s) + Len(t) /\ ~ (Len(s) + i <= Len(s))
          /\ Len(s) + i - Len(s) = i
      BY <1>2, <1>4
    <2> QED  BY <1>1, <2>1
  <1> QED  BY <1>1, <1>3, <1>4

\* r is s, of length m, with t, of length n, behind it.
Joint(r, s, t, m, n) ==
  /\ r \in Seq(Octet) /\ Len(r) = m + n
  /\ \A i \in Nat : 1 <= i /\ i <= m => r[i] = s[i]
  /\ \A i \in Nat : 1 <= i /\ i <= n => r[m + i] = t[i]

LEMMA Joined ==
  ASSUME NEW s \in Seq(Octet), NEW t \in Seq(Octet), NEW m \in Nat, NEW n \in Nat,
         Len(s) = m, Len(t) = n
  PROVE  Joint(s \o t, s, t, m, n)
  BY Joins, ZenonT(60) DEF Joint

LEMMA VbanHeadLayout ==
  ASSUME NEW four \in Seq(Octet), Len(four) = 4, NEW name \in Names, NEW count \in Word32
  PROVE  LET head == VbanHead(four, name, count)
         IN  /\ head \in Seq(Octet) /\ Len(head) = HeaderBytes
             /\ \A i \in 1 .. 4 : head[i] = Signature[i]
             /\ \A i \in 1 .. 4 : head[4 + i] = four[i]
             /\ \A i \in 1 .. NameBytes : head[8 + i] = Padded(name)[i]
             /\ \A i \in 1 .. 4 : head[24 + i] = Octets32(count)[i]
  <1> DEFINE s == Signature
             n == Padded(name)
             o == Octets32(count)
             t == s \o four
             u == t \o n
             head == u \o o
  <1>1. s \in Seq(Octet) /\ Len(s) = 4  BY SignatureOctets
  <1>2. n \in Seq(Octet) /\ Len(n) = 16
    <2>1. n \in [1 .. NameBytes -> Octet]  BY PaddedField DEF Fields
    <2>2. n \in Seq(Octet)  BY <2>1, NameFieldType
    <2>3. Len(n) = NameBytes  BY NameFieldType DEF Padded
    <2> QED  BY <2>2, <2>3 DEF NameBytes
  <1>3. o \in Seq(Octet) /\ Len(o) = 4  BY Octets32Type
  <1> HIDE DEF s, n, o
  <1>4. /\ t \in Seq(Octet) /\ Len(t) = 8
        /\ \A i \in Nat : 1 <= i /\ i <= 4 => t[i] = s[i]
        /\ \A i \in Nat : 1 <= i /\ i <= 4 => t[4 + i] = four[i]
    <2>1. 4 \in Nat /\ 4 \in Nat  OBVIOUS
    <2>2. Joint(s \o four, s, four, 4, 4)  BY <1>1, <2>1, Joined
    <2> QED  BY <2>2 DEF Joint
  <1> HIDE DEF t
  <1>5. /\ u \in Seq(Octet) /\ Len(u) = 24
        /\ \A i \in Nat : 1 <= i /\ i <= 8 => u[i] = t[i]
        /\ \A i \in Nat : 1 <= i /\ i <= 16 => u[8 + i] = n[i]
    <2>1. 8 \in Nat /\ 16 \in Nat  OBVIOUS
    <2>2. Joint(t \o n, t, n, 8, 16)  BY <1>2, <1>4, <2>1, Joined
    <2> QED  BY <2>2 DEF Joint
  <1> HIDE DEF u
  <1>6. /\ head \in Seq(Octet) /\ Len(head) = 28
        /\ \A i \in Nat : 1 <= i /\ i <= 24 => head[i] = u[i]
        /\ \A i \in Nat : 1 <= i /\ i <= 4 => head[24 + i] = o[i]
    <2>1. 24 \in Nat /\ 4 \in Nat  OBVIOUS
    <2>2. Joint(u \o o, u, o, 24, 4)  BY <1>3, <1>5, <2>1, Joined
    <2> QED  BY <2>2 DEF Joint
  <1> HIDE DEF head
  <1>7. ASSUME NEW i \in Nat, 1 <= i, i <= 4
        PROVE  head[i] = s[i] /\ head[4 + i] = four[i] /\ head[24 + i] = o[i]
    <2>1. i <= 8 /\ i <= 24 /\ 4 + i \in Nat /\ 1 <= 4 + i /\ 4 + i <= 8 /\ 4 + i <= 24
      BY <1>7
    <2>2. t[i] = s[i] /\ t[4 + i] = four[i]  BY <1>4, <1>7, Zenon
    <2>3. u[i] = t[i] /\ u[4 + i] = t[4 + i]  BY <1>5, <1>7, <2>1
    <2>4. head[i] = u[i] /\ head[4 + i] = u[4 + i]  BY <1>6, <1>7, <2>1
    <2>5. head[24 + i] = o[i]  BY <1>6, <1>7, Zenon
    <2> QED  BY <2>2, <2>3, <2>4, <2>5, Zenon
  <1>8. ASSUME NEW i \in 1 .. NameBytes PROVE head[8 + i] = n[i]
    <2>1. i \in Nat /\ 1 <= i /\ i <= 16  BY NameFieldType DEF NameBytes
    <2>2. 8 + i \in Nat /\ 1 <= 8 + i /\ 8 + i <= 24  BY <2>1
    <2> QED  BY <1>5, <1>6, <2>1, <2>2
  <1>9. head = VbanHead(four, name, count)  BY DEF head, u, t, s, n, o, VbanHead
  <1> QED  BY <1>6, <1>7, <1>8, <1>9 DEF HeaderBytes, s, n, o

\* b is the datagram behind head, or a piece from its front.
Agrees(b, head) == \A i \in 1 .. Len(b) : i <= Len(head) => b[i] = head[i]

\* What the VBAN parsers find behind a head, however much follows it.
LEMMA VbanReadsBack ==
  ASSUME NEW b \in Seq(Octet), HeaderBytes <= Len(b),
         NEW four \in Seq(Octet), Len(four) = 4, NEW name \in Names, NEW count \in Word32,
         Agrees(b, VbanHead(four, name, count))
  PROVE  /\ Signed(b)
         /\ b[5] = four[1] /\ b[6] = four[2] /\ b[7] = four[3] /\ b[8] = four[4]
         /\ CString(NameField(b)) = name
         /\ Counter(b) = count
  <1> DEFINE head == VbanHead(four, name, count)
  <1>1. /\ head \in Seq(Octet) /\ Len(head) = HeaderBytes
        /\ \A i \in 1 .. 4 : head[i] = Signature[i]
        /\ \A i \in 1 .. 4 : head[4 + i] = four[i]
        /\ \A i \in 1 .. NameBytes : head[8 + i] = Padded(name)[i]
        /\ \A i \in 1 .. 4 : head[24 + i] = Octets32(count)[i]
    BY VbanHeadLayout
  <1>2. HeaderBytes = 28 /\ NameBytes = 16  BY DEF HeaderBytes, NameBytes
  <1> HIDE DEF head
  <1>3. ASSUME NEW i \in Nat, 1 <= i, i <= 28 PROVE b[i] = head[i]
    <2>1. Len(b) \in Nat /\ i <= Len(b) /\ i <= Len(head)
      BY <1>1, <1>2, <1>3, LenProperties
    <2>2. i \in 1 .. Len(b)  BY <1>3, <2>1
    <2> QED  BY <2>1, <2>2 DEF Agrees, head
  <1>4. Signed(b)
    <2>1. ASSUME NEW i \in 1 .. 4 PROVE b[i] = Signature[i]
      <3>1. i \in Nat /\ 1 <= i /\ i <= 28  OBVIOUS
      <3> QED  BY <1>1, <1>3, <3>1
    <2> QED  BY <2>1 DEF Signed
  <1>5. b[5] = four[1] /\ b[6] = four[2] /\ b[7] = four[3] /\ b[8] = four[4]
    <2>1. head[4 + 1] = four[1] /\ head[4 + 2] = four[2] /\ head[4 + 3] = four[3]
          /\ head[4 + 4] = four[4]
      BY <1>1
    <2>2. b[4 + 1] = head[4 + 1] /\ b[4 + 2] = head[4 + 2] /\ b[4 + 3] = head[4 + 3]
          /\ b[4 + 4] = head[4 + 4]
      BY <1>3
    <2> QED  BY <2>1, <2>2
  <1>6. NameField(b) = Padded(name)
    <2>1. ASSUME NEW i \in 1 .. NameBytes PROVE b[8 + i] = Padded(name)[i]
      <3>1. 8 + i \in Nat /\ 1 <= 8 + i /\ 8 + i <= 28
        <4>1. i \in Nat /\ i <= NameBytes  BY NameFieldType
        <4> QED  BY <4>1, <1>2
      <3>2. b[8 + i] = head[8 + i]  BY <1>3, <3>1
      <3> QED  BY <1>1, <3>2
    <2>2. Padded(name) \in [1 .. NameBytes -> Octet]  BY PaddedField DEF Fields
    <2>3. NameField(b) = [i \in 1 .. NameBytes |-> b[8 + i]]  BY DEF NameField
    <2> QED  BY <2>1, <2>2, <2>3
  <1>7. Counter(b) = count
    <2>1. b[25] = Octets32(count)[1] /\ b[26] = Octets32(count)[2]
          /\ b[27] = Octets32(count)[3] /\ b[28] = Octets32(count)[4]
      <3>1. head[24 + 1] = Octets32(count)[1] /\ head[24 + 2] = Octets32(count)[2]
            /\ head[24 + 3] = Octets32(count)[3] /\ head[24 + 4] = Octets32(count)[4]
        BY <1>1
      <3>2. b[24 + 1] = head[24 + 1] /\ b[24 + 2] = head[24 + 2]
            /\ b[24 + 3] = head[24 + 3] /\ b[24 + 4] = head[24 + 4]
        BY <1>3
      <3> QED  BY <3>1, <3>2
    <2>2. /\ Octets32(count)[1] = count % 256 /\ Octets32(count)[2] = (count \div 256) % 256
          /\ Octets32(count)[3] = (count \div 65536) % 256
          /\ Octets32(count)[4] = (count \div 16777216) % 256
      BY SMT DEF Octets32
    <2>3. Value32(count % 256, (count \div 256) % 256, (count \div 65536) % 256,
                  (count \div 16777216) % 256) = count
      BY Octets32Add, SMT
    <2> QED  BY <2>1, <2>2, <2>3, SMT DEF Counter
  <1> QED  BY <1>4, <1>5, <1>6, <1>7, NameSurvives

\* The header types, field by field.
LEMMA AudioHeaderFields ==
  ASSUME NEW h \in AudioHeaders
  PROVE  /\ h.sampleRateIndex \in Nat /\ h.sampleRateIndex < 21
         /\ h.numSamples \in Nat /\ 1 <= h.numSamples /\ h.numSamples <= 256
         /\ h.numChannels \in Nat /\ 1 <= h.numChannels /\ h.numChannels <= 256
         /\ h.subCodec \in Octet /\ h.streamName \in Names /\ h.frameCounter \in Word32
  <1>1. /\ h.sampleRateIndex \in 0 .. RateCount - 1 /\ h.numSamples \in 1 .. 256
        /\ h.numChannels \in 1 .. 256
        /\ h.subCodec \in Octet /\ h.streamName \in Names /\ h.frameCounter \in Word32
    BY DEF AudioHeaders
  <1>2. \A n \in 1 .. 256 : n \in Nat /\ 1 <= n /\ n <= 256  BY SMT
  <1>3. h.sampleRateIndex \in Nat /\ h.sampleRateIndex < 21  BY <1>1, SMT DEF RateCount
  <1> QED  BY <1>1, <1>2, <1>3, Zenon

LEMMA ServiceHeaderFields ==
  ASSUME NEW h \in ServiceHeaders
  PROVE  /\ h.serviceFunction \in Nat /\ h.serviceFunction <= 31
         /\ h.serviceFlags \in Octet /\ h.rawByte6 \in Octet /\ h.rawByte7 \in Octet
         /\ h.streamName \in Names /\ h.frameCounter \in Word32
  BY SMT DEF ServiceHeaders

\* The four bytes behind the signature are bytes.
LEMMA AudioFour ==
  ASSUME NEW h \in AudioHeaders
  PROVE  LET four == <<Audio + (h.sampleRateIndex % 32), Low(h.numSamples - 1),
                       Low(h.numChannels - 1), h.subCodec>>
         IN  /\ four \in Seq(Octet) /\ Len(four) = 4
             /\ four[1] = h.sampleRateIndex
             /\ four[2] + 1 = h.numSamples /\ four[3] + 1 = h.numChannels
             /\ four[4] = h.subCodec
  <1> DEFINE r == h.sampleRateIndex
  <1>1. /\ r \in Nat /\ r < 21
        /\ h.numSamples \in Nat /\ 1 <= h.numSamples /\ h.numSamples <= 256
        /\ h.numChannels \in Nat /\ 1 <= h.numChannels /\ h.numChannels <= 256
        /\ h.subCodec \in Octet
    BY AudioHeaderFields
  <1>2. Audio + (r % 32) = r /\ r \in Octet
    <2>1. r % 32 = r  BY <1>1, SMT
    <2> QED  BY <1>1, <2>1, OctetIs, SMT DEF Audio
  <1>3. ASSUME NEW n \in Nat, 1 <= n, n <= 256
        PROVE  Low(n - 1) \in Octet /\ Low(n - 1) + 1 = n
    <2>1. Low(n - 1) = n - 1  BY <1>3, SMT DEF Low
    <2> QED  BY <1>3, <2>1, OctetIs, SMT
  <1>4. /\ Low(h.numSamples - 1) \in Octet /\ Low(h.numSamples - 1) + 1 = h.numSamples
        /\ Low(h.numChannels - 1) \in Octet /\ Low(h.numChannels - 1) + 1 = h.numChannels
    BY <1>1, <1>3
  <1> QED  BY <1>1, <1>2, <1>4, FourOctets

LEMMA ServiceFour ==
  ASSUME NEW h \in ServiceHeaders
  PROVE  LET four == <<Service + (h.serviceFunction % 32), h.serviceFlags, h.rawByte6,
                       h.rawByte7>>
         IN  /\ four \in Seq(Octet) /\ Len(four) = 4
             /\ four[1] % 32 = h.serviceFunction /\ four[1] - (four[1] % 32) = Service
             /\ four[2] = h.serviceFlags /\ four[3] = h.rawByte6 /\ four[4] = h.rawByte7
  <1> DEFINE f == h.serviceFunction
             x == Service + (f % 32)
  <1>1. /\ f \in Nat /\ f <= 31
        /\ h.serviceFlags \in Octet /\ h.rawByte6 \in Octet /\ h.rawByte7 \in Octet
    BY ServiceHeaderFields
  <1>2. x % 32 = f /\ x - (x % 32) = Service /\ x \in Octet
    <2>1. f % 32 = f  BY <1>1, SMT
    <2>2. x = 96 + f  BY <2>1 DEF Service
    <2>3. x \in Nat /\ x <= 255 /\ x % 32 = f  BY <1>1, <2>2, SMT
    <2> HIDE DEF x
    <2>4. x - (x % 32) = 96  BY <1>1, <2>2, <2>3
    <2> QED  BY <2>3, <2>4, OctetIs DEF Service
  <1> HIDE DEF x
  <1> DEFINE four == <<x, h.serviceFlags, h.rawByte6, h.rawByte7>>
  <1>3. /\ four \in Seq(Octet) /\ Len(four) = 4 /\ four[1] = x /\ four[2] = h.serviceFlags
        /\ four[3] = h.rawByte6 /\ four[4] = h.rawByte7
    BY <1>1, <1>2, FourOctets
  <1> HIDE DEF four
  <1>4. four[1] % 32 = f /\ four[1] - (four[1] % 32) = Service  BY <1>2, <1>3
  <1> QED  BY <1>3, <1>4 DEF four, x

LEMMA AudioReadsBack ==
  ASSUME NEW b \in Seq(Octet), HeaderBytes <= Len(b), NEW h \in AudioHeaders,
         Agrees(b, EncodeAudio(h))
  PROVE  AudioResult(b) = "Ok" /\ AudioFields(b) = h
  <1> DEFINE r == h.sampleRateIndex
             four == <<Audio + (r % 32), Low(h.numSamples - 1), Low(h.numChannels - 1),
                       h.subCodec>>
  <1>1. r \in Nat /\ r < 21 /\ h.streamName \in Names /\ h.frameCounter \in Word32
    BY AudioHeaderFields
  <1>2. EncodeAudio(h) = VbanHead(four, h.streamName, h.frameCounter)
    BY DEF EncodeAudio, VbanHead
  <1>3. /\ four \in Seq(Octet) /\ Len(four) = 4
        /\ four[1] = r /\ four[2] + 1 = h.numSamples /\ four[3] + 1 = h.numChannels
        /\ four[4] = h.subCodec
    BY AudioFour
  <1> HIDE DEF four
  <1>4. /\ Signed(b)
        /\ b[5] = four[1] /\ b[6] = four[2] /\ b[7] = four[3] /\ b[8] = four[4]
        /\ CString(NameField(b)) = h.streamName
        /\ Counter(b) = h.frameCounter
    BY <1>1, <1>2, <1>3, VbanReadsBack
  <1>5. r % 32 = r /\ r - (r % 32) = 0
    <2>1. r % 32 = r  BY <1>1, SMT
    <2> QED  BY <1>1, <2>1
  <1>6. AudioResult(b) = "Ok"
    <2>1. ~ (Len(b) < HeaderBytes)
      BY LenProperties DEF HeaderBytes
    <2>2. SubProtocol(b) = Audio  BY <1>3, <1>4, <1>5 DEF SubProtocol, Audio
    <2>3. ~ (b[5] % 32 >= RateCount)  BY <1>1, <1>3, <1>4, <1>5 DEF RateCount
    <2> QED  BY <1>4, <2>1, <2>2, <2>3 DEF AudioResult
  <1>7. h = [sampleRateIndex |-> r, numSamples |-> h.numSamples,
             numChannels |-> h.numChannels, subCodec |-> h.subCodec,
             streamName |-> h.streamName, frameCounter |-> h.frameCounter]
    BY DEF AudioHeaders
  <1>8. AudioFields(b) = h
    BY <1>3, <1>4, <1>5, <1>7, Zenon DEF AudioFields
  <1> QED  BY <1>6, <1>8

LEMMA ServiceReadsBack ==
  ASSUME NEW b \in Seq(Octet), HeaderBytes <= Len(b), NEW h \in ServiceHeaders,
         Agrees(b, EncodeService(h))
  PROVE  ServiceResult(b) = "Ok" /\ ServiceFields(b) = h
  <1> DEFINE four == <<Service + (h.serviceFunction % 32), h.serviceFlags, h.rawByte6,
                       h.rawByte7>>
  <1>1. h.streamName \in Names /\ h.frameCounter \in Word32
    BY ServiceHeaderFields
  <1>2. EncodeService(h) = VbanHead(four, h.streamName, h.frameCounter)
    BY DEF EncodeService, VbanHead
  <1>3. /\ four \in Seq(Octet) /\ Len(four) = 4
        /\ four[1] % 32 = h.serviceFunction /\ four[1] - (four[1] % 32) = Service
        /\ four[2] = h.serviceFlags /\ four[3] = h.rawByte6 /\ four[4] = h.rawByte7
    BY ServiceFour
  <1> HIDE DEF four
  <1>4. /\ Signed(b)
        /\ b[5] = four[1] /\ b[6] = four[2] /\ b[7] = four[3] /\ b[8] = four[4]
        /\ CString(NameField(b)) = h.streamName
        /\ Counter(b) = h.frameCounter
    BY <1>1, <1>2, <1>3, VbanReadsBack
  <1>5. ServiceResult(b) = "Ok"
    <2>1. ~ (Len(b) < HeaderBytes)
      BY LenProperties DEF HeaderBytes
    <2>2. SubProtocol(b) = Service  BY <1>3, <1>4 DEF SubProtocol
    <2> QED  BY <1>4, <2>1, <2>2 DEF ServiceResult
  <1>6. h = [serviceFunction |-> h.serviceFunction, serviceFlags |-> h.serviceFlags,
             rawByte6 |-> h.rawByte6, rawByte7 |-> h.rawByte7,
             streamName |-> h.streamName, frameCounter |-> h.frameCounter]
    BY DEF ServiceHeaders
  <1>7. ServiceFields(b) = h
    BY <1>3, <1>4, <1>6, Zenon DEF ServiceFields
  <1> QED  BY <1>5, <1>7

-----------------------------------------------------------------------------
LEMMA Reversed32Layout ==
  ASSUME NEW x \in Word32
  PROVE  LET r == Reversed32(x)
         IN  /\ r \in Seq(Octet) /\ Len(r) = 4
             /\ r[1] \in Octet /\ r[2] \in Octet /\ r[3] \in Octet /\ r[4] \in Octet
             /\ Value32(r[4], r[3], r[2], r[1]) = x
  <1> DEFINE r == Reversed32(x)
             o == Octets32(x)
  <1>1. o \in Seq(Octet) /\ Len(o) = 4  BY Octets32Type
  <1>2. r = [i \in 1 .. 4 |-> o[5 - i]]  BY DEF Reversed32
  <1>3. o[1] \in Octet /\ o[2] \in Octet /\ o[3] \in Octet /\ o[4] \in Octet
    <2>1. 1 \in 1 .. Len(o) /\ 2 \in 1 .. Len(o) /\ 3 \in 1 .. Len(o) /\ 4 \in 1 .. Len(o)
      BY <1>1
    <2> HIDE DEF o
    <2> QED  BY <1>1, <2>1, ElementOfSeq
  <1>4. Value32(o[1], o[2], o[3], o[4]) = x
    <2>1. /\ o[1] = x % 256 /\ o[2] = (x \div 256) % 256
          /\ o[3] = (x \div 65536) % 256 /\ o[4] = (x \div 16777216) % 256
      BY SMT DEF Octets32
    <2> HIDE DEF o
    <2> QED  BY <2>1, Octets32Add, SMT
  <1> HIDE DEF r, o
  <1>5. r[1] = o[4] /\ r[2] = o[3] /\ r[3] = o[2] /\ r[4] = o[1]
    BY <1>2
  <1>6. r \in Seq(Octet) /\ Len(r) = 4
    <2>1. \A i \in 1 .. 4 : o[5 - i] \in Octet  BY <1>3
    <2>2. PICK n \in Nat : n = 4  OBVIOUS
    <2>3. r = [i \in 1 .. n |-> o[5 - i]] /\ \A i \in 1 .. n : o[5 - i] \in Octet
      BY <1>2, <2>1, <2>2
    <2>4. r \in Seq(Octet) /\ Len(r) = n  BY <2>3
    <2> QED  BY <2>2, <2>4
  <1> QED  BY <1>3, <1>4, <1>5, <1>6 DEF r

LEMMA RtpHeaderFields ==
  ASSUME NEW h \in RtpHeaders
  PROVE  /\ h.marker \in BOOLEAN /\ h.payloadType \in Nat /\ h.payloadType <= 127
         /\ h.sequenceNumber \in Word16 /\ h.timestamp \in Word32 /\ h.ssrc \in Word32
  <1>1. /\ h.marker \in BOOLEAN /\ h.payloadType \in 0 .. 127
        /\ h.sequenceNumber \in Word16 /\ h.timestamp \in Word32 /\ h.ssrc \in Word32
    BY DEF RtpHeaders
  <1>2. \A n \in 0 .. 127 : n \in Nat /\ n <= 127  BY SMT
  <1> QED  BY <1>1, <1>2, Zenon

\* What encodeRtpHeader() writes into its twelve bytes.
LEMMA EncodeRtpLayout ==
  ASSUME NEW h \in RtpHeaders
  PROVE  LET e == EncodeRtp(h)
             t == Reversed32(h.timestamp)
             s == Reversed32(h.ssrc)
         IN  /\ e \in Seq(Octet) /\ Len(e) = 12 /\ e[1] = 128
             /\ e[2] \in Nat /\ (e[2] >= 128) = h.marker /\ e[2] % 128 = h.payloadType
             /\ Value16(e[4], e[3]) = h.sequenceNumber
             /\ e[5] = t[1] /\ e[6] = t[2] /\ e[7] = t[3] /\ e[8] = t[4]
             /\ e[9] = s[1] /\ e[10] = s[2] /\ e[11] = s[3] /\ e[12] = s[4]
  <1> DEFINE m == (IF h.marker THEN 128 ELSE 0) + (h.payloadType % 128)
             hi == Octets16(h.sequenceNumber)[2]
             lo == Octets16(h.sequenceNumber)[1]
             f == <<128, m, hi, lo>>
             t == Reversed32(h.timestamp)
             s == Reversed32(h.ssrc)
             g == f \o t
             e == g \o s
  <1>1. /\ h.marker \in BOOLEAN /\ h.payloadType \in Nat /\ h.payloadType <= 127
        /\ h.sequenceNumber \in Word16 /\ h.timestamp \in Word32 /\ h.ssrc \in Word32
    BY RtpHeaderFields
  <1>2. m \in Octet /\ m \in Nat /\ (m >= 128) = h.marker /\ m % 128 = h.payloadType
    <2>1. h.payloadType % 128 = h.payloadType  BY <1>1, SMT
    <2>2. m = (IF h.marker THEN 128 ELSE 0) + h.payloadType  BY <2>1
    <2> HIDE DEF m
    <2>3. m \in Nat /\ m <= 255  BY <1>1, <2>2, SMT
    <2>4. CASE h.marker
      <3>1. m = 128 + h.payloadType  BY <2>2, <2>4
      <3>2. m >= 128 /\ m % 128 = h.payloadType  BY <1>1, <3>1, SMT
      <3> QED  BY <1>1, <2>3, <2>4, <3>2, OctetIs
    <2>5. CASE ~ h.marker
      <3>1. m = h.payloadType  BY <1>1, <2>2, <2>5
      <3>2. ~ (m >= 128) /\ m % 128 = h.payloadType  BY <1>1, <3>1, SMT
      <3> QED  BY <1>1, <2>3, <2>5, <3>2, OctetIs
    <2> QED  BY <2>4, <2>5
  <1>3. hi \in Octet /\ lo \in Octet /\ Value16(lo, hi) = h.sequenceNumber
    <2>1. lo = h.sequenceNumber % 256 /\ hi = (h.sequenceNumber \div 256) % 256
      BY SMT DEF Octets16
    <2> QED  BY <1>1, <2>1, Octets16Add, SMT
  <1> HIDE DEF m, hi, lo
  <1>4. f \in Seq(Octet) /\ Len(f) = 4 /\ f[1] = 128 /\ f[2] = m /\ f[3] = hi /\ f[4] = lo
    <2>1. 128 \in Octet  BY OctetIs
    <2> QED  BY <1>2, <1>3, <2>1, FourOctets
  <1>5. t \in Seq(Octet) /\ Len(t) = 4 /\ s \in Seq(Octet) /\ Len(s) = 4
    BY <1>1, Reversed32Layout
  <1> HIDE DEF f, t, s
  <1>6. Joint(g, f, t, 4, 4)
    <2>1. 4 \in Nat  OBVIOUS
    <2>2. f \in Seq(Octet) /\ Len(f) = 4  BY <1>4
    <2> QED  BY <1>5, <2>1, <2>2, Joined
  <1> HIDE DEF g
  <1>7. Joint(e, g, s, 8, 4)
    <2>1. 4 \in Nat /\ 8 \in Nat  OBVIOUS
    <2>2. g \in Seq(Octet) /\ Len(g) = 8  BY <1>6 DEF Joint
    <2> QED  BY <1>5, <2>1, <2>2, Joined
  <1> HIDE DEF e
  <1>8. /\ e \in Seq(Octet) /\ Len(e) = 12
        /\ \A i \in Nat : 1 <= i /\ i <= 8 => e[i] = g[i]
        /\ \A i \in Nat : 1 <= i /\ i <= 4 => e[8 + i] = s[i]
        /\ \A i \in Nat : 1 <= i /\ i <= 4 => g[i] = f[i]
        /\ \A i \in Nat : 1 <= i /\ i <= 4 => g[4 + i] = t[i]
    BY <1>6, <1>7 DEF Joint
  <1>9. e[1] = 128 /\ e[2] = m /\ e[3] = hi /\ e[4] = lo
    BY <1>4, <1>8
  <1>10. e[5] = t[1] /\ e[6] = t[2] /\ e[7] = t[3] /\ e[8] = t[4]
    <2>1. g[4 + 1] = t[1] /\ g[4 + 2] = t[2] /\ g[4 + 3] = t[3] /\ g[4 + 4] = t[4]
      BY <1>8
    <2> QED  BY <1>8, <2>1
  <1>11. e[9] = s[1] /\ e[10] = s[2] /\ e[11] = s[3] /\ e[12] = s[4]
    <2>1. e[8 + 1] = s[1] /\ e[8 + 2] = s[2] /\ e[8 + 3] = s[3] /\ e[8 + 4] = s[4]
      BY <1>8
    <2> QED  BY <2>1
  <1>12. e = EncodeRtp(h)  BY DEF e, g, f, t, s, m, hi, lo, EncodeRtp
  <1>13. e[2] \in Nat /\ (e[2] >= 128) = h.marker /\ e[2] % 128 = h.payloadType
         /\ Value16(e[4], e[3]) = h.sequenceNumber
    BY <1>2, <1>3, <1>9
  <1> QED  BY <1>8, <1>9, <1>10, <1>11, <1>12, <1>13 DEF t, s

FirstOctet(csrcs, extended) == 128 + csrcs + (IF extended THEN 16 ELSE 0)

\* The head of an RTP datagram with the fields of h, and with csrcs CSRCs and an
\* extension of so many words where a foreign sender adds them.
RtpHead(head, h, csrcs, extended, words) ==
  /\ head \in Seq(Octet)
  /\ Len(head) = IF extended THEN 12 + 4 * csrcs + 4 + 4 * words ELSE 12 + 4 * csrcs
  /\ head[1] = FirstOctet(csrcs, extended)
  /\ \A i \in Nat : 2 <= i /\ i <= 12 => head[i] = EncodeRtp(h)[i]
  /\ extended => /\ head[12 + 4 * csrcs + 3] = Octets16(words)[2]
                 /\ head[12 + 4 * csrcs + 4] = Octets16(words)[1]

LEMMA OwnHead ==
  ASSUME NEW h \in RtpHeaders
  PROVE  RtpHead(EncodeRtp(h), h, 0, FALSE, 0)
  <1> DEFINE e == EncodeRtp(h)
  <1>1. e \in Seq(Octet) /\ Len(e) = 12 /\ e[1] = 128  BY EncodeRtpLayout
  <1> HIDE DEF e
  <1> QED  BY <1>1 DEF RtpHead, FirstOctet, e

\* The version, the extension bit and the CSRC count come out of the first byte.
LEMMA FirstByte ==
  ASSUME NEW csrcs \in Nat, csrcs <= 15, NEW extended \in BOOLEAN,
         NEW x, x = FirstOctet(csrcs, extended)
  PROVE  /\ x \in Octet /\ x \in Nat /\ x >= 128
         /\ x \div 64 = 2 /\ x % 16 = csrcs /\ ((x \div 16) % 2 = 1) = extended
  <1>1. CASE extended
    <2>1. x = 144 + csrcs  BY <1>1 DEF FirstOctet
    <2>2. x \in Nat /\ x <= 255 /\ x >= 128 /\ x \div 64 = 2 /\ x % 16 = csrcs /\ x \div 16 = 9
      BY <2>1, SMT
    <2>3. (x \div 16) % 2 = 1  BY <2>2, SMT
    <2> QED  BY <1>1, <2>2, <2>3, OctetIs
  <1>2. CASE ~ extended
    <2>1. x = 128 + csrcs  BY <1>2 DEF FirstOctet
    <2>2. x \in Nat /\ x <= 255 /\ x >= 128 /\ x \div 64 = 2 /\ x % 16 = csrcs /\ x \div 16 = 8
      BY <2>1, SMT
    <2>3. (x \div 16) % 2 = 0  BY <2>2, SMT
    <2> QED  BY <1>2, <2>2, <2>3, OctetIs
  <1> QED  BY <1>1, <1>2

LEMMA ZeroesType ==
  ASSUME NEW n \in Nat
  PROVE  Zeroes(n) \in Seq(Octet) /\ Len(Zeroes(n)) = n
  <1>1. 0 \in Octet  BY OctetIs
  <1>2. Zeroes(n) = [i \in 1 .. n |-> 0]  BY DEF Zeroes
  <1> QED  BY <1>1, <1>2

LEMMA TailIs ==
  ASSUME NEW e \in Seq(Octet), NEW n \in Nat \ {0}, Len(e) = n
  PROVE  /\ Tail(e) \in Seq(Octet) /\ Len(Tail(e)) = n - 1
         /\ \A i \in Nat : 1 <= i /\ i <= n - 1 => Tail(e)[i] = e[i + 1]
  <1>1. e # <<>>
    <2>1. Len(<<>>) = 0  OBVIOUS
    <2> QED  BY <2>1
  <1>2. /\ Tail(e) \in Seq(Octet) /\ Len(Tail(e)) = Len(e) - 1
        /\ \A i \in 1 .. Len(Tail(e)) : Tail(e)[i] = e[i + 1]
    BY <1>1, HeadTailProperties
  <1> QED  BY <1>2

LEMMA ForeignHead ==
  ASSUME NEW h \in RtpHeaders, NEW csrcs \in Nat, csrcs <= 15, NEW extended \in BOOLEAN,
         NEW words \in Word16
  PROVE  RtpHead(ForeignHeader(h, csrcs, extended, words), h, csrcs, extended, words)
  <1> DEFINE x == FirstOctet(csrcs, extended)
             hi == Octets16(words)[2]
             lo == Octets16(words)[1]
             c == 4 * csrcs
             w == 4 * words
             e == EncodeRtp(h)
             r == Tail(e)
             a == <<x>>
             y == IF extended THEN <<0, 0, hi, lo>> \o Zeroes(w) ELSE <<>>
             j == a \o r
             k == j \o Zeroes(c)
             head == k \o y
  <1>1. x \in Octet  BY FirstByte
  <1>2. hi \in Octet /\ lo \in Octet
    <2>1. lo = words % 256 /\ hi = (words \div 256) % 256
      BY SMT DEF Octets16
    <2> QED  BY <2>1, Octets16Add, SMT
  <1>3. c \in Nat /\ w \in Nat /\ words \in Nat  BY Word16Is
  <1>4. e \in Seq(Octet) /\ Len(e) = 12  BY EncodeRtpLayout
  <1> HIDE DEF x, hi, lo, c, w, e
  <1>5. a \in Seq(Octet) /\ Len(a) = 1 /\ a[1] = x  BY <1>1
  <1>6. /\ r \in Seq(Octet) /\ Len(r) = 11
        /\ \A i \in Nat : 1 <= i /\ i <= 11 => r[i] = e[i + 1]
    <2>1. PICK n \in Nat \ {0} : n = 12  OBVIOUS
    <2>2. /\ r \in Seq(Octet) /\ Len(r) = n - 1
          /\ \A i \in Nat : 1 <= i /\ i <= n - 1 => r[i] = e[i + 1]
      BY <1>4, <2>1, TailIs
    <2>3. n - 1 = 11  BY <2>1
    <2> HIDE DEF r
    <2> QED  BY <2>2, <2>3
  <1> HIDE DEF a, r
  <1>7. /\ y \in Seq(Octet)
        /\ Len(y) = IF extended THEN 4 + w ELSE 0
        /\ extended => y[3] = hi /\ y[4] = lo
    <2>1. CASE extended
      <3> DEFINE f == <<0, 0, hi, lo>>
      <3>1. f \in Seq(Octet) /\ Len(f) = 4 /\ f[3] = hi /\ f[4] = lo
        <4>1. 0 \in Octet  BY OctetIs
        <4> QED  BY <1>2, <4>1, FourOctets
      <3>2. y = f \o Zeroes(w)  BY <2>1
      <3> HIDE DEF f, y
      <3>3. Joint(y, f, Zeroes(w), 4, w)
        <4>1. 4 \in Nat  OBVIOUS
        <4>2. Zeroes(w) \in Seq(Octet) /\ Len(Zeroes(w)) = w  BY <1>3, ZeroesType
        <4>3. f \in Seq(Octet) /\ Len(f) = 4  BY <3>1
        <4>4. Joint(f \o Zeroes(w), f, Zeroes(w), 4, w)  BY <1>3, <4>1, <4>2, <4>3, Joined
        <4> QED  BY <3>2, <4>4
      <3> QED  BY <2>1, <3>1, <3>3 DEF Joint
    <2>2. CASE ~ extended
      <3>1. y = <<>>  BY <2>2
      <3> HIDE DEF y
      <3> QED  BY <2>2, <3>1
    <2> QED  BY <2>1, <2>2
  <1> HIDE DEF y
  <1>8. Joint(j, a, r, 1, 11)
    <2>1. 1 \in Nat /\ 11 \in Nat  OBVIOUS
    <2>2. r \in Seq(Octet) /\ Len(r) = 11  BY <1>6
    <2> QED  BY <1>5, <2>1, <2>2, Joined
  <1> HIDE DEF j
  <1>9. Joint(k, j, Zeroes(c), 12, c)
    <2>1. 12 \in Nat  OBVIOUS
    <2>2. j \in Seq(Octet) /\ Len(j) = 12  BY <1>8 DEF Joint
    <2>3. Zeroes(c) \in Seq(Octet) /\ Len(Zeroes(c)) = c  BY <1>3, ZeroesType
    <2> QED  BY <1>3, <2>1, <2>2, <2>3, Joined
  <1> HIDE DEF k
  <1>10. Joint(head, k, y, 12 + c, Len(y))
    <2>1. 12 + c \in Nat /\ Len(y) \in Nat  BY <1>3, <1>7, LenProperties
    <2>2. k \in Seq(Octet) /\ Len(k) = 12 + c  BY <1>9 DEF Joint
    <2> QED  BY <1>7, <2>1, <2>2, Joined
  <1> HIDE DEF head
  <1>11. head \in Seq(Octet) /\ Len(head) = IF extended THEN 12 + c + 4 + w ELSE 12 + c
    BY <1>3, <1>7, <1>10 DEF Joint
  <1>12. ASSUME NEW i \in Nat, 1 <= i, i <= 12 PROVE head[i] = j[i]
    <2>1. i <= 12 + c  BY <1>3, <1>12
    <2>2. head[i] = k[i]  BY <1>10, <1>12, <2>1 DEF Joint
    <2>3. k[i] = j[i]  BY <1>9, <1>12 DEF Joint
    <2> QED  BY <2>2, <2>3
  <1>13. head[1] = x
    <2>1. j[1] = a[1]  BY <1>8 DEF Joint
    <2> QED  BY <1>5, <1>12, <2>1
  <1>14. ASSUME NEW i \in Nat, 2 <= i, i <= 12 PROVE head[i] = e[i]
    <2>1. i - 1 \in Nat /\ 1 <= i - 1 /\ i - 1 <= 11 /\ 1 + (i - 1) = i /\ (i - 1) + 1 = i /\ 1 <= i
      BY <1>14
    <2>2. j[1 + (i - 1)] = r[i - 1]  BY <1>8, <2>1 DEF Joint
    <2>3. r[i - 1] = e[(i - 1) + 1]  BY <1>6, <2>1
    <2> QED  BY <1>12, <1>14, <2>1, <2>2, <2>3
  <1>15. ASSUME extended PROVE head[12 + c + 3] = hi /\ head[12 + c + 4] = lo
    <2>1. 3 <= Len(y) /\ 4 <= Len(y)  BY <1>3, <1>7, <1>15
    <2>2. head[(12 + c) + 3] = y[3] /\ head[(12 + c) + 4] = y[4]
      BY <1>10, <2>1 DEF Joint
    <2> QED  BY <1>7, <1>15, <2>2
  <1>16. head = ForeignHeader(h, csrcs, extended, words)
    BY DEF head, k, j, y, a, r, e, c, w, hi, lo, x, FirstOctet, ForeignHeader
  <1>17. RtpHead(head, h, csrcs, extended, words)
    BY <1>11, <1>13, <1>14, <1>15 DEF RtpHead, x, c, w, hi, lo, e
  <1> QED  BY <1>16, <1>17

\* What parseRtpHeader() finds in a datagram, or in what is left of one.
LEMMA RtpReadsBack ==
  ASSUME NEW b \in Seq(Octet), NEW h \in RtpHeaders, NEW csrcs \in Nat, csrcs <= 15,
         NEW extended \in BOOLEAN, NEW words \in Word16,
         NEW head, RtpHead(head, h, csrcs, extended, words), Agrees(b, head)
  PROVE  /\ Len(head) <= Len(b) => /\ RtpResult(b) = "Ok" /\ RtpFields(b) = h
                                   /\ PayloadOffset(b) = Len(head)
         /\ Len(b) < Len(head) => RtpResult(b) # "Ok"
         /\ 12 <= Len(b) => b[1] >= 128 /\ b[1] \in Nat
  <1> DEFINE e == EncodeRtp(h)
             x == head[1]
             c == 4 * csrcs
             w == 4 * words
             hi == Octets16(words)[2]
             lo == Octets16(words)[1]
             n == Len(b)
             m == Len(head)
  <1>1. /\ m = IF extended THEN 12 + c + 4 + w ELSE 12 + c
        /\ x = FirstOctet(csrcs, extended)
        /\ \A i \in Nat : 2 <= i /\ i <= 12 => head[i] = e[i]
        /\ extended => head[12 + c + 3] = hi /\ head[12 + c + 4] = lo
    BY DEF RtpHead
  <1>2. c \in Nat /\ w \in Nat /\ words \in Nat  BY Word16Is
  <1>3. Value16(lo, hi) = words
    <2>1. lo = words % 256 /\ hi = (words \div 256) % 256
      BY SMT DEF Octets16
    <2> QED  BY <2>1, Octets16Add, SMT
  <1>4. /\ x \in Octet /\ x \in Nat /\ x >= 128
        /\ x \div 64 = 2 /\ x % 16 = csrcs /\ ((x \div 16) % 2 = 1) = extended
    <2>1. PICK y : y = x  OBVIOUS
    <2>2. y = FirstOctet(csrcs, extended)  BY <1>1, <2>1
    <2>3. /\ y \in Octet /\ y \in Nat /\ y >= 128
          /\ y \div 64 = 2 /\ y % 16 = csrcs /\ ((y \div 16) % 2 = 1) = extended
      BY <2>2, FirstByte
    <2> QED  BY <2>1, <2>3
  <1>5. n \in Nat  BY LenProperties
  <1>6. ASSUME NEW i \in Nat, 1 <= i, i <= n, i <= m PROVE b[i] = head[i]
    <2>1. i \in 1 .. Len(b)  BY <1>5, <1>6
    <2> QED  BY <1>6, <2>1 DEF Agrees
  <1> HIDE DEF e, x, c, w, hi, lo, n, m
  <1>7. ~ (n < FixedBytes) <=> 12 <= n  BY <1>5 DEF FixedBytes
  <1>8. m \in Nat /\ 12 + c <= m /\ (extended => 12 + c + 4 <= m /\ m = 12 + c + 4 + w)
        /\ (~ extended => m = 12 + c)
    BY <1>1, <1>2
  <1>9. ASSUME 12 <= n
        PROVE  /\ b[1] = x /\ Version(b) = 2 /\ Extended(b) = extended
               /\ CsrcCount(b) = csrcs /\ AfterCsrcs(b) = 12 + c
    <2>1. 1 <= n /\ 1 <= m  BY <1>2, <1>5, <1>8, <1>9
    <2>2. b[1] = x  BY <1>6, <2>1 DEF x
    <2>3. Version(b) = 2 /\ Extended(b) = extended /\ CsrcCount(b) = csrcs
      BY <1>4, <2>2 DEF Version, Extended, CsrcCount
    <2> QED  BY <2>2, <2>3 DEF AfterCsrcs, FixedBytes, c
  <1>10. ASSUME 12 <= n, extended, 12 + c + 4 <= n
         PROVE  PayloadOffset(b) = m
    <2> DEFINE at == 12 + c
    <2>1. b[at + 3] = head[at + 3] /\ b[at + 4] = head[at + 4]
      <3>1. at + 3 \in Nat /\ 1 <= at + 3 /\ at + 3 <= n /\ at + 3 <= m
        BY <1>2, <1>5, <1>8, <1>10
      <3>2. at + 4 \in Nat /\ 1 <= at + 4 /\ at + 4 <= n /\ at + 4 <= m
        BY <1>2, <1>5, <1>8, <1>10
      <3> QED  BY <1>6, <3>1, <3>2
    <2>2. b[at + 3] = hi /\ b[at + 4] = lo  BY <1>1, <1>10, <2>1
    <2>3. AfterCsrcs(b) = at /\ Extended(b)  BY <1>9, <1>10
    <2>4. ExtensionWords(b, at) = words  BY <1>3, <2>2 DEF ExtensionWords
    <2>5. PayloadOffset(b) = at + 4 + 4 * words  BY <2>3, <2>4 DEF PayloadOffset
    <2> QED  BY <1>8, <1>10, <2>5 DEF w
  <1>11. ASSUME 12 <= n, ~ extended PROVE PayloadOffset(b) = m
    BY <1>8, <1>9, <1>11 DEF PayloadOffset
  <1>12. ASSUME m <= n PROVE RtpResult(b) = "Ok" /\ PayloadOffset(b) = m
    <2>1. 12 <= n /\ 12 + c <= n /\ (extended => 12 + c + 4 <= n)
      BY <1>2, <1>5, <1>8, <1>12
    <2>2. PayloadOffset(b) = m  BY <1>10, <1>11, <2>1
    <2>3. /\ ~ (n < FixedBytes) /\ ~ (Version(b) # 2) /\ ~ (n < AfterCsrcs(b))
          /\ ~ (Extended(b) /\ n < AfterCsrcs(b) + 4) /\ ~ (n < PayloadOffset(b))
      BY <1>2, <1>5, <1>7, <1>8, <1>9, <1>12, <2>1, <2>2
    <2> QED  BY <2>2, <2>3 DEF RtpResult, n
  <1>13. ASSUME n < m, RtpResult(b) = "Ok" PROVE FALSE
    <2>1. /\ 12 <= n /\ ~ (n < AfterCsrcs(b))
          /\ ~ (Extended(b) /\ n < AfterCsrcs(b) + 4) /\ ~ (n < PayloadOffset(b))
      BY <1>7, <1>13 DEF RtpResult, n
    <2>2. PayloadOffset(b) = m
      <3>1. extended => 12 + c + 4 <= n  BY <1>2, <1>5, <1>9, <2>1
      <3> QED  BY <1>10, <1>11, <2>1, <3>1
    <2> QED  BY <1>5, <1>8, <1>13, <2>1, <2>2
  <1>14. ASSUME m <= n PROVE RtpFields(b) = h
    <2> DEFINE t == Reversed32(h.timestamp)
               s == Reversed32(h.ssrc)
    <2>1. ASSUME NEW i \in 2 .. 12 PROVE b[i] = e[i]
      <3>1. i \in Nat /\ 2 <= i /\ i <= 12  OBVIOUS
      <3>2. 1 <= i /\ i <= n /\ i <= m  BY <1>2, <1>5, <1>8, <1>14, <3>1
      <3> QED  BY <1>1, <1>6, <3>1, <3>2
    <2>2. /\ b[2] = e[2] /\ b[3] = e[3] /\ b[4] = e[4] /\ b[5] = e[5] /\ b[6] = e[6]
          /\ b[7] = e[7] /\ b[8] = e[8] /\ b[9] = e[9] /\ b[10] = e[10] /\ b[11] = e[11]
          /\ b[12] = e[12]
      BY <2>1
    <2>3. /\ (e[2] >= 128) = h.marker /\ e[2] % 128 = h.payloadType
          /\ Value16(e[4], e[3]) = h.sequenceNumber
          /\ e[5] = t[1] /\ e[6] = t[2] /\ e[7] = t[3] /\ e[8] = t[4]
          /\ e[9] = s[1] /\ e[10] = s[2] /\ e[11] = s[3] /\ e[12] = s[4]
      BY EncodeRtpLayout DEF e
    <2>4. Value32(t[4], t[3], t[2], t[1]) = h.timestamp /\ Value32(s[4], s[3], s[2], s[1]) = h.ssrc
      BY RtpHeaderFields, Reversed32Layout
    <2> HIDE DEF t, s
    <2>5. /\ (b[2] >= 128) = h.marker /\ b[2] % 128 = h.payloadType
          /\ Value16(b[4], b[3]) = h.sequenceNumber
          /\ Value32(b[8], b[7], b[6], b[5]) = h.timestamp
          /\ Value32(b[12], b[11], b[10], b[9]) = h.ssrc
      BY <2>2, <2>3, <2>4
    <2>6. h = [marker |-> h.marker, payloadType |-> h.payloadType,
               sequenceNumber |-> h.sequenceNumber, timestamp |-> h.timestamp, ssrc |-> h.ssrc]
      BY DEF RtpHeaders
    <2> QED  BY <2>5, <2>6, Zenon DEF RtpFields
  <1>15. 12 <= n => b[1] >= 128 /\ b[1] \in Nat  BY <1>4, <1>9
  <1> QED  BY <1>12, <1>13, <1>14, <1>15 DEF n, m

-----------------------------------------------------------------------------
\* The parsers that accept b.
Accepting(b) ==
  {r \in {"audio", "service", "rtp"} :
     \/ r = "audio" /\ AudioResult(b) = "Ok"
     \/ r = "service" /\ ServiceResult(b) = "Ok"
     \/ r = "rtp" /\ RtpResult(b) = "Ok"}

LEMMA ReadersAccept == Readers = Accepting(bytes)
  BY DEF Readers, Accepting

LEMMA SignatureByte == \A b : Signed(b) => b[1] = 86
  BY SignatureOctets DEF Signed

LEMMA VbanIsNotRtp ==
  ASSUME NEW b, b[1] = 86
  PROVE  RtpResult(b) # "Ok"
  <1>1. Version(b) = 86 \div 64  BY DEF Version
  <1>2. 86 \div 64 = 1  BY SMT
  <1> QED  BY <1>1, <1>2 DEF RtpResult

\* The sub-protocol tells the two VBAN kinds apart, the signature tells them from
\* RTP: its first byte holds version 1.
LEMMA OneAccepts ==
  ASSUME NEW b
  PROVE  \A r, s \in Accepting(b) : r = s
  <1>1. AudioResult(b) = "Ok" => Signed(b) /\ SubProtocol(b) = 0  BY DEF AudioResult, Audio
  <1>2. ServiceResult(b) = "Ok" => Signed(b) /\ SubProtocol(b) = 96
    BY DEF ServiceResult, Service
  <1>3. Signed(b) => RtpResult(b) # "Ok"  BY SignatureByte, VbanIsNotRtp
  <1> QED  BY <1>1, <1>2, <1>3 DEF Accepting

\* head is what an encoder writes for the header h of kind k.
HeadOf(k, h, head) ==
  \/ k = "audio" /\ h \in AudioHeaders /\ head = EncodeAudio(h)
  \/ k = "service" /\ h \in ServiceHeaders /\ head = EncodeService(h)
  \/ /\ k = "rtp" /\ h \in RtpHeaders
     /\ \E csrcs \in Nat, extended \in BOOLEAN, words \in Word16 :
          csrcs <= 15 /\ RtpHead(head, h, csrcs, extended, words)

\* b reads as the datagram of kind k with header h and this head, or as nothing
\* where it ends inside the head.
ReadsAs(k, h, head, b) ==
  /\ Len(b) < Len(head) => Accepting(b) = {}
  /\ Len(head) <= Len(b) =>
       /\ Accepting(b) = {k}
       /\ k = "audio" => AudioFields(b) = h
       /\ k = "service" => ServiceFields(b) = h
       /\ k = "rtp" => RtpFields(b) = h /\ PayloadOffset(b) = Len(head)

\* A VBAN head too short for the parsers is not an RTP datagram.
LEMMA CutVbanRefused ==
  ASSUME NEW b \in Seq(Octet), Len(b) < HeaderBytes,
         NEW four \in Seq(Octet), Len(four) = 4, NEW name \in Names, NEW count \in Word32,
         Agrees(b, VbanHead(four, name, count))
  PROVE  Accepting(b) = {}
  <1> DEFINE head == VbanHead(four, name, count)
  <1>1. Len(head) = 28 /\ head[1] = Signature[1]
    BY VbanHeadLayout DEF HeaderBytes
  <1>2. AudioResult(b) # "Ok" /\ ServiceResult(b) # "Ok"  BY DEF AudioResult, ServiceResult
  <1> HIDE DEF head
  <1>3. ASSUME 12 <= Len(b) PROVE b[1] = 86
    <2>1. Len(b) \in Nat /\ 1 \in 1 .. Len(b) /\ 1 <= Len(head)  BY <1>1, <1>3, LenProperties
    <2> QED  BY <1>1, <2>1, SignatureOctets DEF Agrees, head
  <1>4. RtpResult(b) = "Ok" => 12 <= Len(b)  BY LenProperties DEF RtpResult, FixedBytes
  <1> QED  BY <1>2, <1>3, <1>4, VbanIsNotRtp DEF Accepting

LEMMA HeadReadsAs ==
  ASSUME NEW k, NEW h, NEW head \in Seq(Octet), HeadOf(k, h, head), NEW b \in Seq(Octet),
         Agrees(b, head)
  PROVE  ReadsAs(k, h, head, b)
  <1>1. Len(b) \in Nat /\ Len(head) \in Nat /\ HeaderBytes \in Nat
    BY LenProperties DEF HeaderBytes
  <1>2. CASE k = "audio" /\ h \in AudioHeaders /\ head = EncodeAudio(h)
    <2> DEFINE four == <<Audio + (h.sampleRateIndex % 32), Low(h.numSamples - 1),
                         Low(h.numChannels - 1), h.subCodec>>
    <2>1. four \in Seq(Octet) /\ Len(four) = 4  BY <1>2, AudioFour
    <2>2. head = VbanHead(four, h.streamName, h.frameCounter)
      BY <1>2 DEF EncodeAudio, VbanHead
    <2> HIDE DEF four
    <2>3. h.streamName \in Names /\ h.frameCounter \in Word32  BY <1>2, AudioHeaderFields
    <2>4. Len(head) = HeaderBytes  BY <2>1, <2>2, <2>3, VbanHeadLayout
    <2>5. Len(b) < Len(head) => Accepting(b) = {}
      BY <2>1, <2>2, <2>3, <2>4, CutVbanRefused
    <2>6. Len(head) <= Len(b) => AudioResult(b) = "Ok" /\ AudioFields(b) = h
      BY <1>2, <2>4, AudioReadsBack
    <2>7. AudioResult(b) = "Ok" => Accepting(b) = {"audio"}
      BY OneAccepts DEF Accepting
    <2> QED  BY <1>2, <2>5, <2>6, <2>7 DEF ReadsAs
  <1>3. CASE k = "service" /\ h \in ServiceHeaders /\ head = EncodeService(h)
    <2> DEFINE four == <<Service + (h.serviceFunction % 32), h.serviceFlags, h.rawByte6,
                         h.rawByte7>>
    <2>1. four \in Seq(Octet) /\ Len(four) = 4  BY <1>3, ServiceFour
    <2>2. head = VbanHead(four, h.streamName, h.frameCounter)
      BY <1>3 DEF EncodeService, VbanHead
    <2> HIDE DEF four
    <2>3. h.streamName \in Names /\ h.frameCounter \in Word32  BY <1>3, ServiceHeaderFields
    <2>4. Len(head) = HeaderBytes  BY <2>1, <2>2, <2>3, VbanHeadLayout
    <2>5. Len(b) < Len(head) => Accepting(b) = {}
      BY <2>1, <2>2, <2>3, <2>4, CutVbanRefused
    <2>6. Len(head) <= Len(b) => ServiceResult(b) = "Ok" /\ ServiceFields(b) = h
      BY <1>3, <2>4, ServiceReadsBack
    <2>7. ServiceResult(b) = "Ok" => Accepting(b) = {"service"}
      BY OneAccepts DEF Accepting
    <2> QED  BY <1>3, <2>5, <2>6, <2>7 DEF ReadsAs
  <1>4. ASSUME k = "rtp", h \in RtpHeaders, NEW csrcs \in Nat, NEW extended \in BOOLEAN,
               NEW words \in Word16, csrcs <= 15, RtpHead(head, h, csrcs, extended, words)
        PROVE  ReadsAs(k, h, head, b)
    <2>1. /\ Len(head) <= Len(b) => /\ RtpResult(b) = "Ok" /\ RtpFields(b) = h
                                    /\ PayloadOffset(b) = Len(head)
          /\ Len(b) < Len(head) => RtpResult(b) # "Ok"
          /\ 12 <= Len(b) => b[1] >= 128 /\ b[1] \in Nat
      BY <1>4, RtpReadsBack
    <2>2. Len(b) < 28 \/ b[1] # 86  BY <1>1, <2>1
    <2>3. AudioResult(b) # "Ok" /\ ServiceResult(b) # "Ok"
      BY <2>2, SignatureByte DEF AudioResult, ServiceResult, HeaderBytes
    <2>4. RtpResult(b) = "Ok" => Accepting(b) = {"rtp"}  BY OneAccepts DEF Accepting
    <2>5. RtpResult(b) # "Ok" => Accepting(b) = {}  BY <2>3 DEF Accepting
    <2> QED  BY <1>4, <2>1, <2>4, <2>5 DEF ReadsAs
  <1> QED  BY <1>2, <1>3, <1>4 DEF HeadOf

-----------------------------------------------------------------------------
LEMMA HeadType ==
  /\ \A h \in AudioHeaders : EncodeAudio(h) \in Seq(Octet)
  /\ \A h \in ServiceHeaders : EncodeService(h) \in Seq(Octet)
  <1>1. ASSUME NEW h \in AudioHeaders PROVE EncodeAudio(h) \in Seq(Octet)
    <2> DEFINE four == <<Audio + (h.sampleRateIndex % 32), Low(h.numSamples - 1),
                         Low(h.numChannels - 1), h.subCodec>>
    <2>1. four \in Seq(Octet) /\ Len(four) = 4  BY AudioFour
    <2>2. EncodeAudio(h) = VbanHead(four, h.streamName, h.frameCounter)
      BY DEF EncodeAudio, VbanHead
    <2> HIDE DEF four
    <2> QED  BY <2>1, <2>2, AudioHeaderFields, VbanHeadLayout
  <1>2. ASSUME NEW h \in ServiceHeaders PROVE EncodeService(h) \in Seq(Octet)
    <2> DEFINE four == <<Service + (h.serviceFunction % 32), h.serviceFlags, h.rawByte6,
                         h.rawByte7>>
    <2>1. four \in Seq(Octet) /\ Len(four) = 4  BY ServiceFour
    <2>2. EncodeService(h) = VbanHead(four, h.streamName, h.frameCounter)
      BY DEF EncodeService, VbanHead
    <2> HIDE DEF four
    <2> QED  BY <2>1, <2>2, ServiceHeaderFields, VbanHeadLayout
  <1> QED  BY <1>1, <1>2

\* b is the first n bytes of the payload p behind this head.
Front(b, head, p, n) ==
  /\ b \in Seq(Octet) /\ Len(b) = n
  /\ \A i \in 1 .. n : b[i] = (head \o p)[i]

LEMMA FrontAgrees ==
  ASSUME NEW head \in Seq(Octet), NEW p \in Seq(Octet), NEW n \in Nat, NEW b,
         Front(b, head, p, n)
  PROVE  Agrees(b, head)
  <1>1. ASSUME NEW i \in 1 .. Len(b), i <= Len(head) PROVE b[i] = head[i]
    <2>1. Len(b) = n /\ \A j \in 1 .. n : b[j] = (head \o p)[j]  BY DEF Front
    <2>2. i \in 1 .. n  BY <1>1, <2>1
    <2>3. i \in Nat /\ 1 <= i  BY <2>2, SMT
    <2>4. b[i] = (head \o p)[i]  BY <2>1, <2>2, Zenon
    <2>5. (head \o p)[i] = head[i]  BY <1>1, <2>3, Joins
    <2> QED  BY <2>4, <2>5
  <1> QED  BY <1>1 DEF Agrees

\* What lies behind the head is what is left of the payload.
LEMMA PayloadLeft ==
  ASSUME NEW head \in Seq(Octet), NEW p \in Seq(Octet), NEW n \in Nat, NEW b,
         Len(head) <= n, n <= Len(head) + Len(p), Front(b, head, p, n)
  PROVE  SubSeq(b, Len(head) + 1, n) = SubSeq(p, 1, n - Len(head))
  <1> DEFINE m == Len(head)
             s == SubSeq(b, m + 1, n)
             t == SubSeq(p, 1, n - m)
  <1>1. m \in Nat /\ Len(p) \in Nat /\ n - m \in Nat  BY LenProperties
  <1>2. b \in Seq(Octet) /\ Len(b) = n /\ \A i \in 1 .. n : b[i] = (head \o p)[i]
    BY DEF Front
  <1>3. \A i \in 1 .. n : b[i] \in Octet  BY <1>2, ElementOfSeq
  <1>4. \A i \in 1 .. Len(p) : p[i] \in Octet  BY ElementOfSeq
  <1> HIDE DEF m
  <1>5. m <= n /\ n <= m + Len(p)  BY DEF m
  <1>6. /\ s \in Seq(Octet) /\ Len(s) = IF m + 1 <= n THEN n - (m + 1) + 1 ELSE 0
        /\ \A i \in 1 .. n - (m + 1) + 1 : s[i] = b[m + 1 + i - 1]
    <2>1. \A i \in m + 1 .. n : b[i] \in Octet  BY <1>1, <1>3
    <2>2. m + 1 \in Int /\ n \in Int  BY <1>1
    <2> QED  BY <2>1, <2>2, SubSeqProperties
  <1>7. /\ t \in Seq(Octet) /\ Len(t) = IF 1 <= n - m THEN n - m - 1 + 1 ELSE 0
        /\ \A i \in 1 .. n - m - 1 + 1 : t[i] = p[1 + i - 1]
    <2>1. \A i \in 1 .. n - m : p[i] \in Octet  BY <1>1, <1>4, <1>5
    <2>2. 1 \in Int /\ n - m \in Int  BY <1>1
    <2> QED  BY <2>1, <2>2, SubSeqProperties
  <1> HIDE DEF s, t
  <1>8. Len(s) = n - m /\ Len(t) = n - m  BY <1>1, <1>5, <1>6, <1>7
  <1>9. ASSUME NEW i \in 1 .. n - m PROVE s[i] = t[i]
    <2>1. i \in Nat /\ 1 <= i /\ i <= Len(p) /\ m + i \in 1 .. n  BY <1>1, <1>5
    <2>2. s[i] = b[m + i]
      <3>1. i \in 1 .. n - (m + 1) + 1 /\ m + 1 + i - 1 = m + i  BY <1>1
      <3> QED  BY <1>6, <3>1
    <2>3. t[i] = p[i]
      <3>1. i \in 1 .. n - m - 1 + 1 /\ 1 + i - 1 = i  BY <1>1
      <3> QED  BY <1>7, <3>1
    <2>4. (head \o p)[m + i] = p[i]  BY <2>1, Joins DEF m
    <2> QED  BY <1>2, <2>1, <2>2, <2>3, <2>4
  <1> QED  BY <1>6, <1>7, <1>8, <1>9, SeqEqual DEF s, t, m

-----------------------------------------------------------------------------
\* What the datagram is while it is undamaged.
SentAs(head) ==
  /\ HeadOf(kind, header, head) /\ payload \in Seq(Octet)
  /\ behind = Len(head) /\ bytes = head \o payload

\* The inductive invariant: the bytes of an undamaged datagram are those of a head
\* the encoders write and the payload.
DatagramInv ==
  /\ bytes \in Seq(Octet)
  /\ damage \in {"none", "cut", "changed"}
  /\ kind = "none" => bytes = <<>> /\ damage = "none"
  /\ kind # "none" /\ damage = "none" => \E head \in Seq(Octet) : SentAs(head)

\* A datagram of which nothing, or the end, is missing reads as what it was.
LEMMA SentReadsAs ==
  ASSUME NEW head \in Seq(Octet), SentAs(head), NEW n \in Nat, n <= Len(bytes), NEW b,
         Front(b, head, payload, n)
  PROVE  /\ ReadsAs(kind, header, head, b)
         /\ kind = "rtp" /\ behind <= n => RtpPayload(b) = SubSeq(payload, 1, n - behind)
  <1>1. b \in Seq(Octet) /\ Len(b) = n  BY DEF Front
  <1>2. Agrees(b, head)  BY FrontAgrees DEF SentAs
  <1>3. ReadsAs(kind, header, head, b)  BY <1>1, <1>2, HeadReadsAs DEF SentAs
  <1>4. ASSUME kind = "rtp", behind <= n
        PROVE  RtpPayload(b) = SubSeq(payload, 1, n - behind)
    <2>1. payload \in Seq(Octet) /\ behind = Len(head) /\ bytes = head \o payload
      BY DEF SentAs
    <2>2. n <= Len(head) + Len(payload)  BY <2>1, Joins
    <2>3. PayloadOffset(b) = Len(head)  BY <1>1, <1>3, <1>4, <2>1 DEF ReadsAs
    <2>4. SubSeq(b, Len(head) + 1, n) = SubSeq(payload, 1, n - Len(head))
      BY <1>4, <2>1, <2>2, PayloadLeft
    <2> QED  BY <1>1, <2>1, <2>3, <2>4 DEF RtpPayload
  <1> QED  BY <1>3, <1>4

LEMMA SendKeepsInv ==
  ASSUME DatagramInv, NEW k, k # "none", NEW h, NEW head \in Seq(Octet), HeadOf(k, h, head),
         NEW p \in Payloads, Send(k, h, head, p)
  PROVE  DatagramInv' /\ damage' # "cut"
  <1>1. kind = "none" /\ damage = "none"  BY DEF Send, DatagramInv
  <1>2. /\ kind' = k /\ header' = h /\ payload' = p /\ behind' = Len(head)
        /\ bytes' = head \o p /\ damage' = "none"
    BY <1>1 DEF Send
  <1>3. p \in Seq(Octet)  BY DatagramAssumption
  <1>4. bytes' \in Seq(Octet)  BY <1>2, <1>3, Joins
  <1>5. SentAs(head)'  BY <1>2, <1>3 DEF SentAs
  <1> QED  BY <1>2, <1>4, <1>5 DEF DatagramInv

LEMMA OwnSendKeepsInv ==
  ASSUME DatagramInv, NEW h \in RtpSent, NEW p \in Payloads, SendRtp(h, p)
  PROVE  DatagramInv' /\ damage' # "cut"
  <1>1. h \in RtpHeaders  BY HeaderAssumption
  <1>2. RtpHead(EncodeRtp(h), h, 0, FALSE, 0)  BY <1>1, OwnHead
  <1>3. EncodeRtp(h) \in Seq(Octet)  BY <1>2 DEF RtpHead
  <1>4. 0 \in Nat /\ 0 <= 15 /\ 0 \in Word16  BY SMT DEF Word16, Octet
  <1>5. HeadOf("rtp", h, EncodeRtp(h))  BY <1>1, <1>2, <1>4 DEF HeadOf
  <1> QED  BY <1>3, <1>5, SendKeepsInv DEF SendRtp

LEMMA ForeignSendKeepsInv ==
  ASSUME DatagramInv, NEW h \in RtpSent, NEW p \in Payloads, NEW csrcs \in CsrcCounts,
         NEW extended \in BOOLEAN, NEW words \in Extensions,
         SendForeignRtp(h, csrcs, extended, words, p)
  PROVE  DatagramInv' /\ damage' # "cut"
  <1> DEFINE head == ForeignHeader(h, csrcs, extended, words)
  <1>1. h \in RtpHeaders  BY HeaderAssumption
  <1>2. csrcs \in Nat /\ csrcs <= 15 /\ words \in Word16
    <2>1. csrcs \in 0 .. 15 /\ words \in Word16  BY DatagramAssumption
    <2> QED  BY <2>1, SMT
  <1>3. RtpHead(head, h, csrcs, extended, words)  BY <1>1, <1>2, ForeignHead
  <1> HIDE DEF head
  <1>4. head \in Seq(Octet)  BY <1>3 DEF RtpHead
  <1>5. HeadOf("rtp", h, head)  BY <1>1, <1>2, <1>3 DEF HeadOf
  <1> QED  BY <1>4, <1>5, SendKeepsInv DEF SendForeignRtp, head

LEMMA VbanSendsKeepInv ==
  ASSUME DatagramInv, NEW p \in Payloads,
         \/ \E h \in AudioSent : SendAudio(h, p)
         \/ \E h \in ServiceSent : SendService(h, p)
  PROVE  DatagramInv' /\ damage' # "cut"
  <1>1. ASSUME NEW h \in AudioSent, SendAudio(h, p) PROVE DatagramInv' /\ damage' # "cut"
    <2>1. h \in AudioHeaders  BY HeaderAssumption
    <2>2. HeadOf("audio", h, EncodeAudio(h))  BY <2>1 DEF HeadOf
    <2>3. EncodeAudio(h) \in Seq(Octet)  BY <2>1, HeadType
    <2> QED  BY <1>1, <2>2, <2>3, SendKeepsInv DEF SendAudio
  <1>2. ASSUME NEW h \in ServiceSent, SendService(h, p) PROVE DatagramInv' /\ damage' # "cut"
    <2>1. h \in ServiceHeaders  BY HeaderAssumption
    <2>2. HeadOf("service", h, EncodeService(h))  BY <2>1 DEF HeadOf
    <2>3. EncodeService(h) \in Seq(Octet)  BY <2>1, HeadType
    <2> QED  BY <1>2, <2>2, <2>3, SendKeepsInv DEF SendService
  <1> QED  BY <1>1, <1>2

LEMMA CutIsFront ==
  ASSUME NEW s \in Seq(Octet), NEW n \in Nat, n < Len(s)
  PROVE  /\ SubSeq(s, 1, n) \in Seq(Octet) /\ Len(SubSeq(s, 1, n)) = n
         /\ \A i \in 1 .. n : SubSeq(s, 1, n)[i] = s[i]
  <1>1. Len(s) \in Nat  BY LenProperties
  <1>2. \A i \in 1 .. n : i \in 1 .. Len(s)  BY <1>1
  <1>3. \A i \in 1 .. n : s[i] \in Octet  BY <1>2, ElementOfSeq
  <1>4. /\ SubSeq(s, 1, n) \in Seq(Octet)
        /\ Len(SubSeq(s, 1, n)) = IF 1 <= n THEN n - 1 + 1 ELSE 0
        /\ \A i \in 1 .. n - 1 + 1 : SubSeq(s, 1, n)[i] = s[1 + i - 1]
    BY <1>3, SubSeqProperties
  <1> QED  BY <1>4

LEMMA CutKeepsInv ==
  ASSUME DatagramInv, NEW n \in Cuts, Cut(n)
  PROVE  DatagramInv' /\ CutHeaderRefused'
  <1> DEFINE b == SubSeq(bytes, 1, n)
  <1>1. /\ damage = "none" /\ n < Len(bytes) /\ bytes' = b /\ damage' = "cut"
        /\ kind' = kind /\ header' = header /\ payload' = payload /\ behind' = behind
    BY DEF Cut
  <1>2. n \in Nat /\ bytes \in Seq(Octet)  BY DatagramAssumption DEF DatagramInv
  <1>3. kind # "none"
    <2>1. ASSUME bytes = <<>> PROVE FALSE
      <3>1. Len(bytes) = 0  BY <2>1
      <3> QED  BY <1>1, <1>2, <3>1
    <2> QED  BY <2>1 DEF DatagramInv
  <1>4. PICK head \in Seq(Octet) : SentAs(head)  BY <1>1, <1>3 DEF DatagramInv
  <1>5. b \in Seq(Octet) /\ Len(b) = n /\ \A i \in 1 .. n : b[i] = bytes[i]
    BY <1>1, <1>2, CutIsFront
  <1> HIDE DEF b
  <1>6. Front(b, head, payload, n)  BY <1>4, <1>5 DEF Front, SentAs
  <1>7. n <= Len(bytes)  BY <1>1, <1>2, LenProperties
  <1>8. /\ ReadsAs(kind, header, head, b)
        /\ kind = "rtp" /\ behind <= n => RtpPayload(b) = SubSeq(payload, 1, n - behind)
    BY <1>2, <1>4, <1>6, <1>7, SentReadsAs
  <1>9. DatagramInv'  BY <1>1, <1>3, <1>5 DEF DatagramInv
  <1>10. Readers' = Accepting(b)  BY <1>1 DEF Readers, Accepting
  <1>11. behind = Len(head) /\ behind \in Nat  BY <1>4, LenProperties DEF SentAs
  <1>12. CASE n < behind
    <2>1. Accepting(b) = {}  BY <1>5, <1>8, <1>11, <1>12 DEF ReadsAs
    <2>2. Len(bytes') < behind'  BY <1>1, <1>5, <1>12
    <2> QED  BY <1>9, <1>10, <2>1, <2>2 DEF CutHeaderRefused
  <1>13. CASE behind <= n
    <2>1. Accepting(b) = {kind}  BY <1>5, <1>8, <1>11, <1>13 DEF ReadsAs
    <2>2. Accepting(b) = {kind} \ {"none"}  BY <1>3, <2>1
    <2>3. ~ (Len(bytes') < behind') /\ Len(bytes') - behind' = n - behind
      BY <1>1, <1>2, <1>5, <1>11, <1>13
    <2>4. kind' = "rtp" => RtpPayload(bytes') = SubSeq(payload', 1, Len(bytes') - behind')
      BY <1>1, <1>8, <1>13, <2>3
    <2>5. Readers' = {kind'} \ {"none"}  BY <1>1, <1>10, <2>2
    <2> QED  BY <1>9, <2>3, <2>4, <2>5 DEF CutHeaderRefused
  <1> QED  BY <1>2, <1>11, <1>12, <1>13

LEMMA ChangeKeepsInv ==
  ASSUME DatagramInv, NEW c \in Changes, Change(c)
  PROVE  DatagramInv' /\ damage' # "cut"
  <1>1. /\ damage = "none" /\ c.at \in 1 .. Len(bytes)
        /\ bytes' = [bytes EXCEPT ![c.at] = c.to] /\ damage' = "changed" /\ kind' = kind
    BY DEF Change
  <1>2. bytes \in Seq(Octet) /\ c.to \in Octet  BY DatagramAssumption DEF DatagramInv
  <1>3. bytes' \in Seq(Octet)  BY <1>1, <1>2, ExceptSeq
  <1>4. kind # "none"
    <2>1. ASSUME bytes = <<>> PROVE FALSE
      <3>1. Len(bytes) = 0  BY <2>1
      <3> QED  BY <1>1, <3>1
    <2> QED  BY <2>1 DEF DatagramInv
  <1> QED  BY <1>1, <1>3, <1>4 DEF DatagramInv

LEMMA StepKeepsInv ==
  ASSUME DatagramInv, CutHeaderRefused, [Next]_vars
  PROVE  DatagramInv' /\ CutHeaderRefused'
  <1>1. damage' # "cut" => CutHeaderRefused'  BY DEF CutHeaderRefused
  <1>2. ASSUME NEW h \in AudioSent, NEW p \in Payloads, SendAudio(h, p)
        PROVE  DatagramInv' /\ damage' # "cut"
    BY <1>2, VbanSendsKeepInv
  <1>3. ASSUME NEW h \in ServiceSent, NEW p \in Payloads, SendService(h, p)
        PROVE  DatagramInv' /\ damage' # "cut"
    BY <1>3, VbanSendsKeepInv
  <1>4. ASSUME NEW h \in RtpSent, NEW p \in Payloads, SendRtp(h, p)
        PROVE  DatagramInv' /\ damage' # "cut"
    BY <1>4, OwnSendKeepsInv
  <1>5. ASSUME NEW h \in RtpSent, NEW csrcs \in CsrcCounts, NEW extended \in BOOLEAN,
               NEW words \in Extensions, NEW p \in Payloads,
               SendForeignRtp(h, csrcs, extended, words, p)
        PROVE  DatagramInv' /\ damage' # "cut"
    BY <1>5, ForeignSendKeepsInv
  <1>6. ASSUME NEW n \in Cuts, Cut(n) PROVE DatagramInv' /\ CutHeaderRefused'
    BY <1>6, CutKeepsInv
  <1>7. ASSUME NEW c \in Changes, Change(c) PROVE DatagramInv' /\ damage' # "cut"
    BY <1>7, ChangeKeepsInv
  <1>8. CASE UNCHANGED vars
    <2>1. DatagramInv'  BY <1>8 DEF vars, DatagramInv, SentAs
    <2>2. CutHeaderRefused'
      BY <1>8 DEF vars, CutHeaderRefused, Readers
    <2> QED  BY <2>1, <2>2
  <1> QED  BY <1>1, <1>2, <1>3, <1>4, <1>5, <1>6, <1>7, <1>8 DEF Next

LEMMA DatagramInvHolds == Spec => [](DatagramInv /\ CutHeaderRefused)
  <1>1. Init => DatagramInv /\ CutHeaderRefused
    <2> SUFFICES ASSUME Init PROVE DatagramInv /\ CutHeaderRefused
      OBVIOUS
    <2>1. kind = "none" /\ bytes = <<>> /\ damage = "none"  BY DEF Init
    <2>2. bytes \in Seq(Octet)  BY <2>1
    <2> QED  BY <2>1, <2>2 DEF DatagramInv, CutHeaderRefused
  <1> QED  BY <1>1, StepKeepsInv, PTL DEF Spec

\* What the parsers return for bytes of any origin.
LEMMA RangesOfParsed ==
  ASSUME bytes \in Seq(Octet)
  PROVE  FieldsInRange
  <1>1. \A i \in Nat : 1 <= i /\ i <= Len(bytes) => bytes[i] \in Octet
    <2>1. \A i \in Nat : 1 <= i /\ i <= Len(bytes) => i \in 1 .. Len(bytes)
      BY LenProperties
    <2> QED  BY <2>1, ElementOfSeq
  <1>2. Len(bytes) \in Nat  BY LenProperties
  <1>3. ASSUME HeaderBytes <= Len(bytes)
        PROVE  CString(NameField(bytes)) \in Names
    <2>1. ASSUME NEW i \in 1 .. NameBytes PROVE bytes[8 + i] \in Octet
      <3>1. i \in Nat /\ 1 <= i /\ i <= 16  BY NameFieldType DEF NameBytes
      <3>2. 8 + i \in Nat /\ 1 <= 8 + i /\ 8 + i <= Len(bytes)
        BY <1>2, <1>3, <3>1 DEF HeaderBytes
      <3> QED  BY <1>1, <3>2
    <2>2. NameField(bytes) \in Fields  BY <2>1 DEF NameField, Fields
    <2> QED  BY <2>2, CStringType
  <1>4. ASSUME AudioResult(bytes) = "Ok"
        PROVE  LET h == AudioFields(bytes)
               IN  /\ h.sampleRateIndex < RateCount
                   /\ h.numSamples \in 1 .. 256 /\ h.numChannels \in 1 .. 256
                   /\ h.streamName \in Names
    <2>1. HeaderBytes <= Len(bytes) /\ ~ (bytes[5] % 32 >= RateCount)
      BY <1>2, <1>4 DEF AudioResult, HeaderBytes
    <2>2. bytes[5] \in Octet /\ bytes[6] \in Octet /\ bytes[7] \in Octet
      BY <1>1, <1>2, <2>1 DEF HeaderBytes
    <2>3. bytes[5] % 32 < RateCount
      <3>1. bytes[5] \in Nat  BY <2>2, OctetIs
      <3>2. bytes[5] % 32 \in Nat  BY <3>1, SMT
      <3> QED  BY <2>1, <3>2 DEF RateCount
    <2>4. \A o \in Octet : o + 1 \in 1 .. 256  BY SMT DEF Octet
    <2> QED  BY <1>3, <2>1, <2>2, <2>3, <2>4, Zenon DEF AudioFields
  <1>5. ASSUME ServiceResult(bytes) = "Ok" PROVE ServiceFields(bytes).streamName \in Names
    <2>1. HeaderBytes <= Len(bytes)  BY <1>2, <1>5 DEF ServiceResult, HeaderBytes
    <2> QED  BY <1>3, <2>1 DEF ServiceFields
  <1>6. ASSUME RtpResult(bytes) = "Ok"
        PROVE  RtpFields(bytes).payloadType \in 0 .. 127
               /\ PayloadOffset(bytes) \in FixedBytes .. Len(bytes)
    <2> DEFINE c == CsrcCount(bytes)
               at == AfterCsrcs(bytes)
               w == ExtensionWords(bytes, at)
    <2>1. /\ 12 <= Len(bytes) /\ ~ (Len(bytes) < at)
          /\ ~ (Extended(bytes) /\ Len(bytes) < at + 4)
          /\ ~ (Len(bytes) < PayloadOffset(bytes))
      BY <1>2, <1>6 DEF RtpResult, FixedBytes
    <2>2. bytes[1] \in Nat /\ bytes[2] \in Nat
      BY <1>1, <1>2, <2>1, OctetIs
    <2>3. c \in Nat  BY <2>2, SMT DEF CsrcCount
    <2> HIDE DEF c
    <2>4. at \in Nat /\ 12 <= at  BY <2>3 DEF AfterCsrcs, FixedBytes, c
    <2> HIDE DEF at
    <2>5. ASSUME Extended(bytes) PROVE w \in Nat
      <3>1. /\ at + 3 \in Nat /\ 1 <= at + 3 /\ at + 3 <= Len(bytes)
            /\ at + 4 \in Nat /\ 1 <= at + 4 /\ at + 4 <= Len(bytes)
        BY <1>2, <2>1, <2>4, <2>5
      <3>2. bytes[at + 3] \in Nat /\ bytes[at + 4] \in Nat  BY <1>1, <3>1, OctetIs
      <3> QED  BY <3>2 DEF ExtensionWords, Value16
    <2> HIDE DEF w
    <2>6. PayloadOffset(bytes) \in Nat /\ 12 <= PayloadOffset(bytes)
      <3>1. PayloadOffset(bytes) = IF Extended(bytes) THEN at + 4 + 4 * w ELSE at
        BY DEF PayloadOffset, at, w
      <3> QED  BY <2>4, <2>5, <3>1
    <2>7. bytes[2] % 128 \in 0 .. 127
      <3>1. PICK y \in Nat : y = bytes[2]  BY <2>2, Zenon
      <3>2. PICK r : r = y % 128  OBVIOUS
      <3>3. r \in Nat /\ r <= 127  BY <3>2, SMT
      <3>4. r \in 0 .. 127  BY <3>3, SMT
      <3> QED  BY <3>1, <3>2, <3>4, Zenon
    <2>8. PayloadOffset(bytes) \in FixedBytes .. Len(bytes)
      BY <1>2, <2>1, <2>6 DEF FixedBytes
    <2> QED  BY <2>7, <2>8, Zenon DEF RtpFields
  <1> QED  BY <1>4, <1>5, <1>6, ReadersAccept, Zenon DEF FieldsInRange, Accepting

-----------------------------------------------------------------------------
\* No sequence of bytes is accepted by two parsers.
THEOREM OneReaderAtMost == Spec => []OneReader
  <1>1. OneReader  BY ReadersAccept, OneAccepts DEF OneReader
  <1> QED  BY <1>1, PTL

\* The numbers a parser returns, whatever byte was changed, are ones the receivers
\* can work with.
THEOREM ParsedFieldsAreInRange == Spec => []FieldsInRange
  <1>1. DatagramInv => FieldsInRange  BY RangesOfParsed DEF DatagramInv
  <1> QED  BY <1>1, DatagramInvHolds, PTL

\* A datagram cut inside its head is refused by every parser; cut in the payload it
\* still is what it was.
THEOREM CutHeadersAreRefused == Spec => []CutHeaderRefused
  BY DatagramInvHolds, PTL

\* What is encoded is what the parser of its kind, and no other, returns.
THEOREM EncodedReadsBack == Spec => []RoundTrip
  <1>1. DatagramInv => RoundTrip
    <2> SUFFICES ASSUME DatagramInv, kind # "none", damage = "none"
                 PROVE  /\ kind \in Readers
                        /\ kind = "audio" => AudioFields(bytes) = header
                        /\ kind = "service" => ServiceFields(bytes) = header
                        /\ kind = "rtp" => RtpFields(bytes) = header /\ RtpPayload(bytes) = payload
      BY DEF RoundTrip
    <2>1. PICK head \in Seq(Octet) : SentAs(head)  BY DEF DatagramInv
    <2>2. /\ payload \in Seq(Octet) /\ behind = Len(head) /\ bytes = head \o payload
          /\ bytes \in Seq(Octet)
      BY <2>1 DEF SentAs, DatagramInv
    <2>3. /\ Len(bytes) \in Nat /\ Len(head) \in Nat /\ Len(payload) \in Nat
          /\ Len(bytes) = Len(head) + Len(payload)
      BY <2>2, Joins, LenProperties
    <2>4. Front(bytes, head, payload, Len(bytes))  BY <2>2 DEF Front
    <2>5. Len(bytes) <= Len(bytes) /\ Len(head) <= Len(bytes)
          /\ Len(bytes) - behind = Len(payload)
      BY <2>2, <2>3
    <2>6. /\ ReadsAs(kind, header, head, bytes)
          /\ kind = "rtp" => RtpPayload(bytes) = SubSeq(payload, 1, Len(payload))
      BY <2>1, <2>2, <2>3, <2>4, <2>5, SentReadsAs
    <2>7. SubSeq(payload, 1, Len(payload)) = payload  BY <2>2, SubSeqFull
    <2> QED  BY <2>5, <2>6, <2>7, ReadersAccept DEF ReadsAs
  <1> QED  BY <1>1, DatagramInvHolds, PTL
=============================================================================
