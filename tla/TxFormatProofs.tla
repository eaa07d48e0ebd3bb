--------------------------- MODULE TxFormatProofs ---------------------------
(***************************************************************************)
(* Proofs about TxFormat: what is written is read, byte for byte, for      *)
(* every transaction a wallet may describe.                                *)
(***************************************************************************)
EXTENDS TxFormat, TxParserProofs, WellFoundedInduction

(* A set of numbers with 0 and the successor of each of its members has    *)
(* them all: induction, for sets, from the well-foundedness of the order.  *)
LEMMA NumbersByInduction ==
  ASSUME NEW S, 0 \in S, \A n \in Nat : n \in S => n + 1 \in S
  PROVE  Nat \subseteq S
<1> DEFINE T == Nat \ S
           R == {p \in Nat \X Nat : p[1] < p[2]}
<1>1. SUFFICES ASSUME T # {} PROVE FALSE
  OBVIOUS
<1>2. IsWellFoundedOn(R, Nat)
  BY NatLessThanWellFounded DEF OpToRel
<1>3. PICK n \in T : \A y \in T : <<y, n>> \notin R
  <2>1. T \subseteq Nat
    OBVIOUS
  <2> HIDE DEF T, R
  <2>2. QED
    BY <1>1, <1>2, <2>1, WFMin
<1>4. n \in Nat /\ n # 0 /\ n - 1 \in Nat /\ (n - 1) + 1 = n
  OBVIOUS
<1>5. n - 1 \notin T
  <2>1. <<n - 1, n>> \in R
    BY <1>4
  <2>2. QED
    BY <1>3, <2>1
<1>6. n \in S
  BY <1>4, <1>5
<1>7. QED
  BY <1>6

(* What pushes k arguments is the push of the last of them, then the rest. *)
LEMMA PushedUnfolds ==
  ASSUME NEW args, Len(args) \in Nat
  PROVE  /\ Pushed(args)[0] = <<>>
         /\ \A k \in 1 .. Len(args) :
              Pushed(args)[k] = LoadPush(args[k]) \o Pushed(args)[k - 1]
<1> DEFINE One(p, k) == IF k = 0 THEN <<>> ELSE LoadPush(args[k]) \o p[k - 1]
           Def(p, n) == p = [k \in 0 .. n |-> One(p, k)]
           S == {n \in Nat : \E p : Def(p, n)}
<1>1. Pushed(args) = CHOOSE p : Def(p, Len(args))
  BY DEF Pushed
<1>2. 0 \in S
  <2>1. Def([k \in 0 .. 0 |-> <<>>], 0)
    OBVIOUS
  <2>2. QED
    BY <2>1
<1>3. ASSUME NEW n \in Nat, n \in S PROVE n + 1 \in S
  <2>1. PICK p : Def(p, n)
    BY <1>3
  <2>2. \A k \in 0 .. n : p[k] = One(p, k)
    <3>1. \A k \in 0 .. n : [j \in 0 .. n |-> One(p, j)][k] = One(p, k)
      OBVIOUS
    <3>2. QED
      BY <2>1, <3>1, Zenon
  <2> DEFINE q == [k \in 0 .. n + 1 |->
                     IF k <= n THEN p[k] ELSE LoadPush(args[n + 1]) \o p[n]]
  <2>3. ASSUME NEW k \in 0 .. n + 1
        PROVE  q[k] = One(q, k)
    <3>1. CASE k = 0
      BY <2>2, <3>1
    <3>2. CASE k \in 1 .. n
      <4>1. q[k] = p[k] /\ q[k - 1] = p[k - 1] /\ k \in 0 .. n
        BY <3>2
      <4>2. p[k] = One(p, k)
        BY <2>2, <4>1, Zenon
      <4> HIDE DEF q
      <4>3. QED
        BY <4>1, <4>2, Zenon
    <3>3. CASE k = n + 1
      BY <3>3
    <3>4. QED
      BY <3>1, <3>2, <3>3
  <2>4. Def(q, n + 1)
    <3>1. q = [k \in 0 .. n + 1 |-> q[k]]
      OBVIOUS
    <3> HIDE DEF q
    <3>2. QED
      BY <2>3, <3>1
  <2> HIDE DEF q, Def
  <2>5. QED
    BY <2>4
<1>4. Nat \subseteq S
  <2> HIDE DEF S
  <2>1. QED
    BY <1>2, <1>3, NumbersByInduction
<1>5. Def(Pushed(args), Len(args))
  <2> HIDE DEF Def
  <2>1. QED
    BY <1>1, <1>4
<1>6. QED
  BY <1>5

(* What lists k arguments is what lists the others, a comma, and the last. *)
LEMMA ListingUnfolds ==
  ASSUME NEW args, Len(args) \in Nat
  PROVE  /\ Listing(args)[0] = <<>>
         /\ \A k \in 1 .. Len(args) :
              Listing(args)[k] =
                (IF k = 1 THEN <<>> ELSE Listing(args)[k - 1] \o <<COMMA>>) \o args[k]
<1> DEFINE One(p, k) == IF k = 0 THEN <<>> ELSE (IF k = 1 THEN <<>> ELSE p[k - 1] \o <<COMMA>>) \o args[k]
           Def(p, n) == p = [k \in 0 .. n |-> One(p, k)]
           S == {n \in Nat : \E p : Def(p, n)}
<1>1. Listing(args) = CHOOSE p : Def(p, Len(args))
  BY DEF Listing
<1>2. 0 \in S
  <2>1. Def([k \in 0 .. 0 |-> <<>>], 0)
    OBVIOUS
  <2>2. QED
    BY <2>1
<1>3. ASSUME NEW n \in Nat, n \in S PROVE n + 1 \in S
  <2>1. PICK p : Def(p, n)
    BY <1>3
  <2>2. \A k \in 0 .. n : p[k] = One(p, k)
    <3>1. \A k \in 0 .. n : [j \in 0 .. n |-> One(p, j)][k] = One(p, k)
      OBVIOUS
    <3>2. QED
      BY <2>1, <3>1, Zenon
  <2> DEFINE q == [k \in 0 .. n + 1 |->
                     IF k <= n THEN p[k] ELSE (IF n = 0 THEN <<>> ELSE p[n] \o <<COMMA>>) \o args[n + 1]]
  <2>3. ASSUME NEW k \in 0 .. n + 1
        PROVE  q[k] = One(q, k)
    <3>1. CASE k = 0
      BY <2>2, <3>1
    <3>2. CASE k \in 1 .. n
      <4>1. q[k] = p[k] /\ q[k - 1] = p[k - 1] /\ k \in 0 .. n
        BY <3>2
      <4>2. p[k] = One(p, k)
        BY <2>2, <4>1, Zenon
      <4> HIDE DEF q
      <4>3. QED
        BY <4>1, <4>2, Zenon
    <3>3. CASE k = n + 1
      BY <3>3
    <3>4. QED
      BY <3>1, <3>2, <3>3
  <2>4. Def(q, n + 1)
    <3>1. q = [k \in 0 .. n + 1 |-> q[k]]
      OBVIOUS
    <3> HIDE DEF q
    <3>2. QED
      BY <2>3, <3>1
  <2> HIDE DEF q, Def
  <2>5. QED
    BY <2>4
<1>4. Nat \subseteq S
  <2> HIDE DEF S
  <2>1. QED
    BY <1>2, <1>3, NumbersByInduction
<1>5. Def(Listing(args), Len(args))
  <2> HIDE DEF Def
  <2>1. QED
    BY <1>1, <1>4
<1>6. QED
  BY <1>5

-----------------------------------------------------------------------------
(* Sequences of bytes.                                                     *)
LEMMA BytesConcat ==
  ASSUME NEW s \in Bytes, NEW t \in Bytes
  PROVE  /\ s \o t \in Bytes /\ Len(s \o t) = Len(s) + Len(t)
         /\ \A i \in 1 .. Len(s) : (s \o t)[i] = s[i]
         /\ \A i \in 1 .. Len(t) : (s \o t)[Len(s) + i] = t[i]
<1>1. /\ s \in Seq(0 .. 255) /\ t \in Seq(0 .. 255)
      /\ Len(s) \in Nat /\ Len(t) \in Nat
  BY LenProperties DEF Bytes
<1>2. /\ s \o t \in Seq(0 .. 255) /\ Len(s \o t) = Len(s) + Len(t)
      /\ \A i \in 1 .. Len(s) + Len(t) :
           (s \o t)[i] = IF i <= Len(s) THEN s[i] ELSE t[i - Len(s)]
  BY <1>1, ConcatProperties
<1>3. \A i \in 1 .. Len(s) : (s \o t)[i] = s[i]
  BY <1>1, <1>2
<1>4. ASSUME NEW i \in 1 .. Len(t)
      PROVE  (s \o t)[Len(s) + i] = t[i]
  <2>1. /\ Len(s) + i \in 1 .. Len(s) + Len(t)
        /\ ~(Len(s) + i <= Len(s)) /\ (Len(s) + i) - Len(s) = i
    BY <1>1
  <2>2. QED
    BY <1>2, <2>1
<1>5. QED
  BY <1>2, <1>3, <1>4 DEF Bytes

(* Short sequences of bytes.                                               *)
LEMMA Bytes0 == <<>> \in Bytes /\ Len(<<>>) = 0
BY EmptySeq DEF Bytes

LEMMA Bytes1 == ASSUME NEW a \in 0 .. 255 PROVE <<a>> \in Bytes /\ Len(<<a>>) = 1
BY DEF Bytes

LEMMA Bytes2 ==
  ASSUME NEW a \in 0 .. 255, NEW b \in 0 .. 255
  PROVE  <<a, b>> \in Bytes /\ Len(<<a, b>>) = 2
BY DEF Bytes

LEMMA Bytes3 ==
  ASSUME NEW a \in 0 .. 255, NEW b \in 0 .. 255, NEW c \in 0 .. 255
  PROVE  <<a, b, c>> \in Bytes /\ Len(<<a, b, c>>) = 3
BY DEF Bytes

LEMMA Bytes4 ==
  ASSUME NEW a \in 0 .. 255, NEW b \in 0 .. 255, NEW c \in 0 .. 255, NEW d \in 0 .. 255
  PROVE  <<a, b, c, d>> \in Bytes /\ Len(<<a, b, c, d>>) = 4
BY DEF Bytes

LEMMA FourBytes ==
  ASSUME NEW e \in [1 .. 4 -> 0 .. 255]
  PROVE  e \in Bytes /\ Len(e) = 4
<1>1. e \in Seq(0 .. 255)
  <2>1. [1 .. 4 -> 0 .. 255] \in {[1 .. n -> 0 .. 255] : n \in Nat}
    OBVIOUS
  <2>2. QED
    BY <2>1, SeqDef
<1>2. Len(e) \in Nat /\ 1 .. Len(e) = 1 .. 4
  BY <1>1, LenProperties
<1>3. Len(e) = 4
  <2>1. 4 \in 1 .. Len(e)
    BY <1>2
  <2>2. Len(e) \in 1 .. Len(e)
    BY <1>2, <2>1
  <2>3. QED
    BY <1>2, <2>1, <2>2
<1>4. QED
  BY <1>1, <1>3 DEF Bytes

(* The bytes of s stand in the transaction from offset o on.               *)
Stands(o, s) == /\ o + Len(s) <= Len(raw)
                /\ \A i \in 1 .. Len(s) : raw[o + i] = s[i]

(* What stands there as a whole stands there in parts.                     *)
LEMMA StandsConcat ==
  ASSUME raw \in Bytes, NEW o \in Nat, NEW s \in Bytes, NEW t \in Bytes
  PROVE  Stands(o, s \o t) <=> Stands(o, s) /\ Stands(o + Len(s), t)
<1>1. Len(raw) \in Nat /\ Len(s) \in Nat /\ Len(t) \in Nat
  BY LenProperties DEF Bytes
<1>2. /\ Len(s \o t) = Len(s) + Len(t)
      /\ \A i \in 1 .. Len(s) : (s \o t)[i] = s[i]
      /\ \A i \in 1 .. Len(t) : (s \o t)[Len(s) + i] = t[i]
  BY BytesConcat
<1>3. ASSUME Stands(o, s \o t)
      PROVE  Stands(o, s) /\ Stands(o + Len(s), t)
  <2>1. /\ o + (Len(s) + Len(t)) <= Len(raw)
        /\ \A i \in 1 .. Len(s) + Len(t) : raw[o + i] = (s \o t)[i]
    BY <1>2, <1>3 DEF Stands
  <2>2. Stands(o, s)
    BY <1>1, <1>2, <2>1 DEF Stands
  <2>3. ASSUME NEW i \in 1 .. Len(t)
        PROVE  raw[(o + Len(s)) + i] = t[i]
    <3>1. Len(s) + i \in 1 .. Len(s) + Len(t) /\ o + (Len(s) + i) = (o + Len(s)) + i
      BY <1>1
    <3>2. raw[o + (Len(s) + i)] = (s \o t)[Len(s) + i]
      BY <2>1, <3>1
    <3>3. QED
      BY <1>2, <3>1, <3>2
  <2>4. QED
    BY <1>1, <2>1, <2>2, <2>3 DEF Stands
<1>4. ASSUME Stands(o, s), Stands(o + Len(s), t)
      PROVE  Stands(o, s \o t)
  <2>1. /\ (o + Len(s)) + Len(t) <= Len(raw)
        /\ \A i \in 1 .. Len(s) : raw[o + i] = s[i]
        /\ \A i \in 1 .. Len(t) : raw[(o + Len(s)) + i] = t[i]
    BY <1>4 DEF Stands
  <2>2. ASSUME NEW i \in 1 .. Len(s) + Len(t)
        PROVE  raw[o + i] = (s \o t)[i]
    <3>1. CASE i <= Len(s)
      BY <1>1, <1>2, <2>1, <3>1
    <3>2. CASE i > Len(s)
      <4>1. i - Len(s) \in 1 .. Len(t) /\ Len(s) + (i - Len(s)) = i
            /\ (o + Len(s)) + (i - Len(s)) = o + i
        BY <1>1, <3>2
      <4>2. (s \o t)[Len(s) + (i - Len(s))] = t[i - Len(s)]
        BY <1>2, <4>1
      <4>3. raw[(o + Len(s)) + (i - Len(s))] = t[i - Len(s)]
        BY <2>1, <4>1
      <4>4. QED
        BY <4>1, <4>2, <4>3
    <3>3. QED
      BY <1>1, <3>1, <3>2
  <2>3. QED
    BY <1>1, <1>2, <2>1, <2>2 DEF Stands
<1>5. QED
  BY <1>3, <1>4

(* A byte that stands in the transaction is the one that is read there.    *)
LEMMA StandsByte ==
  ASSUME raw \in Bytes, NEW o \in Nat, NEW s \in Bytes, Stands(o, s),
         NEW i \in 1 .. Len(s)
  PROVE  o + i <= Len(raw) /\ Byte(o + i - 1) = s[i]
<1>1. Len(raw) \in Nat /\ Len(s) \in Nat
  BY LenProperties DEF Bytes
<1>2. o + Len(s) <= Len(raw) /\ raw[o + i] = s[i]
  BY DEF Stands
<1>3. o + i - 1 < Len(raw) /\ (o + i - 1) + 1 = o + i /\ o + i <= Len(raw)
  BY <1>1, <1>2
<1>4. QED
  BY <1>2, <1>3 DEF Byte

(* A slice is the text that stands where it says.                          *)
LEMMA StandsText ==
  ASSUME raw \in Bytes, NEW f \in Slice, NEW s \in Bytes, Len(s) = f.len, Stands(f.at, s)
  PROVE  Text(f) = s
<1>1. f.at \in Nat /\ f.len \in Nat /\ raw \in Seq(0 .. 255)
  BY DEF Slice, Bytes
<1>2. Text(f) \in Bytes /\ Len(Text(f)) = f.len
  BY <1>1, TextType DEF Bytes
<1>3. ASSUME NEW i \in 1 .. f.len
      PROVE  Text(f)[i] = s[i]
  BY <1>3, <1>1, StandsByte DEF Text
<1>4. QED
  BY <1>2, <1>3, SeqEqual DEF Bytes

(* The text of a slice of the transaction stands there.                    *)
LEMMA TextStands ==
  ASSUME raw \in Bytes, NEW f \in Slice, f.at + f.len <= Len(raw)
  PROVE  Stands(f.at, Text(f))
<1>1. f.at \in Nat /\ f.len \in Nat /\ Len(raw) \in Nat /\ raw \in Seq(0 .. 255)
  BY LenProperties DEF Slice, Bytes
<1>2. Len(Text(f)) = f.len
  BY <1>1, TextType
<1>3. ASSUME NEW i \in 1 .. f.len
      PROVE  raw[f.at + i] = Text(f)[i]
  <2>1. Text(f)[i] = Byte(f.at + i - 1)
    BY DEF Text
  <2>2. f.at + i - 1 < Len(raw) /\ (f.at + i - 1) + 1 = f.at + i
    BY <1>1
  <2>3. QED
    BY <2>1, <2>2 DEF Byte
<1>4. QED
  BY <1>2, <1>3 DEF Stands

(* What stands in the transaction is that part of it.                      *)
LEMMA StandsIsSubSeq ==
  ASSUME raw \in Bytes, NEW o \in Nat, NEW s \in Bytes, Stands(o, s)
  PROVE  SubSeq(raw, o + 1, o + Len(s)) = s
<1>1. Len(raw) \in Nat /\ Len(s) \in Nat
  BY LenProperties DEF Bytes
<1>2. \A i \in o + 1 .. o + Len(s) : raw[i] \in 0 .. 255
  <2>1. \A i \in o + 1 .. o + Len(s) : i \in 1 .. Len(raw)
    BY <1>1 DEF Stands
  <2>2. QED
    BY <2>1, ElementOfSeq DEF Bytes
<1> DEFINE t == SubSeq(raw, o + 1, o + Len(s))
<1>3. /\ t \in Seq(0 .. 255) /\ Len(t) = Len(s)
      /\ \A i \in 1 .. Len(s) : t[i] = raw[o + 1 + i - 1]
  <2>1. (IF o + 1 <= o + Len(s) THEN (o + Len(s)) - (o + 1) + 1 ELSE 0) = Len(s)
        /\ (o + Len(s)) - (o + 1) + 1 = Len(s)
    BY <1>1
  <2>2. o + 1 \in Int /\ o + Len(s) \in Int
    BY <1>1
  <2>3. /\ t \in Seq(0 .. 255)
        /\ Len(t) = IF o + 1 <= o + Len(s) THEN (o + Len(s)) - (o + 1) + 1 ELSE 0
        /\ \A i \in 1 .. (o + Len(s)) - (o + 1) + 1 : t[i] = raw[o + 1 + i - 1]
    BY <1>2, <2>2, SubSeqProperties
  <2> HIDE DEF t
  <2>4. QED
    BY <2>1, <2>3
<1>4. \A i \in 1 .. Len(s) : t[i] = s[i]
  <2>1. \A i \in 1 .. Len(s) : o + 1 + i - 1 = o + i /\ raw[o + i] = s[i]
    BY <1>1 DEF Stands
  <2> HIDE DEF t
  <2>2. QED
    BY <1>3, <2>1
<1> HIDE DEF t
<1>5. t = s
  BY <1>3, <1>4, SeqEqual DEF Bytes
<1>6. QED
  BY <1>5 DEF t

-----------------------------------------------------------------------------
(* Lengths.                                                                *)
LEMMA VarintWriteType ==
  ASSUME NEW n \in Nat, n <= MAX_TRANSACTION_LEN
  PROVE  /\ VarintWrite(n) \in Bytes
         /\ n < 253 => VarintWrite(n) = <<n>> /\ Len(VarintWrite(n)) = 1
         /\ n >= 253 => /\ VarintWrite(n) = <<253, n % 256, n \div 256>>
                        /\ Len(VarintWrite(n)) = 3
<1>1. CASE n < 253
  <2>1. VarintWrite(n) = <<n>> /\ n \in 0 .. 255 /\ ~(n >= 253)
    BY <1>1 DEF VarintWrite
  <2>2. <<n>> \in Bytes /\ Len(<<n>>) = 1
    BY <2>1, Bytes1
  <2>3. QED
    BY <2>1, <2>2, Zenon
<1>2. CASE n >= 253
  <2>1. VarintWrite(n) = <<253, n % 256, n \div 256>> /\ ~(n < 253)
    BY <1>2 DEF VarintWrite
  <2>2. n % 256 \in 0 .. 255 /\ n \div 256 \in 0 .. 255 /\ 253 \in 0 .. 255
    <3>1. n % 256 \in 0 .. 255
      OBVIOUS
    <3>2. n \div 256 \in 0 .. 255
      <4>1. n <= 1020
        BY DEF MAX_TRANSACTION_LEN
      <4>2. /\ n \div 256 \in Int
            /\ 256 * (n \div 256) <= n /\ n < 256 * (n \div 256) + 256
        OBVIOUS
      <4>3. \A q \in Int : 256 * q <= n /\ n < 256 * q + 256 => q >= 0 /\ q <= 3
        BY <4>1
      <4>4. n \div 256 >= 0 /\ n \div 256 <= 3
        BY <4>2, <4>3
      <4>5. QED
        BY <4>2, <4>4
    <3>3. 253 \in 0 .. 255
      OBVIOUS
    <3>4. QED
      BY <3>1, <3>2, <3>3
  <2>3. /\ <<253, n % 256, n \div 256>> \in Bytes
        /\ Len(<<253, n % 256, n \div 256>>) = 3
    <3> DEFINE mark == 253
               low == n % 256
               high == n \div 256
    <3>1. mark \in 0 .. 255 /\ low \in 0 .. 255 /\ high \in 0 .. 255
      BY <2>2
    <3> HIDE DEF mark, low, high
    <3>2. <<mark, low, high>> \in Bytes /\ Len(<<mark, low, high>>) = 3
      BY <3>1, Bytes3
    <3>3. QED
      BY <3>2 DEF mark, low, high
  <2>4. QED
    BY <2>1, <2>3, Zenon
<1>3. QED
  BY <1>1, <1>2

(* The bytes that a varint is read from are bytes.                         *)
LEMMA VarintBytes ==
  ASSUME raw \in Bytes, NEW o \in Nat
  PROVE  /\ Byte(o) \in 0 .. 255 /\ Byte(o + 1) \in 0 .. 255 /\ Byte(o + 2) \in 0 .. 255
         /\ Len(raw) \in Nat
<1>1. o + 1 \in Nat /\ o + 2 \in Nat
  OBVIOUS
<1>2. raw \in Seq(0 .. 255)
  BY DEF Bytes
<1>3. \A i \in Nat : Byte(i) \in 0 .. 255
  BY <1>2, ByteType
<1>4. QED
  BY <1>1, <1>2, <1>3, LenProperties

(* varint_write, then buffer_read_varint.                                  *)
LEMMA VarintReadsBack ==
  ASSUME raw \in Bytes, NEW o \in Nat, NEW n \in Nat, n <= MAX_TRANSACTION_LEN,
         Stands(o, VarintWrite(n))
  PROVE  Varint(o).value = n /\ Varint(o).next = o + Len(VarintWrite(n))
<1> DEFINE w == VarintWrite(n)
           len == Len(w)
<1>1. /\ w \in Bytes
      /\ n < 253 => w = <<n>> /\ len = 1
      /\ n >= 253 => w = <<253, n % 256, n \div 256>> /\ len = 3
  BY VarintWriteType
<1>2. Len(raw) \in Nat /\ len \in Nat /\ o + len <= Len(raw)
  BY <1>1, VarintBytes, LenProperties DEF Stands, Bytes
<1>3. \A i \in 1 .. len : Byte(o + i - 1) = w[i]
  BY <1>1, StandsByte
<1> HIDE DEF w, len
<1>4. CASE n < 253
  <2>1. len = 1
    BY <1>1, <1>4, Zenon
  <2>2. w[1] = n
    BY <1>1, <1>4
  <2>3. Byte(o) = n
    <3>1. 1 \in 1 .. len /\ o + 1 - 1 = o
      BY <2>1
    <3>2. QED
      BY <1>3, <2>2, <3>1
  <2>4. ~(o + 1 > Len(raw))
    BY <1>2, <2>1
  <2>5. Varint(o) = [next |-> o + 1, value |-> Byte(o)]
    BY <1>4, <2>3, <2>4 DEF Varint
  <2>6. Varint(o).value = n /\ Varint(o).next = o + 1
    BY <2>3, <2>5
  <2>7. QED
    BY <2>1, <2>6 DEF w, len
<1>5. CASE n >= 253
  <2>1. len = 3
    BY <1>1, <1>5, Zenon
  <2>2. w[1] = 253 /\ w[2] = n % 256 /\ w[3] = n \div 256
    BY <1>1, <1>5
  <2>3. Byte(o) = 253 /\ Byte(o + 1) = n % 256 /\ Byte(o + 2) = n \div 256
    <3>1. /\ 1 \in 1 .. len /\ o + 1 - 1 = o
          /\ 2 \in 1 .. len /\ o + 2 - 1 = o + 1
          /\ 3 \in 1 .. len /\ o + 3 - 1 = o + 2
      BY <2>1
    <3>2. Byte(o + 1 - 1) = w[1] /\ Byte(o + 2 - 1) = w[2] /\ Byte(o + 3 - 1) = w[3]
      BY <1>3, <3>1, Zenon
    <3>3. QED
      BY <2>2, <3>1, <3>2
  <2>4. ~(o + 3 > Len(raw)) /\ ~(o >= Len(raw))
    BY <1>2, <2>1
  <2>5. (n % 256) + 256 * (n \div 256) = n
    OBVIOUS
  <2>6. \A k \in 3 .. 3 - 1 : Byte(o + k) = 0
    OBVIOUS
  <2>7. Varint(o) = [next |-> o + 3, value |-> Byte(o + 1) + 256 * Byte(o + 2)]
    BY <2>3, <2>4, <2>6 DEF Varint
  <2>8. Varint(o).value = n /\ Varint(o).next = o + 3
    <3>1. Byte(o + 1) + 256 * Byte(o + 2) = n
      BY <2>3, <2>5
    <3>2. QED
      BY <2>7, <3>1
  <2>9. QED
    BY <2>1, <2>8 DEF w, len
<1>6. QED
  BY <1>4, <1>5

(* A length that is read takes no fewer bytes than varint_write gives it;  *)
(* if no more, then they are those bytes.                                  *)
LEMMA VarintNotShorter ==
  ASSUME raw \in Bytes, NEW o \in Nat, NEW n \in Nat \ {0}, n <= MAX_TRANSACTION_LEN,
         Varint(o).value = n
  PROVE  LET w == VarintWrite(n)
         IN  /\ o + Len(w) <= Varint(o).next
             /\ Varint(o).next \in Nat /\ Varint(o).next <= Len(raw)
             /\ o + Len(w) = Varint(o).next => Stands(o, w)
<1> DEFINE width == IF o >= Len(raw) \/ Byte(o) < 253 THEN 1
                    ELSE IF Byte(o) = 253 THEN 3
                    ELSE IF Byte(o) = 254 THEN 5 ELSE 9
           low == Byte(o + 1) + 256 * Byte(o + 2)
           zeros == \A k \in 3 .. width - 1 : Byte(o + k) = 0
           value == IF width = 1 THEN Byte(o) ELSE IF zeros THEN low ELSE 65536
           w == VarintWrite(n)
<1>1. /\ Byte(o) \in 0 .. 255 /\ Byte(o + 1) \in 0 .. 255 /\ Byte(o + 2) \in 0 .. 255
      /\ Len(raw) \in Nat
  BY VarintBytes
<1>2. Varint(o) = IF o + width > Len(raw) THEN [value |-> 0, next |-> o]
                  ELSE [next |-> o + width, value |-> value]
  BY DEF Varint
<1>3. width \in {1, 3, 5, 9}
  BY <1>1
<1>4. /\ width = 1 => o >= Len(raw) \/ Byte(o) < 253
      /\ width = 3 => Byte(o) = 253
  BY <1>1
<1> HIDE DEF width
<1>5. value = IF width = 1 THEN Byte(o) ELSE IF zeros THEN low ELSE 65536
  BY SMT
<1> HIDE DEF value, zeros, low
<1>6. n = value /\ Varint(o).next = o + width /\ o + width <= Len(raw)
  BY <1>1, <1>2, <1>3
<1>7. /\ w \in Bytes
      /\ n < 253 => w = <<n>> /\ Len(w) = 1
      /\ n >= 253 => w = <<253, n % 256, n \div 256>> /\ Len(w) = 3
  BY VarintWriteType
<1> HIDE DEF w
<1>8. CASE width = 1
  <2>1. n = Byte(o) /\ n < 253 /\ o < Len(raw)
    BY <1>1, <1>4, <1>5, <1>6, <1>8
  <2>2. raw[o + 1] = Byte(o) /\ o + 1 <= Len(raw)
    BY <1>1, <2>1 DEF Byte
  <2>3. w = <<n>> /\ Len(w) = 1
    BY <1>7, <2>1
  <2>4. Stands(o, w)
    BY <2>1, <2>2, <2>3 DEF Stands
  <2>5. QED
    BY <1>1, <1>6, <1>8, <2>3, <2>4 DEF w
<1>9. CASE width # 1
  <2>1. n = low
    BY <1>5, <1>6, <1>9, SMT DEF MAX_TRANSACTION_LEN
  <2>2. Len(w) \in {1, 3}
    BY <1>7
  <2>3. ASSUME o + Len(w) = Varint(o).next
        PROVE  Stands(o, w)
    <3>1. width = 3 /\ Len(w) = 3
      <4>1. width \in {3, 5, 9} /\ o + Len(w) = o + width
        BY <1>3, <1>6, <1>9, <2>3
      <4>2. \A l \in {1, 3}, v \in {3, 5, 9} : o + l = o + v => v = 3 /\ l = 3
        OBVIOUS
      <4>3. QED
        BY <2>2, <4>1, <4>2, Zenon
    <3>2. w = <<253, n % 256, n \div 256>>
      BY <1>7, <3>1
    <3>3. n % 256 = Byte(o + 1) /\ n \div 256 = Byte(o + 2)
      <4> DEFINE a == Byte(o + 1)
                 b == Byte(o + 2)
      <4>1. a \in 0 .. 255 /\ b \in 0 .. 255 /\ n = a + 256 * b
        BY <1>1, <2>1 DEF low
      <4> HIDE DEF a, b
      <4>2. n % 256 = a /\ n \div 256 = b
        BY <4>1
      <4>3. QED
        BY <4>2 DEF a, b
    <3>4. /\ o < Len(raw) /\ o + 1 < Len(raw) /\ o + 2 < Len(raw) /\ o + 3 <= Len(raw)
          /\ (o + 1) + 1 = o + 2 /\ (o + 2) + 1 = o + 3
      BY <1>1, <1>6, <3>1
    <3>5. raw[o + 1] = Byte(o) /\ raw[o + 2] = Byte(o + 1) /\ raw[o + 3] = Byte(o + 2)
      BY <3>4 DEF Byte
    <3>6. raw[o + 1] = w[1] /\ raw[o + 2] = w[2] /\ raw[o + 3] = w[3]
      BY <1>4, <3>1, <3>2, <3>3, <3>5
    <3>7. \A i \in 1 .. 3 : i = 1 \/ i = 2 \/ i = 3
      OBVIOUS
    <3>8. QED
      BY <3>1, <3>4, <3>6, <3>7 DEF Stands
  <2>4. o + Len(w) <= Varint(o).next /\ Varint(o).next \in Nat /\ Varint(o).next <= Len(raw)
    <3>1. width \in {3, 5, 9} /\ Varint(o).next = o + width /\ o + width <= Len(raw)
      BY <1>3, <1>6, <1>9
    <3>2. \A l \in {1, 3}, v \in {3, 5, 9} : o + l <= o + v /\ o + v \in Nat
      OBVIOUS
    <3>3. QED
      BY <2>2, <3>1, <3>2
  <2>5. QED
    BY <2>3, <2>4 DEF w
<1>10. QED
  BY <1>8, <1>9

-----------------------------------------------------------------------------
(* The fields of the transaction: where they end, and that the field f,    *)
(* with its length before it, was read from offset o on.                   *)
EndOf(f) == f.at + f.len

Headed(o, f) ==
  /\ f.len \in Nat \ {0} /\ f.len <= MAX_TRANSACTION_LEN
  /\ o + Len(VarintWrite(f.len)) <= f.at /\ EndOf(f) <= Len(raw)
  /\ o + Len(VarintWrite(f.len)) = f.at => Stands(o, VarintWrite(f.len))

ThreeHeaded ==
  /\ Headed(0, tx.nexus)
  /\ Headed(EndOf(tx.nexus), tx.chain)
  /\ Headed(EndOf(tx.chain), tx.script)

ExpirationRead ==
  "EXPIRATION_UNREAD" \notin ignored => Stands(EndOf(tx.script), tx.expiration)

(* The inductive invariant of the round trip: the fields that were read    *)
(* lie behind each other, and the cursor behind the last of them.          *)
HeaderInv ==
  /\ status = "PARSING_OK" => pc = "done"
  /\ pc \in {"start", "nexus"} => off = 0
  /\ pc = "chain" => Headed(0, tx.nexus) /\ off = EndOf(tx.nexus)
  /\ pc = "script" => /\ Headed(0, tx.nexus) /\ Headed(EndOf(tx.nexus), tx.chain)
                      /\ off = EndOf(tx.chain)
  /\ pc \in ScriptPc \cup {"expiration"} => ThreeHeaded /\ off = EndOf(tx.script)
  /\ pc = "payload" =>
       /\ ThreeHeaded /\ ExpirationRead
       /\ "EXPIRATION_UNREAD" \notin ignored => off = EndOf(tx.script) + 4
  /\ pc \in {"fields", "join"} \/ status = "PARSING_OK" =>
       /\ ThreeHeaded /\ ExpirationRead
       /\ "EXPIRATION_UNREAD" \notin ignored =>
            Headed(EndOf(tx.script) + 4, tx.payload) /\ off = EndOf(tx.payload)

(* A field is refused, or read with its length before it.                  *)
LEMMA FieldHeads ==
  ASSUME Inv, NEW name, NEW max \in Nat, max <= MAX_TRANSACTION_LEN,
         NEW zero, NEW overflow, NEW parsing, NEW next,
         Field(name, max, zero, overflow, parsing, next)
  PROVE  \/ pc' = "done" /\ status' \in {zero, overflow, parsing} /\ UNCHANGED tx
         \/ /\ pc' = next /\ UNCHANGED status
            /\ \E f \in Slice : /\ tx' = [tx EXCEPT ![name] = f]
                                /\ Headed(off, f) /\ off' = EndOf(f)
<1> DEFINE length == Varint(off)
           f == [at |-> length.next, len |-> length.value]
<1>1. /\ length.value \in Nat /\ length.next \in Nat /\ off \in Nat /\ raw \in Bytes
      /\ TypeInv
  BY VarintInside DEF Inv, TypeInv, Bytes
<1>2. CASE (Return(zero) \/ Return(overflow) \/ Return(parsing)) /\ UNCHANGED tx
  BY <1>2 DEF Return
<1>3. CASE /\ length.value \in 1 .. max /\ length.next + length.value <= Len(raw)
           /\ pc' = next /\ UNCHANGED status
           /\ off' = length.next + length.value
           /\ tx' = [tx EXCEPT ![name] = f]
  <2>1. f \in Slice /\ f.at = length.next /\ f.len = length.value
    BY <1>1 DEF Slice
  <2>2. f.len \in Nat \ {0} /\ f.len <= MAX_TRANSACTION_LEN
    BY <1>1, <1>3, <2>1 DEF MAX_TRANSACTION_LEN
  <2>3. /\ off + Len(VarintWrite(f.len)) <= f.at
        /\ off + Len(VarintWrite(f.len)) = f.at => Stands(off, VarintWrite(f.len))
    <3> HIDE DEF f, length
    <3>1. Varint(off).value = f.len /\ Varint(off).next = f.at
      BY <2>1 DEF length
    <3>2. QED
      BY <1>1, <2>2, <3>1, VarintNotShorter
  <2>4. Headed(off, f) /\ off' = EndOf(f)
    <3> HIDE DEF f
    <3>1. QED
      BY <1>3, <2>1, <2>2, <2>3 DEF Headed, EndOf
  <2> HIDE DEF f
  <2>5. QED
    BY <1>3, <2>1, <2>4
<1>4. QED
  BY <1>2, <1>3 DEF Field

(* Steps that leave transaction and header alone leave this alone.         *)
LEMMA HeadersKept ==
  ASSUME raw' = raw, tx'.nexus = tx.nexus, tx'.chain = tx.chain, tx'.script = tx.script
  PROVE  /\ ThreeHeaded => ThreeHeaded'
         /\ tx'.expiration = tx.expiration /\ ignored' = ignored =>
              (ExpirationRead => ExpirationRead')
<1>1. ThreeHeaded => ThreeHeaded'
  BY DEF ThreeHeaded, Headed, Stands, EndOf
<1>2. tx'.expiration = tx.expiration /\ ignored' = ignored =>
        (ExpirationRead => ExpirationRead')
  BY DEF ExpirationRead, Stands, EndOf
<1>3. QED
  BY <1>1, <1>2

(* The steps that read a field of the header.                              *)
LEMMA FieldsHeader ==
  Inv /\ HeaderInv /\ (ReadNexus \/ ReadChain \/ ReadScript \/ ReadPayload) => HeaderInv'
<1> SUFFICES ASSUME Inv, HeaderInv, ReadNexus \/ ReadChain \/ ReadScript \/ ReadPayload
             PROVE  HeaderInv'
  OBVIOUS
<1>1. /\ NEXUS_LEN \in Nat /\ NEXUS_LEN <= MAX_TRANSACTION_LEN
      /\ CHAIN_LEN \in Nat /\ CHAIN_LEN <= MAX_TRANSACTION_LEN
      /\ SCRIPT_LEN \in Nat /\ SCRIPT_LEN <= MAX_TRANSACTION_LEN
      /\ PAYLOAD_LEN \in Nat /\ PAYLOAD_LEN <= MAX_TRANSACTION_LEN
  BY DEF NEXUS_LEN, CHAIN_LEN, SCRIPT_LEN, PAYLOAD_LEN, MAX_TRANSACTION_LEN
<1>2. tx \in TxType
  BY DEF Inv, TypeInv
<1>3. ASSUME pc' = "done", status' # "PARSING_OK"
      PROVE  HeaderInv'
  BY <1>3 DEF HeaderInv, ScriptPc
<1>4. CASE ReadNexus
  <2>1. pc = "nexus" /\ UNCHANGED raw
    BY <1>4 DEF ReadNexus, Field
  <2>2. \/ pc' = "done" /\ status' # "PARSING_OK"
        \/ /\ pc' = "chain" /\ UNCHANGED status
           /\ \E f \in Slice : /\ tx' = [tx EXCEPT !["nexus"] = f]
                               /\ Headed(off, f) /\ off' = EndOf(f)
    <3>1. Field("nexus", NEXUS_LEN, "NEXUS_ZERO_ERROR",
                "NEXUS_OVERFLOW_ERROR", "NEXUS_PARSING_ERROR", "chain")
      BY <1>4 DEF ReadNexus
    <3>2. QED
      BY <1>1, <3>1, FieldHeads
  <2>3. ASSUME NEW f \in Slice, pc' = "chain", status' = status,
               tx' = [tx EXCEPT !["nexus"] = f], Headed(off, f), off' = EndOf(f)
        PROVE  HeaderInv'
    <3>1. off = 0 /\ status # "PARSING_OK"
      BY <2>1 DEF HeaderInv
    <3>2. tx'.nexus = f
      BY <1>2, <2>3 DEF TxType
    <3>3. (Headed(0, tx.nexus) /\ off = EndOf(tx.nexus))'
      BY <2>1, <2>3, <3>1, <3>2 DEF Headed, Stands, EndOf
    <3>4. QED
      BY <2>3, <3>1, <3>3 DEF HeaderInv, ScriptPc
  <2>4. QED
    BY <1>3, <2>2, <2>3
<1>5. CASE ReadChain
  <2>1. pc = "chain" /\ UNCHANGED raw
    BY <1>5 DEF ReadChain, Field
  <2>2. \/ pc' = "done" /\ status' # "PARSING_OK"
        \/ /\ pc' = "script" /\ UNCHANGED status
           /\ \E f \in Slice : /\ tx' = [tx EXCEPT !["chain"] = f]
                               /\ Headed(off, f) /\ off' = EndOf(f)
    <3>1. Field("chain", CHAIN_LEN, "CHAIN_ZERO_ERROR",
                "CHAIN_OVERFLOW_ERROR", "CHAIN_PARSING_ERROR", "script")
      BY <1>5 DEF ReadChain
    <3>2. QED
      BY <1>1, <3>1, FieldHeads
  <2>3. ASSUME NEW f \in Slice, pc' = "script", status' = status,
               tx' = [tx EXCEPT !["chain"] = f], Headed(off, f), off' = EndOf(f)
        PROVE  HeaderInv'
    <3>1. off = EndOf(tx.nexus) /\ Headed(0, tx.nexus) /\ status # "PARSING_OK"
      BY <2>1 DEF HeaderInv
    <3>2. tx'.chain = f /\ tx'.nexus = tx.nexus
      BY <1>2, <2>3 DEF TxType
    <3>3. (Headed(0, tx.nexus))'
      BY <2>1, <3>1, <3>2 DEF Headed, Stands, EndOf
    <3>4. (Headed(EndOf(tx.nexus), tx.chain) /\ off = EndOf(tx.chain))'
      BY <2>1, <2>3, <3>1, <3>2 DEF Headed, Stands, EndOf
    <3>5. QED
      BY <2>3, <3>1, <3>3, <3>4 DEF HeaderInv, ScriptPc
  <2>4. QED
    BY <1>3, <2>2, <2>3
<1>6. CASE ReadScript
  <2>1. pc = "script" /\ UNCHANGED raw
    BY <1>6 DEF ReadScript, Field
  <2>2. \/ pc' = "done" /\ status' # "PARSING_OK"
        \/ /\ pc' = "count" /\ UNCHANGED status
           /\ \E f \in Slice : /\ tx' = [tx EXCEPT !["script"] = f]
                               /\ Headed(off, f) /\ off' = EndOf(f)
    <3>1. Field("script", SCRIPT_LEN, "SCRIPT_ZERO_ERROR",
                "SCRIPT_OVERFLOW_ERROR", "SCRIPT_PARSING_ERROR", "count")
      BY <1>6 DEF ReadScript
    <3>2. QED
      BY <1>1, <3>1, FieldHeads
  <2>3. ASSUME NEW f \in Slice, pc' = "count", status' = status,
               tx' = [tx EXCEPT !["script"] = f], Headed(off, f), off' = EndOf(f)
        PROVE  HeaderInv'
    <3>1. /\ off = EndOf(tx.chain) /\ status # "PARSING_OK"
          /\ Headed(0, tx.nexus) /\ Headed(EndOf(tx.nexus), tx.chain)
      BY <2>1 DEF HeaderInv
    <3>2. tx'.script = f /\ tx'.nexus = tx.nexus /\ tx'.chain = tx.chain
      BY <1>2, <2>3 DEF TxType
    <3>3. (Headed(0, tx.nexus) /\ Headed(EndOf(tx.nexus), tx.chain))'
      BY <2>1, <3>1, <3>2 DEF Headed, Stands, EndOf
    <3>4. (Headed(EndOf(tx.chain), tx.script) /\ off = EndOf(tx.script))'
      BY <2>1, <2>3, <3>1, <3>2 DEF Headed, Stands, EndOf
    <3>5. QED
      BY <2>3, <3>1, <3>3, <3>4 DEF HeaderInv, ScriptPc, ThreeHeaded
  <2>4. QED
    BY <1>3, <2>2, <2>3
<1>7. CASE ReadPayload
  <2>1. pc = "payload" /\ UNCHANGED <<raw, ignored>>
    BY <1>7 DEF ReadPayload, Field, scriptVars
  <2>2. \/ pc' = "done" /\ status' # "PARSING_OK"
        \/ /\ pc' = "fields" /\ UNCHANGED status
           /\ \E f \in Slice : /\ tx' = [tx EXCEPT !["payload"] = f]
                               /\ Headed(off, f) /\ off' = EndOf(f)
    <3>1. Field("payload", PAYLOAD_LEN, "PAYLOAD_ZERO_ERROR",
                "PAYLOAD_OVERFLOW_ERROR", "PAYLOAD_PARSING_ERROR", "fields")
      BY <1>7 DEF ReadPayload
    <3>2. QED
      BY <1>1, <3>1, FieldHeads
  <2>3. ASSUME NEW f \in Slice, pc' = "fields", status' = status,
               tx' = [tx EXCEPT !["payload"] = f], Headed(off, f), off' = EndOf(f)
        PROVE  HeaderInv'
    <3>1. /\ "EXPIRATION_UNREAD" \notin ignored => off = EndOf(tx.script) + 4
          /\ status # "PARSING_OK" /\ ThreeHeaded /\ ExpirationRead
      BY <2>1 DEF HeaderInv
    <3>2. /\ tx'.payload = f /\ tx'.nexus = tx.nexus /\ tx'.chain = tx.chain
          /\ tx'.script = tx.script /\ tx'.expiration = tx.expiration
      BY <1>2, <2>3 DEF TxType
    <3>3. ThreeHeaded' /\ ExpirationRead'
      BY <2>1, <3>1, <3>2, HeadersKept
    <3>4. ("EXPIRATION_UNREAD" \notin ignored =>
             Headed(EndOf(tx.script) + 4, tx.payload) /\ off = EndOf(tx.payload))'
      BY <2>1, <2>3, <3>1, <3>2 DEF Headed, Stands, EndOf
    <3>5. QED
      BY <2>3, <3>1, <3>3, <3>4 DEF HeaderInv, ScriptPc
  <2>4. QED
    BY <1>3, <2>2, <2>3
<1>8. QED
  BY <1>4, <1>5, <1>6, <1>7

(* Four bytes that are read stand where they were read.                    *)
LEMMA SubSeqStands ==
  ASSUME raw \in Bytes, NEW o \in Nat, o + 4 <= Len(raw)
  PROVE  Stands(o, SubSeq(raw, o + 1, o + 4)) /\ Len(SubSeq(raw, o + 1, o + 4)) = 4
<1> DEFINE m == o + 1
           n == o + 4
           s == SubSeq(raw, m, n)
<1>1. Len(raw) \in Nat
  BY LenProperties DEF Bytes
<1>2. \A i \in m .. n : raw[i] \in 0 .. 255
  <2>1. \A i \in m .. n : i \in 1 .. Len(raw)
    BY <1>1
  <2>2. QED
    BY <2>1, ElementOfSeq DEF Bytes
<1>3. /\ m \in Int /\ n \in Int /\ m <= n /\ n - m + 1 = 4
      /\ \A i \in 1 .. 4 : m + i - 1 = o + i
  OBVIOUS
<1> HIDE DEF m, n
<1>4. /\ s \in Seq(0 .. 255) /\ Len(s) = IF m <= n THEN n - m + 1 ELSE 0
      /\ \A i \in 1 .. n - m + 1 : s[i] = raw[m + i - 1]
  <2>1. m \in Int /\ n \in Int
    BY <1>3
  <2>2. QED
    BY <1>2, <2>1, SubSeqProperties
<1> HIDE DEF s
<1>5. Len(s) = 4 /\ \A i \in 1 .. 4 : s[i] = raw[o + i]
  BY <1>3, <1>4
<1>6. Stands(o, s) /\ Len(s) = 4
  BY <1>5 DEF Stands
<1>7. QED
  BY <1>6 DEF s, m, n

(* Every other step of the transaction.                                    *)
LEMMA RestHeader ==
  Inv /\ HeaderInv /\ (CheckLength \/ ReadExpiration \/ SetFields \/ JoinArg \/ JoinNothing)
    => HeaderInv'
<1> SUFFICES ASSUME Inv, HeaderInv,
                    CheckLength \/ ReadExpiration \/ SetFields \/ JoinArg \/ JoinNothing
             PROVE  HeaderInv'
  OBVIOUS
<1>1. /\ tx \in TxType /\ raw \in Bytes /\ off \in Nat
  BY DEF Inv, TypeInv, Bytes
<1>2. CASE CheckLength
  <2>1. /\ pc = "start" /\ UNCHANGED off
        /\ \/ pc' = "done" /\ status' \in {"LENGTH_OVERFLOW_ERROR", "LENGTH_ZERO_ERROR"}
           \/ pc' = "nexus" /\ UNCHANGED status
    BY <1>2 DEF CheckLength, Return
  <2>2. QED
    BY <2>1 DEF HeaderInv, ScriptPc
<1>3. CASE ReadExpiration
  <2> DEFINE ok == off + 4 <= Len(raw)
             four == IF ok THEN SubSeq(raw, off + 1, off + 4) ELSE <<0, 0, 0, 0>>
  <2>1. /\ pc = "expiration" /\ pc' = "payload" /\ UNCHANGED <<raw, status>>
        /\ off' = IF ok THEN off + 4 ELSE off
        /\ tx' = [tx EXCEPT !.expiration = four]
        /\ ignored' = IF ok THEN ignored ELSE ignored \cup {"EXPIRATION_UNREAD"}
    BY <1>3 DEF ReadExpiration
  <2>2. ThreeHeaded /\ off = EndOf(tx.script) /\ status # "PARSING_OK"
    BY <2>1 DEF HeaderInv
  <2> HIDE DEF four
  <2>3. /\ tx'.nexus = tx.nexus /\ tx'.chain = tx.chain /\ tx'.script = tx.script
        /\ tx'.expiration = four
    BY <1>1, <2>1 DEF TxType
  <2>4. ThreeHeaded'
    BY <2>1, <2>2, <2>3, HeadersKept
  <2>5. (/\ ExpirationRead
         /\ "EXPIRATION_UNREAD" \notin ignored => off = EndOf(tx.script) + 4)'
    <3>1. CASE ok
      <4>1. Stands(off, four)
        BY <1>1, <3>1, SubSeqStands DEF four
      <4>2. off' = off + 4
        BY <2>1, <3>1
      <4>3. QED
        BY <2>1, <2>2, <2>3, <4>1, <4>2 DEF ExpirationRead, Stands, EndOf
    <3>2. CASE ~ok
      BY <2>1, <3>2 DEF ExpirationRead
    <3>3. QED
      BY <3>1, <3>2
  <2>6. QED
    BY <2>1, <2>2, <2>4, <2>5 DEF HeaderInv, ScriptPc
<1>4. CASE SetFields \/ JoinArg \/ JoinNothing
  <2>1. /\ pc \in {"fields", "join"} /\ UNCHANGED <<raw, off, ignored>>
        /\ \/ pc' = "done"
           \/ pc' \in {"join", "overrun"} /\ UNCHANGED status
    <3>1. CASE SetFields
      BY <3>1 DEF SetFields, Return
    <3>2. CASE JoinArg
      BY <3>2 DEF JoinArg, Return, Overrun
    <3>3. CASE JoinNothing
      BY <3>3 DEF JoinNothing, Return, scriptVars
    <3>4. QED
      BY <1>4, <3>1, <3>2, <3>3
  <2>2. \A f \in {"nexus", "chain", "script", "payload", "expiration"} : tx'[f] = tx[f]
    <3>1. CASE SetFields
      BY <1>1, <3>1 DEF SetFields, TxType
    <3>2. CASE JoinArg \/ JoinNothing
      BY <3>2 DEF JoinArg, JoinNothing
    <3>3. QED
      BY <1>4, <3>1, <3>2
  <2>3. /\ status # "PARSING_OK" /\ ThreeHeaded /\ ExpirationRead
        /\ "EXPIRATION_UNREAD" \notin ignored =>
             Headed(EndOf(tx.script) + 4, tx.payload) /\ off = EndOf(tx.payload)
    BY <2>1 DEF HeaderInv
  <2>4. /\ tx'.nexus = tx.nexus /\ tx'.chain = tx.chain /\ tx'.script = tx.script
        /\ tx'.payload = tx.payload /\ tx'.expiration = tx.expiration
    BY <2>2
  <2>5. ThreeHeaded' /\ ExpirationRead'
    BY <2>1, <2>3, <2>4, HeadersKept
  <2>6. ("EXPIRATION_UNREAD" \notin ignored =>
           Headed(EndOf(tx.script) + 4, tx.payload) /\ off = EndOf(tx.payload))'
    BY <2>1, <2>3, <2>4 DEF Headed, Stands, EndOf
  <2>7. QED
    BY <2>1, <2>3, <2>5, <2>6 DEF HeaderInv, ScriptPc
<1>5. QED
  BY <1>2, <1>3, <1>4

(* Where the fields lie is an invariant of every behaviour.                *)
LEMMA HeaderInvariance == Spec => []HeaderInv
<1>1. Init => HeaderInv
  BY DEF Init, HeaderInv, ScriptPc
<1>2. Inv /\ HeaderInv /\ [Next]_vars => HeaderInv'
  <2> SUFFICES ASSUME Inv, HeaderInv, [Next]_vars PROVE HeaderInv'
    OBVIOUS
  <2>1. CASE ScriptStep
    <3>1. /\ pc \in ScriptPc /\ pc' \in ScriptPc \cup {"expiration", "overrun"}
          /\ UNCHANGED <<raw, status, off>>
          /\ tx'.nexus = tx.nexus /\ tx'.chain = tx.chain /\ tx'.script = tx.script
      BY <2>1, ScriptStepFrame
    <3>2. ThreeHeaded /\ off = EndOf(tx.script) /\ status # "PARSING_OK"
      BY <3>1 DEF HeaderInv, ScriptPc
    <3>3. ThreeHeaded' /\ (off = EndOf(tx.script))'
      BY <3>1, <3>2, HeadersKept DEF EndOf
    <3>4. QED
      BY <3>1, <3>2, <3>3 DEF HeaderInv, ScriptPc
  <2>2. CASE ReadNexus \/ ReadChain \/ ReadScript \/ ReadPayload
    BY <2>2, FieldsHeader
  <2>3. CASE CheckLength \/ ReadExpiration \/ SetFields \/ JoinArg \/ JoinNothing
    BY <2>3, RestHeader
  <2>4. CASE UNCHANGED vars
    <3>1. UNCHANGED <<raw, pc, status, off, tx, ignored>>
      BY <2>4 DEF vars, scriptVars
    <3>2. QED
      BY <3>1 DEF HeaderInv, ThreeHeaded, ExpirationRead, Headed, Stands, EndOf
  <2>5. QED
    BY <2>1, <2>2, <2>3, <2>4 DEF Next, TransactionStep, Returned
<1>3. QED
  BY <1>1, <1>2, Invariance, PTL DEF Spec

(* The texts of accepted fields, with their lengths, are shorter than what *)
(* they were read from or the same bytes.                                  *)
LEMMA HeadedText ==
  ASSUME raw \in Bytes, NEW o \in Nat, NEW f \in Slice, Headed(o, f)
  PROVE  LET s == LengthAndText(Text(f))
         IN  /\ s \in Bytes
             /\ o + Len(s) <= EndOf(f) /\ EndOf(f) \in Nat
             /\ o + Len(s) = EndOf(f) => Stands(o, s)
<1> DEFINE w == VarintWrite(f.len)
           t == Text(f)
<1>1. /\ f.len \in Nat \ {0} /\ f.len <= MAX_TRANSACTION_LEN /\ f.at \in Nat
      /\ o + Len(w) <= f.at /\ f.at + f.len <= Len(raw)
      /\ o + Len(w) = f.at => Stands(o, w)
  BY DEF Headed, EndOf, Slice
<1>2. w \in Bytes
  BY <1>1, VarintWriteType
<1>3. t \in Bytes /\ Len(t) = f.len
  BY TextType DEF Bytes
<1>4. Stands(f.at, t)
  BY <1>1, TextStands
<1> HIDE DEF t
<1>5. LengthAndText(t) = w \o t
  BY <1>3 DEF LengthAndText
<1> HIDE DEF w
<1>6. w \o t \in Bytes /\ Len(w \o t) = Len(w) + f.len
  <2>1. w \o t \in Bytes /\ Len(w \o t) = Len(w) + Len(t)
    BY <1>2, <1>3, BytesConcat
  <2>2. QED
    BY <1>3, <2>1
<1>7. Len(w) \in Nat
  BY <1>2, LenProperties DEF Bytes
<1>8. /\ o + Len(w \o t) <= f.at + f.len /\ f.at + f.len \in Nat
      /\ o + Len(w \o t) = f.at + f.len => o + Len(w) = f.at
  BY <1>1, <1>6, <1>7
<1>9. ASSUME o + Len(w) = f.at
      PROVE  Stands(o, w \o t)
  BY <1>1, <1>2, <1>3, <1>4, <1>9, StandsConcat
<1>10. QED
  BY <1>5, <1>6, <1>8, <1>9 DEF EndOf, t

(* What was accepted serializes to the bytes it was parsed from, or to     *)
(* fewer, whatever became of the script.                                   *)
THEOREM AcceptedRoundTrips == Spec => []RoundTrips
<1>1. Inv /\ HeaderInv => RoundTrips
  <2> SUFFICES ASSUME Inv, HeaderInv, status = "PARSING_OK",
                      "EXPIRATION_UNREAD" \notin ignored
               PROVE  LET again == Serialize(Text(tx.nexus), Text(tx.chain), Text(tx.script),
                                             tx.expiration, Text(tx.payload))
                      IN  /\ Len(again) <= off
                          /\ Len(again) = off => again = SubSeq(raw, 1, off)
    BY DEF RoundTrips
  <2> DEFINE n == LengthAndText(Text(tx.nexus))
             c == LengthAndText(Text(tx.chain))
             s == LengthAndText(Text(tx.script))
             e == tx.expiration
             p == LengthAndText(Text(tx.payload))
             o1 == EndOf(tx.nexus)
             o2 == EndOf(tx.chain)
             o3 == EndOf(tx.script)
  <2>1. /\ raw \in Bytes /\ off \in Nat
        /\ tx.nexus \in Slice /\ tx.chain \in Slice /\ tx.script \in Slice
        /\ tx.payload \in Slice /\ e \in [1 .. 4 -> 0 .. 255]
    BY DEF Inv, TypeInv, TxType, Bytes
  <2>2. /\ Headed(0, tx.nexus) /\ Headed(o1, tx.chain) /\ Headed(o2, tx.script)
        /\ Stands(o3, e) /\ Headed(o3 + 4, tx.payload) /\ off = EndOf(tx.payload)
    BY DEF HeaderInv, ThreeHeaded, ExpirationRead
  <2>3. e \in Bytes /\ Len(e) = 4
    BY <2>1, FourBytes
  <2>4. /\ n \in Bytes /\ 0 + Len(n) <= o1 /\ o1 \in Nat
        /\ 0 + Len(n) = o1 => Stands(0, n)
    BY <2>1, <2>2, HeadedText
  <2>5. /\ c \in Bytes /\ o1 + Len(c) <= o2 /\ o2 \in Nat
        /\ o1 + Len(c) = o2 => Stands(o1, c)
    BY <2>1, <2>2, <2>4, HeadedText
  <2>6. /\ s \in Bytes /\ o2 + Len(s) <= o3 /\ o3 \in Nat
        /\ o2 + Len(s) = o3 => Stands(o2, s)
    BY <2>1, <2>2, <2>5, HeadedText
  <2>7. /\ p \in Bytes /\ (o3 + 4) + Len(p) <= off
        /\ (o3 + 4) + Len(p) = off => Stands(o3 + 4, p)
    <3>1. o3 + 4 \in Nat
      BY <2>6
    <3>2. QED
      BY <2>1, <2>2, <3>1, HeadedText
  <2>8. Len(n) \in Nat /\ Len(c) \in Nat /\ Len(s) \in Nat /\ Len(p) \in Nat
    BY <2>4, <2>5, <2>6, <2>7, LenProperties DEF Bytes
  <2> DEFINE s2 == n \o c
             s3 == s2 \o s
             s4 == s3 \o e
             s5 == s4 \o p
  <2>9. Serialize(Text(tx.nexus), Text(tx.chain), Text(tx.script), e, Text(tx.payload)) = s5
    BY DEF Serialize
  <2> HIDE DEF n, c, s, e, p, o1, o2, o3
  <2>10. s2 \in Bytes /\ Len(s2) = Len(n) + Len(c)
    BY <2>4, <2>5, BytesConcat
  <2> HIDE DEF s2
  <2>11. s3 \in Bytes /\ Len(s3) = Len(s2) + Len(s)
    BY <2>6, <2>10, BytesConcat
  <2> HIDE DEF s3
  <2>12. s4 \in Bytes /\ Len(s4) = Len(s3) + 4
    <3>1. s4 \in Bytes /\ Len(s4) = Len(s3) + Len(e)
      BY <2>3, <2>11, BytesConcat
    <3>2. QED
      BY <2>3, <3>1
  <2> HIDE DEF s4
  <2>13. s5 \in Bytes /\ Len(s5) = Len(s4) + Len(p)
    BY <2>7, <2>12, BytesConcat
  <2> HIDE DEF s5
  <2>14. Len(s5) <= off
    BY <2>1, <2>4, <2>5, <2>6, <2>7, <2>8, <2>10, <2>11, <2>12, <2>13
  <2>15. ASSUME Len(s5) = off
         PROVE  s5 = SubSeq(raw, 1, off)
    <3>1. /\ 0 + Len(n) = o1 /\ o1 + Len(c) = o2 /\ o2 + Len(s) = o3
          /\ (o3 + 4) + Len(p) = off
      <4> DEFINE a == Len(n)
                 b == Len(c)
                 d == Len(s)
                 f == Len(p)
      <4>1. a \in Nat /\ b \in Nat /\ d \in Nat /\ f \in Nat
        BY <2>8
      <4>2. o1 \in Nat /\ o2 \in Nat /\ o3 \in Nat /\ off \in Nat
        BY <2>1, <2>4, <2>5, <2>6
      <4>3. /\ 0 + a <= o1 /\ o1 + b <= o2 /\ o2 + d <= o3 /\ (o3 + 4) + f <= off
        BY <2>4, <2>5, <2>6, <2>7
      <4>4. (((a + b) + d) + 4) + f = off
        BY <2>10, <2>11, <2>12, <2>13, <2>15
      <4> HIDE DEF a, b, d, f
      <4>5. 0 + a = o1 /\ o1 + b = o2 /\ o2 + d = o3 /\ (o3 + 4) + f = off
        BY <4>1, <4>2, <4>3, <4>4
      <4>6. QED
        BY <4>5 DEF a, b, d, f
    <3>2. /\ Stands(0, n) /\ Stands(o1, c) /\ Stands(o2, s)
          /\ Stands(o3, e) /\ Stands(o3 + 4, p)
      <4>1. /\ Stands(0, n) /\ Stands(o1, c) /\ Stands(o2, s)
            /\ Stands(o3 + 4, p)
        BY <2>4, <2>5, <2>6, <2>7, <3>1
      <4>2. Stands(o3, e)
        BY <2>2 DEF o3, e
      <4>3. QED
        BY <4>1, <4>2
    <3>3. /\ 0 + Len(s2) = o2 /\ 0 + Len(s3) = o3 /\ 0 + Len(s4) = o3 + 4
          /\ 0 + 1 = 1 /\ 0 + Len(s5) = off /\ 0 \in Nat
      <4>1. Len(s2) = o2 /\ o2 \in Nat
        BY <2>4, <2>5, <2>8, <2>10, <3>1
      <4>2. Len(s3) = o3 /\ o3 \in Nat
        BY <2>6, <2>8, <2>11, <3>1, <4>1
      <4>3. Len(s4) = o3 + 4
        BY <2>12, <4>2
      <4>4. Len(s5) = off /\ off \in Nat
        BY <2>1, <2>15
      <4>5. QED
        BY <4>1, <4>2, <4>3, <4>4
    <3>4. Stands(0, s2)
      <4>1. Stands(0 + Len(n), c) /\ 0 \in Nat
        BY <3>1, <3>2
      <4>2. Stands(0, n \o c)
        BY <2>1, <2>4, <2>5, <3>2, <4>1, StandsConcat
      <4>3. QED
        BY <4>2 DEF s2
    <3>5. Stands(0, s3)
      BY <2>1, <2>6, <2>10, <3>2, <3>3, <3>4, StandsConcat DEF s3
    <3>6. Stands(0, s4)
      BY <2>1, <2>3, <2>11, <3>2, <3>3, <3>5, StandsConcat DEF s4
    <3>7. Stands(0, s5)
      BY <2>1, <2>7, <2>12, <3>2, <3>3, <3>6, StandsConcat DEF s5
    <3>8. SubSeq(raw, 0 + 1, 0 + Len(s5)) = s5
      BY <2>1, <2>13, <3>3, <3>7, StandsIsSubSeq
    <3>9. QED
      BY <3>3, <3>8
  <2>16. QED
    BY <2>9, <2>14, <2>15 DEF e
<1>2. QED
  BY <1>1, Invariance, HeaderInvariance, PTL

-----------------------------------------------------------------------------
(* The room for a serialized transaction.                                  *)

(* A length takes one byte below 253, and three from there on.             *)
LEMMA HeadedLength ==
  ASSUME NEW t \in Bytes, Len(t) <= MAX_TRANSACTION_LEN
  PROVE  /\ LengthAndText(t) \in Bytes
         /\ Len(t) < 253 => Len(LengthAndText(t)) = Len(t) + 1
         /\ Len(t) >= 253 => Len(LengthAndText(t)) = Len(t) + 3
<1>1. Len(t) \in Nat
  BY LenProperties DEF Bytes
<1>2. /\ VarintWrite(Len(t)) \in Bytes
      /\ Len(t) < 253 => Len(VarintWrite(Len(t))) = 1
      /\ Len(t) >= 253 => Len(VarintWrite(Len(t))) = 3
  BY <1>1, VarintWriteType
<1> DEFINE w == VarintWrite(Len(t))
<1>3. w \in Bytes
  BY <1>2
<1> HIDE DEF w
<1>4. w \o t \in Bytes /\ Len(w \o t) = Len(w) + Len(t)
  BY <1>3, BytesConcat
<1>5. LengthAndText(t) = w \o t
  BY DEF LengthAndText, w
<1>6. /\ Len(t) < 253 => Len(w) = 1
      /\ Len(t) >= 253 => Len(w) = 3
  BY <1>2 DEF w
<1> DEFINE k == Len(t)
           l == Len(w)
<1>7. k \in Nat /\ (k < 253 => l = 1) /\ (k >= 253 => l = 3)
  BY <1>1, <1>6
<1>8. /\ k < 253 => l + k = k + 1
      /\ k >= 253 => l + k = k + 3
  <2> HIDE DEF k, l
  <2>1. QED
    BY <1>7
<1>9. QED
  BY <1>4, <1>5, <1>8, Zenon

(* A field within its limit.                                               *)
LEMMA FieldLength ==
  ASSUME NEW m \in Nat, NEW t \in Fields(m)
  PROVE  t \in Bytes /\ Len(t) \in Nat /\ Len(t) <= m
<1>1. t \in Bytes /\ Len(t) \in 1 .. m
  BY DEF Fields
<1>2. QED
  BY <1>1

(* Whatever the transaction, transaction_serialize writes more than the    *)
(* room it checks for: its payload, the length of that, the expiration     *)
(* and, behind a length of three bytes, two more.                          *)
THEOREM RoomFallsShort ==
  ASSUME NEW nexus \in Fields(NEXUS_LEN), NEW chain \in Fields(CHAIN_LEN),
         NEW script \in Fields(SCRIPT_LEN), NEW payload \in Fields(PAYLOAD_LEN),
         NEW expiration \in [1 .. 4 -> 0 .. 255]
  PROVE  Len(Serialize(nexus, chain, script, expiration, payload))
           = RoomAskedFor(nexus, chain, script) + Len(payload) + 5
               + (IF Len(script) < 253 THEN 0 ELSE 2)
<1>1. /\ NEXUS_LEN = 16 /\ CHAIN_LEN = 16 /\ SCRIPT_LEN = 924 /\ PAYLOAD_LEN = 64
      /\ MAX_TRANSACTION_LEN = 1020
  BY DEF NEXUS_LEN, CHAIN_LEN, SCRIPT_LEN, PAYLOAD_LEN, MAX_TRANSACTION_LEN
<1>2. /\ nexus \in Bytes /\ Len(nexus) \in Nat /\ Len(nexus) <= 16
      /\ chain \in Bytes /\ Len(chain) \in Nat /\ Len(chain) <= 16
      /\ script \in Bytes /\ Len(script) \in Nat /\ Len(script) <= 924
      /\ payload \in Bytes /\ Len(payload) \in Nat /\ Len(payload) <= 64
  BY <1>1, FieldLength
<1>3. /\ Len(nexus) < 253 /\ Len(nexus) <= MAX_TRANSACTION_LEN
      /\ Len(chain) < 253 /\ Len(chain) <= MAX_TRANSACTION_LEN
      /\ Len(payload) < 253 /\ Len(payload) <= MAX_TRANSACTION_LEN
      /\ Len(script) <= MAX_TRANSACTION_LEN
  <2> DEFINE i == Len(nexus)
             j == Len(chain)
             k == Len(script)
             l == Len(payload)
  <2>1. /\ i \in Nat /\ i <= 16 /\ j \in Nat /\ j <= 16
        /\ k \in Nat /\ k <= 924 /\ l \in Nat /\ l <= 64
    BY <1>2
  <2>2. /\ i < 253 /\ i <= MAX_TRANSACTION_LEN /\ j < 253 /\ j <= MAX_TRANSACTION_LEN
        /\ l < 253 /\ l <= MAX_TRANSACTION_LEN /\ k <= MAX_TRANSACTION_LEN
    <3> HIDE DEF i, j, k, l
    <3>1. QED
      BY <1>1, <2>1
  <2>3. QED
    BY <2>2
<1> DEFINE n == LengthAndText(nexus)
           c == LengthAndText(chain)
           s == LengthAndText(script)
           p == LengthAndText(payload)
           more == IF Len(script) < 253 THEN 0 ELSE 2
           nc == n \o c
           ncs == nc \o s
           ncse == ncs \o expiration
<1>4. n \in Bytes /\ Len(n) = Len(nexus) + 1
  BY <1>2, <1>3, HeadedLength
<1>5. c \in Bytes /\ Len(c) = Len(chain) + 1
  BY <1>2, <1>3, HeadedLength
<1>6. p \in Bytes /\ Len(p) = Len(payload) + 1
  BY <1>2, <1>3, HeadedLength
<1>7. s \in Bytes /\ Len(s) = Len(script) + 1 + more
  <2>1. /\ s \in Bytes
        /\ Len(script) < 253 => Len(s) = Len(script) + 1
        /\ Len(script) >= 253 => Len(s) = Len(script) + 3
    BY <1>2, <1>3, HeadedLength
  <2>2. Len(script) \in Nat
    BY <1>2
  <2> HIDE DEF s
  <2>3. CASE Len(script) < 253
    BY <2>1, <2>2, <2>3
  <2>4. CASE Len(script) >= 253
    BY <2>1, <2>2, <2>4
  <2>5. QED
    BY <2>2, <2>3, <2>4
<1>8. expiration \in Bytes /\ Len(expiration) = 4
  BY FourBytes
<1>9. Serialize(nexus, chain, script, expiration, payload) = ncse \o p
  BY DEF Serialize
<1> HIDE DEF n, c, s, p
<1>10. nc \in Bytes /\ Len(nc) = Len(n) + Len(c)
  BY <1>4, <1>5, BytesConcat
<1> HIDE DEF nc
<1>11. ncs \in Bytes /\ Len(ncs) = Len(nc) + Len(s)
  BY <1>7, <1>10, BytesConcat
<1> HIDE DEF ncs
<1>12. ncse \in Bytes /\ Len(ncse) = Len(ncs) + Len(expiration)
  BY <1>8, <1>11, BytesConcat
<1> HIDE DEF ncse
<1>13. Len(ncse \o p) = Len(ncse) + Len(p)
  BY <1>6, <1>12, BytesConcat
<1>14. more \in Nat
  OBVIOUS
<1> HIDE DEF more
<1>15. Len(Serialize(nexus, chain, script, expiration, payload))
         = ((((Len(nexus) + 1) + (Len(chain) + 1)) + (Len(script) + 1 + more)) + 4)
             + (Len(payload) + 1)
  BY <1>4, <1>5, <1>6, <1>7, <1>8, <1>9, <1>10, <1>11, <1>12, <1>13
<1>16. \A i, j, k, l, m \in Nat :
         ((((i + 1) + (j + 1)) + (k + 1 + m)) + 4) + (l + 1) = i + j + k + 3 + l + 5 + m
  OBVIOUS
<1>17. Len(nexus) \in Nat /\ Len(chain) \in Nat /\ Len(script) \in Nat /\ Len(payload) \in Nat
  BY <1>2
<1>18. Len(Serialize(nexus, chain, script, expiration, payload))
         = Len(nexus) + Len(chain) + Len(script) + 3 + Len(payload) + 5 + more
  BY <1>14, <1>15, <1>16, <1>17
<1>19. QED
  BY <1>18 DEF more, RoomAskedFor
=============================================================================
