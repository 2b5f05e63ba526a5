--------------------------- MODULE DeviceInfoProofs ---------------------------
(***************************************************************************)
(* Theorems about DeviceInfo, for any devices, records and requests, and   *)
(* any sizes of the fields: a stored line is read back as it was written,  *)
(* for every descriptor and name the file can hold, and the quirk leaves   *)
(* no pattern.                                                             *)
(***************************************************************************)
EXTENDS DeviceInfo, WellFoundedInduction, TLAPS

(***************************************************************************)
(* The quirk                                                               *)
(***************************************************************************)

LEMMA PatternLength == Size = 12
  BY DEF Size, Pattern

LEMMA PatternIs ==
  ASSUME NEW data \in Seq(Bytes), NEW i \in Nat, i + Size <= Len(data)
  PROVE  PatternAt(data, i) <=> \A c \in 1 .. Size : data[i + c] = Pattern[c]
<1> DEFINE s == SubSeq(data, i + 1, i + Size)
<1>1. Len(s) = 12 /\ (\A c \in 1 .. 12 : s[c] = data[i + c]) /\ s \in Seq(Bytes)
  BY PatternLength
<1>2. Pattern \in Seq(Bytes) /\ Len(Pattern) = 12
  BY DEF Pattern, Bytes
<1>3. s = Pattern <=> \A c \in 1 .. 12 : s[c] = Pattern[c]
  <2> HIDE DEF s
  <2>1. \A t, u \in Seq(Bytes) : Len(t) = 12 /\ Len(u) = 12 =>
          (t = u <=> \A c \in 1 .. 12 : t[c] = u[c])
    OBVIOUS
  <2> QED
    BY <1>1, <1>2, <2>1
<1> QED
  BY <1>1, <1>3, PatternLength DEF PatternAt

\* The first byte of the pattern stands nowhere else in it, nor in what replaces it.
LEMMA FirstByte ==
  /\ Pattern[1] = 5 /\ Fixed[1] = 5 /\ Pattern[6] # Fixed[6]
  /\ \A c \in 2 .. Size : Pattern[c] # 5 /\ Fixed[c] # 5
  /\ \A c \in 1 .. Size : Fixed[c] \in Bytes
<1>1. \A c \in 1 .. 12 : c = 1 \/ c = 2 \/ c = 3 \/ c = 4 \/ c = 5 \/ c = 6 \/ c = 7 \/ c = 8
                         \/ c = 9 \/ c = 10 \/ c = 11 \/ c = 12
  OBVIOUS
<1> QED
  BY <1>1, PatternLength DEF Pattern, Fixed, Bytes

LEMMA MaxOfOne == ASSUME NEW x \in Int PROVE Max({x}) = x
  BY DEF Max

\* No pattern is left in a descriptor of at least its length but at the very end.
LEMMA QuirkFixes ==
  ASSUME NEW data \in Seq(Bytes), Len(data) >= Size
  PROVE  /\ Quirk(data) \in Seq(Bytes) /\ Len(Quirk(data)) = Len(data)
         /\ \A i \in 0 .. Len(data) - Size - 1 : ~ PatternAt(Quirk(data), i)
<1> DEFINE n == Len(data) - Size - 1
           found(k) == {j \in 1 .. Size : k - j \in 0 .. n /\ PatternAt(data, k - j)}
           res == Quirk(data)
<1>1. /\ DOMAIN res = 1 .. Len(data)
      /\ \A k \in 1 .. Len(data) : res[k] = IF found(k) = {} THEN data[k] ELSE Fixed[Max(found(k))]
  BY DEF Quirk, FixedUpTo
<1> HIDE DEF res
<1>2. ASSUME NEW p \in 0 .. n, PatternAt(data, p), NEW c \in 1 .. Size
      PROVE  found(p + c) = {c} /\ res[p + c] = Fixed[c]
  <2>1. ASSUME NEW j \in found(p + c) PROVE j = c
    <3> DEFINE q == p + c - j
    <3>1. q \in 0 .. n /\ PatternAt(data, q) /\ j \in 1 .. Size
      OBVIOUS
    <3> HIDE DEF q
    <3>n. p \in Nat /\ q \in Nat /\ p + Size <= Len(data) /\ q + Size <= Len(data)
      BY <3>1, PatternLength
    <3>2. /\ \A e \in 1 .. Size : data[p + e] = Pattern[e]
          /\ \A e \in 1 .. Size : data[q + e] = Pattern[e]
      BY <1>2, <3>1, <3>n, PatternIs
    <3>3. CASE q > p
      <4>1. q + 1 - p \in 2 .. Size /\ p + (q + 1 - p) = q + 1
        BY <3>1, <3>3, PatternLength DEF q
      <4>2. data[q + 1] = Pattern[q + 1 - p] /\ data[q + 1] = Pattern[1]
        <5>1. 1 \in 1 .. Size /\ q + 1 - p \in 1 .. Size
          BY <4>1, PatternLength
        <5> QED
          BY <3>2, <4>1, <5>1
      <4> QED
        BY <4>1, <4>2, FirstByte
    <3>4. CASE q < p
      <4>1. p + 1 - q \in 2 .. Size /\ q + (p + 1 - q) = p + 1
        BY <3>1, <3>4, PatternLength DEF q
      <4>2. data[p + 1] = Pattern[p + 1 - q] /\ data[p + 1] = Pattern[1]
        <5>1. 1 \in 1 .. Size /\ p + 1 - q \in 1 .. Size
          BY <4>1, PatternLength
        <5> QED
          BY <3>2, <4>1, <5>1
      <4> QED
        BY <4>1, <4>2, FirstByte
    <3>5. CASE q = p
      BY <3>1, <3>5 DEF q
    <3> QED
      BY <3>n, <3>3, <3>4, <3>5
  <2>2. c \in found(p + c)
    BY <1>2, PatternLength
  <2>3. found(p + c) = {c}
    BY <2>1, <2>2
  <2>4. p + c \in 1 .. Len(data)
    BY PatternLength
  <2> HIDE DEF found
  <2>5. res[p + c] = Fixed[Max({c})]
    BY <1>1, <2>3, <2>4
  <2> QED
    BY <2>3, <2>5, MaxOfOne, PatternLength
<1>3. ASSUME NEW k \in 1 .. Len(data), NEW j \in found(k)
      PROVE  k - j \in 0 .. n /\ PatternAt(data, k - j) /\ j \in 1 .. Size /\ res[k] = Fixed[j]
  <2>1. k - j \in 0 .. n /\ PatternAt(data, k - j) /\ j \in 1 .. Size /\ k = (k - j) + j
    BY PatternLength
  <2> HIDE DEF n
  <2>2. res[(k - j) + j] = Fixed[j]
    BY <1>2, <2>1
  <2> QED
    BY <2>1, <2>2
<1>4. res \in Seq(Bytes) /\ Len(res) = Len(data)
  <2>1. ASSUME NEW k \in 1 .. Len(data) PROVE res[k] \in Bytes
    <3>1. CASE found(k) = {}
      <4>1. res[k] = data[k]
        BY <1>1, <3>1
      <4> QED
        BY <4>1
    <3>2. CASE found(k) # {}
      <4>1. PICK j : j \in found(k)
        BY <3>2
      <4>2. j \in 1 .. Size /\ res[k] = Fixed[j]
        BY <1>3, <4>1
      <4> QED
        BY <4>2, FirstByte
    <3> QED
      BY <3>1, <3>2
  <2>2. res = [k \in 1 .. Len(data) |-> res[k]]
    BY <1>1 DEF res, Quirk, FixedUpTo
  <2> QED
    BY <2>1, <2>2
<1>5. ASSUME NEW i \in 0 .. n, PatternAt(res, i) PROVE FALSE
  <2>1. i \in Nat /\ i + 12 <= Len(data)
    BY PatternLength
  <2>2. \A c \in 1 .. 12 : res[i + c] = Pattern[c]
    BY <1>4, <1>5, <2>1, PatternIs, PatternLength
  <2>3. CASE \E k \in i + 1 .. i + 12 : found(k) # {}
    <3>1. PICK k \in i + 1 .. i + 12 : found(k) # {}
      BY <2>3
    <3>2. PICK j \in 1 .. 12 : k - j \in 0 .. n /\ PatternAt(data, k - j)
      BY <3>1, PatternLength
    <3> DEFINE p == k - j
    <3>3. p \in 0 .. n /\ PatternAt(data, p) /\ p - i \in -11 .. 11 /\ p \in Nat
      BY <2>1, <3>2
    <3> HIDE DEF p, n
    <3>4. \A c \in 1 .. 12 : res[p + c] = Fixed[c]
      BY <1>2, <3>3, PatternLength
    <3>5. CASE p = i
      BY <2>2, <3>4, <3>5, FirstByte
    <3>6. CASE p < i
      <4>1. i + 1 - p \in 2 .. 12 /\ p + (i + 1 - p) = i + 1
        BY <2>1, <3>3, <3>6
      <4>2. PICK c \in 2 .. 12 : c = i + 1 - p /\ p + c = i + 1 /\ c \in 1 .. 12
        BY <4>1
      <4>3. res[p + c] = Fixed[c]
        BY <3>4, <4>2
      <4>4. 1 \in 1 .. 12
        OBVIOUS
      <4>5. res[i + 1] = Pattern[1]
        BY <2>2, <4>4
      <4>6. Fixed[c] # Pattern[1]
        BY FirstByte, PatternLength
      <4> QED
        BY <4>2, <4>3, <4>5, <4>6
    <3>7. CASE p > i
      <4>1. p + 1 - i \in 2 .. 12 /\ i + (p + 1 - i) = p + 1
        BY <2>1, <3>3, <3>7
      <4>2. PICK c \in 2 .. 12 : c = p + 1 - i /\ i + c = p + 1 /\ c \in 1 .. 12
        BY <4>1
      <4>3. res[i + c] = Pattern[c]
        BY <2>2, <4>2
      <4>4. 1 \in 1 .. 12
        OBVIOUS
      <4>5. res[p + 1] = Fixed[1]
        BY <3>4, <4>4
      <4>6. Pattern[c] # Fixed[1]
        BY FirstByte, PatternLength
      <4> QED
        BY <4>2, <4>3, <4>5, <4>6
    <3> QED
      BY <2>1, <3>3, <3>5, <3>6, <3>7
  <2>4. CASE \A k \in i + 1 .. i + 12 : found(k) = {}
    <3>1. \A c \in 1 .. 12 : data[i + c] = Pattern[c]
      <4> SUFFICES ASSUME NEW c \in 1 .. 12 PROVE data[i + c] = Pattern[c]
        OBVIOUS
      <4>1. i + c \in i + 1 .. i + 12 /\ i + c \in 1 .. Len(data)
        BY <2>1
      <4>2. res[i + c] = data[i + c]
        BY <1>1, <2>4, <4>1
      <4> QED
        BY <2>2, <4>2
    <3>2. PatternAt(data, i)
      BY <2>1, <3>1, PatternIs, PatternLength
    <3>3. 1 \in found(i + 1)
      BY <2>1, <3>2, PatternLength
    <3>4. i + 1 \in i + 1 .. i + 12
      BY <2>1
    <3> HIDE DEF found
    <3>5. found(i + 1) = {}
      BY <2>4, <3>4
    <3> QED
      BY <3>3, <3>5
  <2> QED
    BY <2>3, <2>4
<1> QED
  BY <1>4, <1>5 DEF res

(***************************************************************************)
(* Fields of a line                                                        *)
(***************************************************************************)

LEMMA LeastNumber ==
  ASSUME NEW S \in SUBSET Nat, S # {}
  PROVE  Min(S) \in S /\ \A y \in S : Min(S) <= y
<1> DEFINE R == OpToRel(<, Nat)
<1>1. \E x \in S : \A y \in S : ~ (<<y, x>> \in R)
  <2>1. IsWellFoundedOn(R, Nat)
    BY NatLessThanWellFounded
  <2> HIDE DEF R
  <2> QED
    BY <2>1, WFMin
<1>2. \A x, y \in Nat : ~ (<<y, x>> \in R) => x <= y
  BY DEF OpToRel
<1> HIDE DEF R
<1>3. \E x \in S : \A y \in S : x <= y
  BY <1>1, <1>2
<1> QED
  BY <1>3 DEF Min

LEMMA GreatestNumber ==
  ASSUME NEW m \in Nat, NEW S \in SUBSET (0 .. m), S # {}
  PROVE  Max(S) \in S /\ \A y \in S : Max(S) >= y
<1> DEFINE T == {k \in Nat : m - k \in S}
<1>1. T \in SUBSET Nat /\ T # {}
  <2>1. PICK x \in S : TRUE
    OBVIOUS
  <2>2. m - x \in Nat /\ m - (m - x) = x
    OBVIOUS
  <2> QED
    BY <2>2
<1>2. PICK x \in T : \A y \in T : x <= y
  <2> HIDE DEF T
  <2> QED
    BY <1>1, LeastNumber
<1>3. \A y \in S : m - x >= y
  <2> SUFFICES ASSUME NEW y \in S PROVE m - x >= y
    OBVIOUS
  <2>1. m - y \in Nat /\ m - (m - y) = y
    OBVIOUS
  <2>2. x <= m - y
    BY <1>2, <2>1
  <2> QED
    BY <2>2
<1>4. \E z \in S : \A y \in S : z >= y
  BY <1>3
<1> QED
  BY <1>4 DEF Max

\* Blanks are skipped, and nothing else.
LEMMA SkipIs ==
  ASSUME NEW t \in Text, NEW i \in 1 .. Len(t) + 1
  PROVE  /\ Skip(t, i) \in i .. Len(t) + 1
         /\ Skip(t, i) <= Len(t) => t[Skip(t, i)] # Blank
         /\ \A k \in i .. Skip(t, i) - 1 : t[k] = Blank
<1> DEFINE S == {k \in i .. Len(t) + 1 : k > Len(t) \/ t[k] # Blank}
<1>1. S \in SUBSET Nat /\ Len(t) + 1 \in S
  BY DEF Text
<1>2. Skip(t, i) \in S /\ \A y \in S : Skip(t, i) <= y
  <2> HIDE DEF S
  <2>1. Min(S) \in S /\ \A y \in S : Min(S) <= y
    BY <1>1, LeastNumber
  <2> QED
    BY <2>1 DEF Skip, S
<1> DEFINE s == Skip(t, i)
<1> HIDE DEF s
<1>3. s \in i .. Len(t) + 1 /\ (s > Len(t) \/ t[s] # Blank)
  BY <1>2 DEF s
<1>4. ASSUME NEW k \in i .. s - 1 PROVE t[k] = Blank
  <2>1. k \in i .. Len(t) + 1 /\ k < s /\ k <= Len(t)
    BY <1>3 DEF Text
  <2>2. k \notin S
    BY <1>2, <2>1 DEF s
  <2> QED
    BY <2>1, <2>2
<1> QED
  BY <1>3, <1>4 DEF s, Text

\* A field ends at its width, at the end of the line, or before a character that
\* does not belong to it.
LEMMA FieldEndIs ==
  ASSUME NEW t \in Text, NEW i \in 1 .. Len(t) + 1, NEW n \in Nat, NEW m \in Nat,
         NEW e, e = FieldEnd(t, i, n, m)
  PROVE  /\ e \in i - 1 .. Len(t) /\ e <= i + n - 1
         /\ \A j \in i .. e : t[j] <= m
         /\ e < i + n - 1 /\ e < Len(t) => t[e + 1] > m
<1> DEFINE last == Min({i + n - 1, Len(t)})
           S == {k \in i - 1 .. last : \A j \in i .. k : t[j] <= m}
<1>0. Len(t) \in Nat /\ i \in Nat /\ \A k \in 1 .. Len(t) : t[k] \in Nat
  <2> DEFINE K == 0 .. 17
  <2>1. t \in Seq(K)
    BY DEF Text, Blank
  <2>2. \A k \in K : k \in Nat
    OBVIOUS
  <2> HIDE DEF K
  <2>3. Len(t) \in Nat /\ \A k \in 1 .. Len(t) : t[k] \in K
    BY <2>1
  <2>4. i \in Nat
    BY <2>3
  <2> QED
    BY <2>2, <2>3, <2>4
<1>1. last \in {i + n - 1, Len(t)} /\ last <= i + n - 1 /\ last <= Len(t) /\ last >= i - 1
  <2> DEFINE P == {i + n - 1, Len(t)}
  <2>1. P \in SUBSET Nat /\ P # {}
    BY <1>0
  <2> HIDE DEF P
  <2>2. Min(P) \in P /\ \A y \in P : Min(P) <= y
    BY <2>1, LeastNumber
  <2> QED
    BY <1>0, <2>2 DEF P
<1> HIDE DEF last
<1>2. S \in SUBSET (0 .. Len(t)) /\ i - 1 \in S
  <2>1. \A j \in i .. i - 1 : FALSE
    BY <1>0
  <2> QED
    BY <1>0, <1>1, <2>1
<1>3. e \in S /\ \A y \in S : e >= y
  <2> HIDE DEF S
  <2>1. Max(S) \in S /\ \A y \in S : Max(S) >= y
    BY <1>0, <1>2, GreatestNumber
  <2> QED
    BY <2>1 DEF FieldEnd, S, last
<1>4. e \in i - 1 .. last /\ \A j \in i .. e : t[j] <= m
  BY <1>3
<1>5. ASSUME e < i + n - 1, e < Len(t) PROVE t[e + 1] > m
  <2>0. e + 1 \in 1 .. Len(t) /\ t[e + 1] \in Nat
    <3>1. e + 1 \in 1 .. Len(t)
      BY <1>0, <1>1, <1>4, <1>5
    <3> QED
      BY <1>0, <3>1
  <2> SUFFICES ASSUME t[e + 1] <= m PROVE FALSE
    BY <2>0
  <2>1. e + 1 \in i - 1 .. last
    BY <1>0, <1>1, <1>4, <1>5
  <2>2. \A j \in i .. e + 1 : j \in i .. e \/ j = e + 1
    BY <1>0, <1>1, <1>4
  <2>3. e + 1 \in S
    BY <1>4, <2>1, <2>2
  <2>4. e >= e + 1
    <3> HIDE DEF S
    <3> QED
      BY <1>3, <2>3
  <2>5. e \in Int
    BY <1>0, <1>4
  <2> QED
    BY <2>4, <2>5
<1> QED
  BY <1>0, <1>1, <1>4, <1>5

\* What %X prints of the flags: at most eight digits, the first not 0.
Normal(f) == Len(f) <= FlagDigits /\ (f # <<>> => f[1] # 0)

\* One row behind another.
LEMMA Joined ==
  ASSUME NEW s \in Text, NEW t \in Text
  PROVE  /\ s \o t \in Text /\ Len(s \o t) = Len(s) + Len(t)
         /\ \A i \in 1 .. Len(s) : (s \o t)[i] = s[i]
         /\ \A i \in 1 .. Len(t) : (s \o t)[Len(s) + i] = t[i]
<1> DEFINE K == 0 .. Blank
<1>1. s \in Seq(K) /\ t \in Seq(K)
  BY DEF Text
<1> HIDE DEF K
<1>2. s \o t \in Seq(K) /\ Len(s \o t) = Len(s) + Len(t)
  BY <1>1
<1>3. \A i \in 1 .. Len(s) : (s \o t)[i] = s[i]
  BY <1>1
<1>4. \A i \in 1 .. Len(t) : (s \o t)[Len(s) + i] = t[i]
  BY <1>1
<1> QED
  BY <1>2, <1>3, <1>4 DEF K, Text

\* The digits of a descriptor, two for a byte.
LEMMA HexIs ==
  ASSUME NEW rd \in Seq(Bytes)
  PROVE  /\ Hex(rd) \in Seq(0 .. 15) /\ Len(Hex(rd)) = 2 * Len(rd)
         /\ \A i \in 1 .. Len(rd) : 16 * Hex(rd)[2 * i - 1] + Hex(rd)[2 * i] = rd[i]
<1>0. Len(rd) \in Nat /\ \A i \in 1 .. Len(rd) : rd[i] \in 0 .. 255
  <2>1. \A i \in 1 .. Len(rd) : rd[i] \in Bytes
    OBVIOUS
  <2> QED
    BY <2>1 DEF Bytes
<1>1. \A i \in 1 .. 2 * Len(rd) : (i + 1) \div 2 \in 1 .. Len(rd)
  BY <1>0
<1>2. \A b \in 0 .. 255 : /\ b \div 16 \in 0 .. 15 /\ b % 16 \in 0 .. 15
                          /\ 16 * (b \div 16) + (b % 16) = b
  <2> SUFFICES ASSUME NEW b \in Int, 0 <= b, b <= 255
               PROVE  /\ b \div 16 \in 0 .. 15 /\ b % 16 \in 0 .. 15
                      /\ 16 * (b \div 16) + (b % 16) = b
    OBVIOUS
  <2>1. b = 16 * (b \div 16) + (b % 16)
    OBVIOUS
  <2>2. 0 <= b % 16 /\ b % 16 < 16 /\ b % 16 \in Int /\ b \div 16 \in Int
    OBVIOUS
  <2> QED
    BY <2>1, <2>2
<1>3. ASSUME NEW i \in 1 .. 2 * Len(rd)
      PROVE  (IF i % 2 = 1 THEN rd[(i + 1) \div 2] \div 16 ELSE rd[(i + 1) \div 2] % 16) \in 0 .. 15
  <2>1. rd[(i + 1) \div 2] \in 0 .. 255
    BY <1>0, <1>1
  <2> QED
    BY <1>2, <2>1
<1>4. Hex(rd) = [i \in 1 .. 2 * Len(rd) |->
                   IF i % 2 = 1 THEN rd[(i + 1) \div 2] \div 16 ELSE rd[(i + 1) \div 2] % 16]
  BY DEF Hex
<1>5. Hex(rd) \in Seq(0 .. 15) /\ Len(Hex(rd)) = 2 * Len(rd)
  BY <1>0, <1>3, <1>4
<1>6. ASSUME NEW i \in 1 .. Len(rd)
      PROVE  16 * Hex(rd)[2 * i - 1] + Hex(rd)[2 * i] = rd[i]
  <2>1. /\ 2 * i - 1 \in 1 .. 2 * Len(rd) /\ 2 * i \in 1 .. 2 * Len(rd)
        /\ (2 * i - 1) % 2 = 1 /\ (2 * i) % 2 = 0
        /\ (2 * i - 1 + 1) \div 2 = i /\ (2 * i + 1) \div 2 = i
    BY <1>0
  <2>2. Hex(rd)[2 * i - 1] = rd[i] \div 16 /\ Hex(rd)[2 * i] = rd[i] % 16
    BY <1>4, <2>1
  <2> QED
    BY <1>0, <1>2, <2>2
<1> QED
  BY <1>5, <1>6

LEMMA PadIs ==
  ASSUME NEW f \in Seq(0 .. 15), Len(f) <= FlagDigits
  PROVE  /\ Pad(f) \in Seq(0 .. 15) /\ Len(Pad(f)) = 8
         /\ \A i \in 1 .. 8 - Len(f) : Pad(f)[i] = 0
         /\ \A i \in 1 .. Len(f) : Pad(f)[8 - Len(f) + i] = f[i]
<1> DEFINE z == [i \in 1 .. FlagDigits - Len(f) |-> 0]
<1>1. z \in Seq(0 .. 15) /\ Len(z) = 8 - Len(f) /\ \A i \in 1 .. 8 - Len(f) : z[i] = 0
  BY DEF FlagDigits
<1>2. Pad(f) = z \o f
  BY DEF Pad
<1> HIDE DEF z
<1> QED
  BY <1>1, <1>2

\* The text of a line, place by place.
LineShape(req, t, h) ==
  /\ t \in Text /\ Len(t) = h + 10 + Len(req.name) /\ h \in Nat
  /\ \A i \in 1 .. h : t[i] = Hex(req.rd)[i]
  /\ t[h + 1] = Blank /\ t[h + 10] = Blank
  /\ \A i \in 1 .. 8 : t[h + 1 + i] = Pad(req.flags)[i]
  /\ \A i \in 1 .. Len(req.name) : t[h + 10 + i] = req.name[i]

LEMMA LineText ==
  ASSUME NEW req \in Reqs, Len(req.flags) <= FlagDigits,
         NEW h, h = 2 * Len(req.rd), NEW t, t = Line(req).text
  PROVE  LineShape(req, t, h)
<1> DEFINE x == Hex(req.rd)  p == Pad(req.flags)  B == <<Blank>>
<1>1. req.rd \in Seq(Bytes) /\ req.flags \in Seq(0 .. 15) /\ req.name \in Text
  BY DEF Reqs
<1>d. \A s \in Seq(0 .. 15) : s \in Text
  BY DEF Blank, Text
<1>2. x \in Text /\ Len(x) = h /\ h \in Nat
  <2>1. x \in Seq(0 .. 15) /\ Len(x) = 2 * Len(req.rd)
    BY <1>1, HexIs
  <2>2. Len(req.rd) \in Nat
    BY <1>1
  <2> HIDE DEF x
  <2> QED
    BY <1>d, <2>1, <2>2
<1>3. p \in Text /\ Len(p) = 8
  BY <1>1, <1>d, PadIs
<1>4. B \in Text /\ Len(B) = 1 /\ B[1] = Blank
  BY DEF Blank, Text
<1>5. t = x \o B \o p \o B \o req.name
  BY DEF Line
<1> DEFINE n == req.name
<1>6. n \in Text /\ Len(n) \in Nat
  BY <1>1 DEF Text
<1> HIDE DEF x, p, B, n
<1> DEFINE u == x \o B
<1>7. u \in Text /\ Len(u) = h + 1 /\ u[h + 1] = Blank /\ \A i \in 1 .. h : u[i] = x[i]
  <2>1. /\ u \in Text /\ Len(u) = Len(x) + Len(B)
        /\ \A i \in 1 .. Len(x) : u[i] = x[i]
        /\ \A i \in 1 .. Len(B) : u[Len(x) + i] = B[i]
    BY <1>2, <1>4, Joined
  <2> HIDE DEF u
  <2> QED
    BY <1>2, <1>4, <2>1
<1> HIDE DEF u
<1> DEFINE v == u \o p
<1>8. /\ v \in Text /\ Len(v) = h + 9 /\ v[h + 1] = Blank
      /\ \A i \in 1 .. h : v[i] = x[i]
      /\ \A i \in 1 .. 8 : v[h + 1 + i] = p[i]
  <2>1. /\ v \in Text /\ Len(v) = Len(u) + Len(p)
        /\ \A i \in 1 .. Len(u) : v[i] = u[i]
        /\ \A i \in 1 .. Len(p) : v[Len(u) + i] = p[i]
    BY <1>2, <1>3, <1>7, Joined
  <2> HIDE DEF v
  <2> QED
    <3>1. h + 1 \in 1 .. h + 1 /\ \A i \in 1 .. h : i \in 1 .. h + 1
      BY <1>2
    <3>2. v[h + 1] = Blank /\ \A i \in 1 .. h : v[i] = x[i]
      BY <1>7, <2>1, <3>1
    <3>3. Len(v) = h + 9
      BY <1>2, <1>3, <1>7, <2>1
    <3>4. \A i \in 1 .. 8 : v[h + 1 + i] = p[i]
      BY <1>3, <1>7, <2>1
    <3> QED
      BY <2>1, <3>2, <3>3, <3>4
<1> HIDE DEF v
<1> DEFINE w == v \o B
<1>9. /\ w \in Text /\ Len(w) = h + 10 /\ w[h + 1] = Blank /\ w[h + 10] = Blank
      /\ \A i \in 1 .. h : w[i] = x[i]
      /\ \A i \in 1 .. 8 : w[h + 1 + i] = p[i]
  <2>1. /\ w \in Text /\ Len(w) = Len(v) + Len(B)
        /\ \A i \in 1 .. Len(v) : w[i] = v[i]
        /\ \A i \in 1 .. Len(B) : w[Len(v) + i] = B[i]
    BY <1>2, <1>4, <1>8, Joined
  <2> HIDE DEF w
  <2> QED
    <3>1. /\ h + 1 \in 1 .. h + 9 /\ \A i \in 1 .. h : i \in 1 .. h + 9
          /\ \A i \in 1 .. 8 : h + 1 + i \in 1 .. h + 9
      BY <1>2
    <3>2. /\ w[h + 1] = Blank /\ \A i \in 1 .. h : w[i] = x[i]
          /\ \A i \in 1 .. 8 : w[h + 1 + i] = p[i]
      BY <1>8, <2>1, <3>1
    <3>3. Len(w) = h + 10
      BY <1>2, <1>4, <1>8, <2>1
    <3>4. w[h + 10] = Blank
      <4>1. w[h + 9 + 1] = B[1]
        BY <1>4, <1>8, <2>1
      <4>2. h + 9 + 1 = h + 10
        BY <1>2
      <4> QED
        BY <1>4, <4>1, <4>2
    <3> QED
      BY <2>1, <3>2, <3>3, <3>4
<1> HIDE DEF w
<1>10. t = w \o n
  BY <1>5 DEF u, v, w, n
<1>11. /\ t \in Text /\ Len(t) = h + 10 + Len(n)
       /\ \A i \in 1 .. h + 10 : t[i] = w[i]
       /\ \A i \in 1 .. Len(n) : t[h + 10 + i] = n[i]
  <2>1. /\ w \o n \in Text /\ Len(w \o n) = Len(w) + Len(n)
        /\ \A i \in 1 .. Len(w) : (w \o n)[i] = w[i]
        /\ \A i \in 1 .. Len(n) : (w \o n)[Len(w) + i] = n[i]
    BY <1>6, <1>9, Joined
  <2> QED
    BY <1>2, <1>6, <1>9, <1>10, <2>1
<1>12. /\ t[h + 1] = Blank /\ t[h + 10] = Blank
       /\ \A i \in 1 .. h : t[i] = x[i]
       /\ \A i \in 1 .. 8 : t[h + 1 + i] = p[i]
  <2>1. /\ h + 1 \in 1 .. h + 10 /\ h + 10 \in 1 .. h + 10 /\ \A i \in 1 .. h : i \in 1 .. h + 10
        /\ \A i \in 1 .. 8 : h + 1 + i \in 1 .. h + 10
    BY <1>2
  <2> QED
    BY <1>9, <1>11, <2>1
<1> QED
  BY <1>2, <1>11, <1>12 DEF LineShape, x, p, n

\* Where the number in a row of digits begins.
LEMMA FirstDigit ==
  ASSUME NEW f \in Seq(0 .. 15),
         NEW m, m = Min({k \in 1 .. Len(f) + 1 : k > Len(f) \/ f[k] # 0})
  PROVE  /\ m \in 1 .. Len(f) + 1 /\ (m <= Len(f) => f[m] # 0)
         /\ \A k \in 1 .. m - 1 : f[k] = 0
<1> DEFINE S == {k \in 1 .. Len(f) + 1 : k > Len(f) \/ f[k] # 0}
<1>0. Len(f) \in Nat
  OBVIOUS
<1>1. S \in SUBSET Nat /\ Len(f) + 1 \in S
  BY <1>0
<1>2. m \in S /\ \A y \in S : m <= y
  <2> HIDE DEF S
  <2>1. Min(S) \in S /\ \A y \in S : Min(S) <= y
    BY <1>1, LeastNumber
  <2> QED
    BY <2>1 DEF S
<1>3. m \in 1 .. Len(f) + 1 /\ (m > Len(f) \/ f[m] # 0)
  BY <1>2
<1>4. ASSUME NEW k \in 1 .. m - 1 PROVE f[k] = 0
  <2>1. k \in 1 .. Len(f) + 1 /\ k < m /\ k <= Len(f)
    BY <1>0, <1>3
  <2>2. k \notin S
    <3> HIDE DEF S
    <3>1. m \in Int /\ k \in Int
      BY <1>0, <1>3
    <3> QED
      BY <1>2, <2>1, <3>1
  <2> QED
    BY <2>1, <2>2
<1> QED
  BY <1>0, <1>3, <1>4

\* A part of a row.
LEMMA PartIs ==
  ASSUME NEW m \in Nat, NEW s \in Seq(0 .. m), NEW a \in 1 .. Len(s) + 1, NEW b \in a - 1 .. Len(s)
  PROVE  /\ SubSeq(s, a, b) \in Seq(0 .. m) /\ Len(SubSeq(s, a, b)) = b - a + 1
         /\ \A i \in 1 .. b - a + 1 : SubSeq(s, a, b)[i] = s[a + i - 1]
<1> DEFINE K == 0 .. m
<1>1. s \in Seq(K) /\ Len(s) \in Nat
  OBVIOUS
<1> HIDE DEF K
<1>2. Len(SubSeq(s, a, b)) = b - a + 1
  BY <1>1
<1>3. \A i \in 1 .. b - a + 1 : SubSeq(s, a, b)[i] = s[a + i - 1]
  BY <1>1
<1>4. SubSeq(s, a, b) \in Seq(K)
  <2>1. \A i \in 1 .. b - a + 1 : a + i - 1 \in 1 .. Len(s)
    BY <1>1
  <2>2. SubSeq(s, a, b) = [i \in 1 .. b - a + 1 |-> s[a + i - 1]] /\ b - a + 1 \in Nat
    BY <1>1
  <2> QED
    BY <1>1, <2>1, <2>2
<1> QED
  BY <1>2, <1>3, <1>4 DEF K

LEMMA UpToEight ==
  ASSUME NEW f \in Seq(0 .. 15), Len(f) <= FlagDigits
  PROVE  Len(f) \in 0 .. 8
<1>1. PICK l \in Nat : l = Len(f)
  OBVIOUS
<1>2. l <= 8
  BY <1>1 DEF FlagDigits
<1>3. l \in 0 .. 8
  BY <1>2
<1> QED
  BY <1>1, <1>3

LEMMA NumberIs ==
  ASSUME NEW f \in Seq(0 .. 15), Len(f) <= FlagDigits
  PROVE  Number(f) \in Seq(0 .. 15) /\ Normal(Number(f))
<1> DEFINE m == Min({k \in 1 .. Len(f) + 1 : k > Len(f) \/ f[k] # 0})
           n == Number(f)
<1>1. m \in 1 .. Len(f) + 1 /\ (m <= Len(f) => f[m] # 0)
  BY FirstDigit
<1>2. n = SubSeq(f, m, Len(f))
  BY DEF Number
<1> HIDE DEF m, n
<1>3. n \in Seq(0 .. 15) /\ Len(n) = Len(f) - m + 1 /\ (n # <<>> => n[1] = f[m])
  BY <1>1, <1>2
<1>4. n # <<>> => m <= Len(f)
  BY <1>1, <1>3
<1>5. Len(f) \in 0 .. 8
  BY UpToEight
<1>6. Len(n) <= 8
  <2>1. \A l \in 0 .. 8 : \A i \in 1 .. l + 1 : l - i + 1 <= 8
    OBVIOUS
  <2> QED
    BY <1>1, <1>3, <1>5, <2>1
<1>7. n # <<>> => n[1] # 0
  BY <1>1, <1>3, <1>4
<1> QED
  BY <1>3, <1>6, <1>7 DEF Normal, FlagDigits, n

\* The number is read back as it was printed.
LEMMA PadNumber ==
  ASSUME NEW f \in Seq(0 .. 15), Normal(f)
  PROVE  Number(Pad(f)) = f
<1> DEFINE p == Pad(f)
           m == Min({k \in 1 .. Len(p) + 1 : k > Len(p) \/ p[k] # 0})
<1>0. Len(f) \in 0 .. 8 /\ (f # <<>> => f[1] # 0)
  <2>1. Len(f) <= 8 /\ (f # <<>> => f[1] # 0)
    BY DEF Normal, FlagDigits
  <2>2. Len(f) \in 0 .. 8
    BY UpToEight DEF Normal
  <2> QED
    BY <2>1, <2>2
<1>1. /\ p \in Seq(0 .. 15) /\ Len(p) = 8
      /\ \A i \in 1 .. 8 - Len(f) : p[i] = 0
      /\ \A i \in 1 .. Len(f) : p[8 - Len(f) + i] = f[i]
  BY PadIs DEF Normal
<1>2. Number(p) = SubSeq(p, m, Len(p))
  BY DEF Number
<1> HIDE DEF p
<1>3. /\ m \in 1 .. Len(p) + 1 /\ (m <= Len(p) => p[m] # 0)
      /\ \A k \in 1 .. m - 1 : p[k] = 0
  BY <1>1, FirstDigit
<1> HIDE DEF m
<1>4. m = 8 - Len(f) + 1
  <2>1. ~ m <= 8 - Len(f)
    BY <1>0, <1>1, <1>3
  <2>2. CASE f = <<>>
    BY <1>0, <1>1, <1>3, <2>1, <2>2
  <2>3. CASE f # <<>>
    <3>1. 1 \in 1 .. Len(f)
      BY <1>0, <2>3
    <3>2. p[8 - Len(f) + 1] # 0
      BY <1>0, <1>1, <2>3, <3>1
    <3>3. ~ m > 8 - Len(f) + 1
      <4> DEFINE k == 8 - Len(f) + 1
      <4>1. k \in 1 .. 9 /\ m \in 1 .. 9
        <5>1. \A l \in 0 .. 8 : 8 - l + 1 \in 1 .. 9
          OBVIOUS
        <5>2. k \in 1 .. 9
          BY <1>0, <5>1
        <5>3. m \in 1 .. 9
          BY <1>1, <1>3
        <5> QED
          BY <5>2, <5>3
      <4> HIDE DEF k
      <4>2. ASSUME m > k PROVE p[k] = 0
        <5>1. k \in 1 .. m - 1
          BY <4>1, <4>2
        <5> QED
          BY <1>3, <5>1
      <4>3. ~ m > k
        BY <3>2, <4>2 DEF k
      <4> QED
        BY <4>3 DEF k
    <3> QED
      BY <1>0, <1>1, <1>3, <2>1, <3>3
  <2> QED
    BY <2>2, <2>3
<1> DEFINE n == SubSeq(p, 8 - Len(f) + 1, 8)
<1>5. n \in Seq(0 .. 15) /\ Len(n) = Len(f) /\ \A i \in 1 .. Len(f) : n[i] = p[8 - Len(f) + i]
  <2>1. PICK a \in 1 .. 9 : a = 8 - Len(f) + 1
    <3>1. \A l \in 0 .. 8 : 8 - l + 1 \in 1 .. 9
      OBVIOUS
    <3> QED
      BY <1>0, <3>1
  <2>2. n = SubSeq(p, a, 8)
    BY <2>1
  <2>3. /\ SubSeq(p, a, 8) \in Seq(0 .. 15) /\ Len(SubSeq(p, a, 8)) = 8 - a + 1
        /\ \A i \in 1 .. 8 - a + 1 : SubSeq(p, a, 8)[i] = p[a + i - 1]
    <3>1. 15 \in Nat /\ a \in 1 .. Len(p) + 1 /\ 8 \in a - 1 .. Len(p)
      BY <1>1
    <3>2. p \in Seq(0 .. 15)
      BY <1>1
    <3> QED
      BY <3>1, <3>2, PartIs
  <2>4. 8 - a + 1 = Len(f) /\ \A i \in 1 .. Len(f) : a + i - 1 = 8 - Len(f) + i
    BY <1>0, <2>1
  <2> HIDE DEF n
  <2> QED
    BY <2>2, <2>3, <2>4
<1>6. n = f
  <2> HIDE DEF n
  <2> QED
    BY <1>1, <1>5
<1> QED
  BY <1>1, <1>2, <1>4, <1>6 DEF p

LEMMA SeqFrom ==
  ASSUME NEW K, NEW l \in Nat, NEW u, u = [i \in 1 .. l |-> u[i]], \A i \in 1 .. l : u[i] \in K
  PROVE  u \in Seq(K) /\ Len(u) = l
<1> DEFINE w == [i \in 1 .. l |-> u[i]]
<1>1. w \in Seq(K) /\ Len(w) = l
  OBVIOUS
<1> HIDE DEF w
<1>2. u = w
  BY DEF w
<1> QED
  BY <1>1, <1>2

LEMMA SeqHas == ASSUME NEW K, NEW u \in Seq(K) PROVE \A i \in 1 .. Len(u) : u[i] \in K
  OBVIOUS

LEMMA TextPart ==
  ASSUME NEW t \in Text, NEW a \in 1 .. Len(t) + 1, NEW b \in a - 1 .. Len(t)
  PROVE  /\ SubSeq(t, a, b) \in Text /\ Len(SubSeq(t, a, b)) = b - a + 1
         /\ \A i \in 1 .. b - a + 1 : SubSeq(t, a, b)[i] = t[a + i - 1]
         /\ (\A j \in a .. b : t[j] <= 15) => SubSeq(t, a, b) \in Seq(0 .. 15)
<1>1. t \in Seq(0 .. 17)
  BY DEF Text, Blank
<1>2. /\ SubSeq(t, a, b) \in Seq(0 .. 17) /\ Len(SubSeq(t, a, b)) = b - a + 1
      /\ \A i \in 1 .. b - a + 1 : SubSeq(t, a, b)[i] = t[a + i - 1]
  BY <1>1, PartIs
<1>3. ASSUME \A j \in a .. b : t[j] <= 15
      PROVE  SubSeq(t, a, b) \in Seq(0 .. 15)
  <2> DEFINE u == SubSeq(t, a, b)
  <2>0. Len(t) \in Nat /\ a \in Int /\ b \in Int
    BY <1>1
  <2>1. ASSUME NEW i \in 1 .. b - a + 1 PROVE u[i] \in 0 .. 15
    <3>1. a + i - 1 \in a .. b /\ a + i - 1 \in 1 .. Len(t)
      BY <2>0
    <3>2. t[a + i - 1] <= 15 /\ t[a + i - 1] \in 0 .. 17
      BY <1>1, <1>3, <3>1
    <3> QED
      BY <1>2, <3>2
  <2>2. u \in Seq(0 .. 17) /\ Len(u) = b - a + 1
    BY <1>2
  <2> HIDE DEF u
  <2>3. PICK l \in Nat : l = b - a + 1 /\ l = Len(u)
    BY <2>2
  <2>4. u = [i \in 1 .. l |-> u[i]] /\ \A i \in 1 .. l : u[i] \in 0 .. 15
    BY <2>1, <2>2, <2>3
  <2> DEFINE K == 0 .. 15
  <2>k. \A i \in 1 .. l : u[i] \in K
    BY <2>4
  <2> HIDE DEF K
  <2>5. u \in Seq(K)
    BY <2>3, <2>4, <2>k, SeqFrom
  <2> QED
    BY <2>5 DEF u, K
<1> QED
  BY <1>2, <1>3 DEF Text, Blank

\* Places of a line: the field of the descriptor ends with its digits, or lies among
\* those of the flags.
LEMMA DigitsOnly ==
  ASSUME NEW h \in Nat, NEW n \in Nat, NEW l \in Nat, l = h + 10 + n,
         NEW t \in [1 .. l -> 0 .. 17],
         \A i \in 1 .. h : t[i] <= 15, \A i \in h + 2 .. h + 9 : t[i] <= 15,
         t[h + 1] = 17, t[h + 10] = 17,
         NEW a \in 1 .. l + 1, a <= l => t[a] # 17, \A k \in 1 .. a - 1 : t[k] = 17,
         NEW b \in a - 1 .. l, \A j \in a .. b : t[j] <= 16
  PROVE  (\A j \in a .. b : t[j] <= 15) /\ (h > 0 => a = 1 /\ b <= h)
<1>1. CASE h > 0
  <2>1. 1 \in 1 .. h /\ t[1] # 17
    BY <1>1
  <2>2. ~ 1 \in 1 .. a - 1
    BY <2>1
  <2>3. a = 1
    BY <2>2
  <2>4. ~ h + 1 \in a .. b
    OBVIOUS
  <2>5. b <= h
    BY <2>3, <2>4
  <2>6. \A j \in a .. b : j \in 1 .. h
    BY <2>3, <2>5
  <2> QED
    BY <2>3, <2>5, <2>6
<1>2. CASE h = 0
  <2>1. a # 1
    BY <1>2
  <2>2. t[2] # 17
    BY <1>2
  <2>3. ~ 2 \in 1 .. a - 1
    BY <2>2
  <2>4. a = 2
    BY <2>1, <2>3
  <2>5. ~ h + 10 \in a .. b
    OBVIOUS
  <2>6. \A j \in a .. b : j \in h + 2 .. h + 9
    BY <1>2, <2>4, <2>5
  <2> QED
    BY <1>2, <2>6
<1> QED
  BY <1>1, <1>2

\* A field whose characters all belong to it is read to its last.
LEMMA WholeField ==
  ASSUME NEW l \in Nat, NEW t \in [1 .. l -> 0 .. 17], NEW m \in Nat, NEW i \in Nat \ {0},
         NEW last \in 0 .. l, \A j \in i .. last : t[j] <= m,
         NEW e \in i - 1 .. last, e < last => t[e + 1] > m
  PROVE  e = last
<1>1. ASSUME e < last PROVE FALSE
  <2>1. e + 1 \in i .. last /\ e + 1 \in 1 .. l
    BY <1>1
  <2>2. PICK w \in 0 .. 17 : w = t[e + 1]
    BY <2>1
  <2>3. w <= m /\ w > m
    BY <1>1, <2>1, <2>2
  <2> QED
    BY <2>3
<1> QED
  BY <1>1

\* One blank is skipped when no other follows.
LEMMA OneBlank ==
  ASSUME NEW l \in Nat, NEW t \in [1 .. l -> 0 .. 17], NEW i \in 1 .. l, t[i] = 17,
         i < l => t[i + 1] # 17,
         NEW k \in i .. l + 1, k <= l => t[k] # 17, \A j \in i .. k - 1 : t[j] = 17
  PROVE  k = i + 1
<1>1. k # i
  OBVIOUS
<1>2. ASSUME k > i + 1 PROVE FALSE
  <2>1. i + 1 \in i .. k - 1 /\ i < l
    BY <1>2
  <2> QED
    BY <2>1
<1> QED
  BY <1>1, <1>2

\* What is read of a line is what was written, for every request the file can hold;
\* and digits in any case.
LEMMA ScanLine ==
  ASSUME NEW req \in Reqs, Normal(req.flags),
         NEW t, t = Line(req).text, NEW s, s = Scan(t)
  PROVE  /\ s.desc \in Seq(0 .. 15) /\ s.flags \in Seq(0 .. 15) /\ Len(s.flags) <= FlagDigits
         /\ s.name \in Text
         /\ Storable(req) => /\ s.ok /\ s.desc = Hex(req.rd) /\ s.flags = Pad(req.flags)
                             /\ s.name = req.name
<1> DEFINE h == 2 * Len(req.rd)
           x == Hex(req.rd)
           p == Pad(req.flags)
           a == Skip(t, 1)      b == FieldEnd(t, a, TextCap, Letter)
           c == Skip(t, b + 1)  d == FieldEnd(t, c, FlagDigits, 15)
           e == Skip(t, d + 1)
<1>1. /\ t \in Text /\ Len(t) = h + 10 + Len(req.name) /\ h \in Nat
      /\ \A i \in 1 .. h : t[i] = x[i]
      /\ t[h + 1] = Blank /\ t[h + 10] = Blank
      /\ \A i \in 1 .. 8 : t[h + 1 + i] = p[i]
      /\ \A i \in 1 .. Len(req.name) : t[h + 10 + i] = req.name[i]
  <2> DEFINE q == req.flags
  <2>1. Len(q) <= FlagDigits
    BY DEF Normal
  <2>2. h = 2 * Len(req.rd)
    OBVIOUS
  <2> HIDE DEF h
  <2>3. /\ t \in Text /\ Len(t) = h + 10 + Len(req.name) /\ h \in Nat
        /\ \A i \in 1 .. h : t[i] = Hex(req.rd)[i]
        /\ t[h + 1] = Blank /\ t[h + 10] = Blank
        /\ \A i \in 1 .. 8 : t[h + 1 + i] = Pad(req.flags)[i]
        /\ \A i \in 1 .. Len(req.name) : t[h + 10 + i] = req.name[i]
    <3>1. ASSUME NEW g, g = 2 * Len(req.rd)
          PROVE  LineShape(req, t, g)
      BY <2>1, <3>1, LineText, ZenonT(30)
    <3> QED
      BY <2>2, <3>1 DEF LineShape
  <2> QED
    BY <2>3
<1>2. /\ req.rd \in Seq(Bytes) /\ Len(req.rd) \in Nat /\ req.flags \in Seq(0 .. 15)
      /\ req.name \in Text /\ Len(req.name) \in Nat
  BY DEF Reqs, Text
<1>3. x \in Seq(0 .. 15) /\ Len(x) = h /\ p \in Seq(0 .. 15) /\ Len(p) = 8
  BY <1>2, HexIs, PadIs DEF Normal
<1>4. s = [desc |-> SubSeq(t, a, b), flags |-> SubSeq(t, c, d), ok |-> c <= d,
           name |-> SubSeq(t, e, Len(t))]
  BY DEF Scan
<1>5. TextCap \in Nat /\ Letter = 16 /\ Blank = 17 /\ FlagDigits = 8
  BY InfoSizesAssumption DEF Letter, Blank, FlagDigits
<1> DEFINE n == Len(req.name)
<1> HIDE DEF h, x, p, n
<1>6. Len(t) = h + 10 + n /\ n \in Nat /\ h \in Nat /\ Len(t) \in Nat
  <2>1. Len(t) = h + 10 + Len(req.name) /\ h \in Nat
    BY <1>1
  <2>2. Len(req.name) \in Nat
    BY <1>2
  <2>3. \A i, j \in Nat : i + 10 + j \in Nat
    OBVIOUS
  <2> QED
    BY <2>1, <2>2, <2>3 DEF n
<1>7. /\ \A i \in 1 .. h : t[i] \in 0 .. 15
      /\ \A i \in h + 2 .. h + 9 : t[i] \in 0 .. 15
  <2>0. (\A i \in 1 .. h : x[i] \in 0 .. 15) /\ \A i \in 1 .. 8 : p[i] \in 0 .. 15
    <3> DEFINE K == 0 .. 15
    <3>1. x \in Seq(K) /\ Len(x) = h /\ p \in Seq(K) /\ Len(p) = 8
      BY <1>3
    <3> HIDE DEF K
    <3>2. (\A i \in 1 .. h : x[i] \in K) /\ \A i \in 1 .. 8 : p[i] \in K
      BY <3>1, SeqHas
    <3> QED
      BY <3>2 DEF K
  <2>1. ASSUME NEW i \in 1 .. h PROVE t[i] \in 0 .. 15
    <3>1. t[i] = x[i]
      BY <1>1
    <3> QED
      BY <2>0, <3>1
  <2>2. ASSUME NEW i \in h + 2 .. h + 9 PROVE t[i] \in 0 .. 15
    <3>1. PICK j \in 1 .. 8 : h + 1 + j = i
      <4>1. i - h - 1 \in 1 .. 8 /\ h + 1 + (i - h - 1) = i
        BY <1>6
      <4> QED
        BY <4>1
    <3>2. t[i] = p[j]
      BY <1>1, <3>1
    <3> QED
      BY <2>0, <3>2
  <2> QED
    BY <2>1, <2>2
<1>8. /\ a \in 1 .. Len(t) + 1
      /\ a <= Len(t) => t[a] # Blank
      /\ \A k \in 1 .. a - 1 : t[k] = Blank
  <2>1. 1 \in 1 .. Len(t) + 1
    BY <1>6
  <2> QED
    BY <1>1, <2>1, SkipIs
<1> HIDE DEF a
<1>9. /\ b \in a - 1 .. Len(t) /\ b <= a + TextCap - 1
      /\ \A j \in a .. b : t[j] <= 16
      /\ b < a + TextCap - 1 /\ b < Len(t) => t[b + 1] > 16
  <2>1. Letter \in Nat
    BY <1>5
  <2>2. /\ b \in a - 1 .. Len(t) /\ b <= a + TextCap - 1
        /\ \A j \in a .. b : t[j] <= Letter
        /\ b < a + TextCap - 1 /\ b < Len(t) => t[b + 1] > Letter
    <3>1. \A z : z = FieldEnd(t, a, TextCap, Letter) =>
            /\ z \in a - 1 .. Len(t) /\ z <= a + TextCap - 1
            /\ \A j \in a .. z : t[j] <= Letter
            /\ z < a + TextCap - 1 /\ z < Len(t) => t[z + 1] > Letter
      <4> SUFFICES ASSUME NEW z, z = FieldEnd(t, a, TextCap, Letter)
                   PROVE  /\ z \in a - 1 .. Len(t) /\ z <= a + TextCap - 1
                          /\ \A j \in a .. z : t[j] <= Letter
                          /\ z < a + TextCap - 1 /\ z < Len(t) => t[z + 1] > Letter
        OBVIOUS
      <4>1. t \in Text /\ a \in 1 .. Len(t) + 1 /\ TextCap \in Nat /\ Letter \in Nat
        BY <1>1, <1>5, <1>8, <2>1
      <4> QED
        BY <4>1, FieldEndIs, Zenon
    <3> QED
      BY <3>1
  <2> HIDE DEF b
  <2> QED
    BY <1>5, <2>2
<1> HIDE DEF b
<1>10. b + 1 \in 1 .. Len(t) + 1
  BY <1>6, <1>8, <1>9
<1>11. /\ c \in b + 1 .. Len(t) + 1
       /\ c <= Len(t) => t[c] # Blank
       /\ \A k \in b + 1 .. c - 1 : t[k] = Blank
  BY <1>1, <1>10, SkipIs
<1> HIDE DEF c
<1>12. c \in 1 .. Len(t) + 1
  BY <1>6, <1>10, <1>11
<1>13. /\ d \in c - 1 .. Len(t) /\ d <= c + 8 - 1
       /\ \A j \in c .. d : t[j] <= 15
       /\ d < c + 8 - 1 /\ d < Len(t) => t[d + 1] > 15
  <2>1. 15 \in Nat /\ FlagDigits \in Nat
    BY <1>5
  <2>2. /\ d \in c - 1 .. Len(t) /\ d <= c + FlagDigits - 1
        /\ \A j \in c .. d : t[j] <= 15
        /\ d < c + FlagDigits - 1 /\ d < Len(t) => t[d + 1] > 15
    <3>1. PICK m \in Nat, w \in Nat : m = 15 /\ w = FlagDigits
      BY <2>1
    <3>2. ASSUME NEW z, z = FieldEnd(t, c, w, m)
          PROVE  /\ z \in c - 1 .. Len(t) /\ z <= c + w - 1
                 /\ \A j \in c .. z : t[j] <= m
                 /\ z < c + w - 1 /\ z < Len(t) => t[z + 1] > m
      <4>1. t \in Text /\ c \in 1 .. Len(t) + 1 /\ w \in Nat /\ m \in Nat
        BY <1>1, <1>12
      <4> QED
        BY <3>2, <4>1, FieldEndIs, Zenon
    <3> QED
      BY <3>1, <3>2
  <2> HIDE DEF d
  <2> QED
    BY <1>5, <2>2
<1> HIDE DEF d
<1>14. d + 1 \in 1 .. Len(t) + 1
  BY <1>6, <1>12, <1>13
<1>15. /\ e \in d + 1 .. Len(t) + 1
       /\ e <= Len(t) => t[e] # Blank
       /\ \A k \in d + 1 .. e - 1 : t[k] = Blank
  BY <1>1, <1>14, SkipIs
<1> HIDE DEF e
\* The descriptor's field holds digits only: those of the descriptor, or of the flags
\* when there is none.
<1> DEFINE l == Len(t)
<1> HIDE DEF l
<1>p. /\ l \in Nat /\ l = h + 10 + n /\ t \in [1 .. l -> 0 .. 17]
      /\ \A i \in 1 .. h : t[i] <= 15
      /\ \A i \in h + 2 .. h + 9 : t[i] <= 15
      /\ t[h + 1] = 17 /\ t[h + 10] = 17
  <2>1. t \in [1 .. Len(t) -> 0 .. 17]
    <3> DEFINE K == 0 .. 17
    <3>1. t \in Seq(K)
      BY <1>1, <1>5 DEF Text
    <3> HIDE DEF K
    <3>2. t \in [1 .. Len(t) -> K]
      BY <3>1
    <3> QED
      BY <3>2 DEF K
  <2>2. (\A i \in 1 .. h : t[i] <= 15) /\ \A i \in h + 2 .. h + 9 : t[i] <= 15
    BY <1>7
  <2> QED
    BY <1>1, <1>5, <1>6, <2>1, <2>2 DEF l
<1>q. /\ a \in 1 .. l + 1 /\ (a <= l => t[a] # 17) /\ \A k \in 1 .. a - 1 : t[k] = 17
  BY <1>5, <1>8 DEF l
<1>r. /\ b \in a - 1 .. l /\ b <= a + TextCap - 1 /\ \A j \in a .. b : t[j] <= 16
      /\ b < a + TextCap - 1 /\ b < l => t[b + 1] > 16
  BY <1>9 DEF l
<1>16. (\A j \in a .. b : t[j] <= 15) /\ (h > 0 => a = 1 /\ b <= h)
  <2>1. h \in Nat /\ n \in Nat /\ l \in Nat /\ l = h + 10 + n
    BY <1>6, <1>p
  <2> QED
    BY <2>1, <1>p, <1>q, <1>r, DigitsOnly, Zenon
<1>17. s.desc \in Seq(0 .. 15)
  <2>1. SubSeq(t, a, b) \in Seq(0 .. 15)
    BY <1>1, <1>8, <1>9, <1>16, TextPart
  <2> QED
    BY <1>4, <2>1
<1>18. s.flags \in Seq(0 .. 15) /\ Len(s.flags) = d - c + 1
  <2>1. SubSeq(t, c, d) \in Seq(0 .. 15) /\ Len(SubSeq(t, c, d)) = d - c + 1
    BY <1>1, <1>12, <1>13, TextPart
  <2> QED
    BY <1>4, <2>1
<1>19. d - c + 1 <= 8
  BY <1>6, <1>12, <1>13
<1>20. e \in 1 .. Len(t) + 1 /\ Len(t) \in e - 1 .. Len(t)
  BY <1>6, <1>14, <1>15
<1>21. s.name \in Text
  <2>1. SubSeq(t, e, Len(t)) \in Text
    BY <1>1, <1>20, TextPart
  <2> QED
    BY <1>4, <2>1
<1>22. ASSUME Storable(req)
       PROVE  /\ s.ok /\ s.desc = x /\ s.flags = p /\ s.name = req.name
  <2>1. h > 0 /\ h < TextCap /\ (n > 0 => req.name[1] # Blank)
    <3>1. Len(req.rd) > 0
      BY <1>2, <1>22 DEF Storable
    <3>2. h > 0 /\ h < TextCap
      BY <1>2, <1>22, <3>1 DEF Storable, h
    <3>3. n > 0 => req.name # <<>>
      BY <1>2 DEF n
    <3> QED
      BY <1>22, <3>2, <3>3 DEF Storable
  <2>2. a = 1 /\ b \in 0 .. h
    BY <1>6, <1>16, <1>r, <2>1
  <2>3. b = h
    <3>1. b < h => t[b + 1] > 16
      BY <1>5, <1>6, <1>p, <1>r, <2>1, <2>2
    <3>2. PICK m \in Nat, i \in Nat \ {0} : m = 16 /\ i = 1
      OBVIOUS
    <3>3. \A j \in i .. h : t[j] <= m
      <4>1. \A j \in 1 .. h : t[j] \in 0 .. 15
        BY <1>7
      <4> QED
        BY <3>2, <4>1
    <3>4. l \in Nat /\ t \in [1 .. l -> 0 .. 17] /\ h \in 0 .. l /\ b \in i - 1 .. h
      BY <1>6, <1>p, <2>2, <3>2
    <3>5. b < h => t[b + 1] > m
      BY <3>1, <3>2
    <3> QED
      BY <3>3, <3>4, <3>5, WholeField, Zenon
  <2>4. c = h + 2
    <3>1. h + 1 < l => t[h + 1 + 1] # 17
      <4>1. h + 2 \in h + 2 .. h + 9 /\ h + 1 + 1 = h + 2
        BY <1>6
      <4> QED
        BY <1>7, <4>1
    <3>2. /\ h + 1 \in 1 .. l /\ c \in h + 1 .. l + 1 /\ (c <= l => t[c] # 17)
          /\ \A k \in h + 1 .. c - 1 : t[k] = 17
      BY <1>5, <1>6, <1>p, <1>11, <2>3 DEF l
    <3>3. c = h + 1 + 1
      BY <1>p, <3>1, <3>2, OneBlank
    <3> QED
      BY <1>6, <3>3
  <2>5. d = h + 9
    <3>1. d < h + 9 => t[d + 1] > 15
      BY <1>6, <1>p, <1>13, <2>4
    <3>2. PICK m \in Nat, i \in Nat \ {0}, last \in Nat : m = 15 /\ i = h + 2 /\ last = h + 9
      BY <1>6
    <3>3. \A j \in i .. last : t[j] <= m
      BY <1>p, <3>2
    <3>4. l \in Nat /\ t \in [1 .. l -> 0 .. 17] /\ last \in 0 .. l /\ d \in i - 1 .. last
      BY <1>6, <1>p, <1>13, <2>4, <3>2
    <3>5. d < last => t[d + 1] > m
      BY <3>1, <3>2
    <3>6. d = last
      BY <3>3, <3>4, <3>5, WholeField, Zenon
    <3> QED
      BY <3>2, <3>6
  <2>6. e = h + 11
    <3>1. h + 10 < l => t[h + 10 + 1] # 17
      <4>1. ASSUME h + 10 < l PROVE t[h + 10 + 1] # 17
        <5>1. n > 0 /\ 1 \in 1 .. n
          BY <1>6, <1>p, <4>1
        <5>2. t[h + 10 + 1] = req.name[1]
          BY <1>1, <5>1 DEF n
        <5> QED
          BY <1>5, <2>1, <5>1, <5>2
      <4> QED
        BY <4>1
    <3>2. /\ h + 10 \in 1 .. l /\ e \in h + 10 .. l + 1 /\ (e <= l => t[e] # 17)
          /\ \A k \in h + 10 .. e - 1 : t[k] = 17
      <4>1. d + 1 = h + 10
        BY <1>6, <2>5
      <4>2. h + 10 \in 1 .. l
        BY <1>6, <1>p
      <4> QED
        BY <1>5, <1>15, <4>1, <4>2 DEF l
    <3>3. e = h + 10 + 1
      BY <1>p, <3>1, <3>2, OneBlank
    <3> QED
      BY <1>6, <3>3
  <2>7. s.ok
    <3>1. h + 2 <= h + 9
      BY <1>6
    <3>2. s.ok = (c <= d)
      BY <1>4
    <3>3. c <= d
      BY <2>4, <2>5, <3>1
    <3> QED
      BY <3>2, <3>3
  <2>8. s.desc = x
    <3> DEFINE u == SubSeq(t, a, b)
    <3>1. /\ u \in Seq(0 .. 15) /\ Len(u) = b - a + 1
          /\ \A i \in 1 .. b - a + 1 : u[i] = t[a + i - 1]
      BY <1>1, <1>8, <1>9, <1>16, TextPart
    <3> HIDE DEF u
    <3>2. b - a + 1 = h /\ \A i \in 1 .. h : a + i - 1 = i
      BY <1>6, <2>2, <2>3
    <3>3. Len(u) = h /\ \A i \in 1 .. h : u[i] = x[i]
      <4>1. Len(u) = h
        BY <3>1, <3>2
      <4>2. \A i \in 1 .. h : u[i] = t[a + i - 1]
        BY <3>1, <3>2
      <4>3. \A i \in 1 .. h : u[i] = t[i]
        BY <3>2, <4>2
      <4> QED
        BY <1>1, <4>1, <4>3
    <3>4. u = x
      BY <1>3, <3>1, <3>3
    <3> QED
      BY <1>4, <3>4 DEF u
  <2>9. s.flags = p
    <3> DEFINE u == SubSeq(t, c, d)
    <3>1. /\ u \in Seq(0 .. 15) /\ Len(u) = d - c + 1
          /\ \A i \in 1 .. d - c + 1 : u[i] = t[c + i - 1]
      BY <1>1, <1>12, <1>13, TextPart
    <3> HIDE DEF u
    <3>2. d - c + 1 = 8 /\ \A i \in 1 .. 8 : c + i - 1 = h + 1 + i
      BY <1>6, <2>4, <2>5
    <3>3. Len(u) = 8 /\ \A i \in 1 .. 8 : u[i] = p[i]
      <4>1. Len(u) = 8
        BY <3>1, <3>2
      <4>2. \A i \in 1 .. 8 : u[i] = t[c + i - 1]
        BY <3>1, <3>2
      <4>3. \A i \in 1 .. 8 : u[i] = t[h + 1 + i]
        BY <3>2, <4>2
      <4> QED
        BY <1>1, <4>1, <4>3
    <3>4. u = p
      <4> DEFINE K == 0 .. 15
      <4>1. u \in Seq(K) /\ p \in Seq(K) /\ Len(p) = 8
        BY <1>3, <3>1
      <4> HIDE DEF K
      <4> QED
        BY <3>3, <4>1
    <3> QED
      BY <1>4, <3>4 DEF u
  <2>10. s.name = req.name
    <3> DEFINE u == SubSeq(t, e, Len(t))
    <3>1. /\ u \in Text /\ Len(u) = Len(t) - e + 1
          /\ \A i \in 1 .. Len(t) - e + 1 : u[i] = t[e + i - 1]
      BY <1>1, <1>20, TextPart
    <3> HIDE DEF u
    <3>2. Len(t) - e + 1 = n /\ \A i \in 1 .. n : e + i - 1 = h + 10 + i
      BY <1>6, <2>6
    <3>3. Len(u) = n /\ \A i \in 1 .. n : u[i] = req.name[i]
      <4>1. Len(u) = n
        BY <3>1, <3>2
      <4>2. \A i \in 1 .. n : u[i] = t[e + i - 1]
        BY <3>1, <3>2
      <4>3. \A i \in 1 .. n : u[i] = t[h + 10 + i]
        BY <3>2, <4>2
      <4> QED
        BY <1>1, <4>1, <4>3 DEF n
    <3>4. u = req.name
      <4>1. u \in Seq(0 .. Blank) /\ req.name \in Seq(0 .. Blank)
        BY <1>2, <3>1 DEF Text
      <4> QED
        BY <3>3, <4>1 DEF n
    <3> QED
      BY <1>4, <3>4 DEF u
  <2> QED
    BY <2>7, <2>8, <2>9, <2>10
<1> QED
  BY <1>5, <1>17, <1>18, <1>19, <1>21, <1>22 DEF x, p

LEMMA CutIs ==
  ASSUME NEW s \in Text, NEW n \in Nat
  PROVE  /\ Cut(s, n) \in Text /\ Len(Cut(s, n)) <= n
         /\ Len(s) <= n => Cut(s, n) = s
<1>0. Len(s) \in Nat /\ s \in Seq(0 .. Blank)
  BY DEF Text
<1>1. ASSUME n < Len(s) PROVE Cut(s, n) \in Text /\ Len(Cut(s, n)) = n
  <2>1. Cut(s, n) = SubSeq(s, 1, n)
    BY <1>1 DEF Cut
  <2>2. 1 \in 1 .. Len(s) + 1 /\ n \in 1 - 1 .. Len(s)
    BY <1>0, <1>1
  <2>3. SubSeq(s, 1, n) \in Text /\ Len(SubSeq(s, 1, n)) = n - 1 + 1
    BY <2>2, TextPart
  <2>4. n - 1 + 1 = n
    OBVIOUS
  <2> QED
    BY <2>1, <2>3, <2>4
<1>2. ASSUME ~ n < Len(s) PROVE Cut(s, n) = s
  <2>1. Cut(s, n) = SubSeq(s, 1, Len(s))
    BY <1>2 DEF Cut
  <2> DEFINE K == 0 .. Blank
  <2> HIDE DEF K
  <2>2. s \in Seq(K)
    BY <1>0 DEF K
  <2>3. SubSeq(s, 1, Len(s)) = s
    BY <2>2
  <2> QED
    BY <2>1, <2>3
<1> DEFINE u == Cut(s, n)
<1> HIDE DEF u
<1>3. PICK l \in Nat : l = Len(s)
  BY <1>0
<1>4. u \in Text
  BY <1>0, <1>1, <1>2 DEF u
<1>5. Len(u) <= n
  BY <1>1, <1>2, <1>3 DEF u
<1>6. l <= n => u = s
  BY <1>2, <1>3 DEF u
<1> QED
  BY <1>3, <1>4, <1>5, <1>6 DEF u

\* Digits make bytes, and those of a descriptor make the descriptor.
LEMMA StoredRdIs ==
  ASSUME NEW desc \in Seq(0 .. 15) PROVE StoredRd(desc) \in Seq(Bytes)
<1>1. PICK l \in Nat : l = Len(desc) \div 2 /\ 2 * l <= Len(desc)
  <2>1. \A k \in Nat : k \div 2 \in Nat /\ 2 * (k \div 2) <= k
    OBVIOUS
  <2>2. Len(desc) \in Nat
    OBVIOUS
  <2> QED
    BY <2>1, <2>2
<1>2. \A i \in 1 .. Len(desc) : desc[i] \in 0 .. 15
  <2> DEFINE K == 0 .. 15
  <2>1. desc \in Seq(K)
    OBVIOUS
  <2> HIDE DEF K
  <2>2. \A i \in 1 .. Len(desc) : desc[i] \in K
    BY <2>1, SeqHas
  <2> QED
    BY <2>2 DEF K
<1>3. ASSUME NEW i \in 1 .. l PROVE ByteAt(desc, i) \in Bytes
  <2>1. 2 * i - 1 \in 1 .. Len(desc) /\ 2 * i \in 1 .. Len(desc)
    <3>1. Len(desc) \in Nat
      OBVIOUS
    <3> QED
      BY <1>1, <3>1
  <2>2. PICK x \in 0 .. 15, y \in 0 .. 15 : x = desc[2 * i - 1] /\ y = desc[2 * i]
    BY <1>2, <2>1
  <2>3. 16 * x + y \in 0 .. 255
    OBVIOUS
  <2> QED
    BY <2>2, <2>3 DEF ByteAt, Bytes
<1> DEFINE u == StoredRd(desc)
<1>4. u = [i \in 1 .. l |-> ByteAt(desc, i)]
  BY <1>1 DEF StoredRd
<1> HIDE DEF u
<1>5. u = [i \in 1 .. l |-> u[i]] /\ \A i \in 1 .. l : u[i] \in Bytes
  BY <1>3, <1>4
<1>6. u \in Seq(Bytes)
  BY <1>5, SeqFrom
<1> QED
  BY <1>6 DEF u

LEMMA RdBack ==
  ASSUME NEW rd \in Seq(Bytes) PROVE StoredRd(Hex(rd)) = rd
<1> DEFINE x == Hex(rd)
           l == Len(rd)
<1>1. Len(x) = 2 * l /\ \A i \in 1 .. l : 16 * x[2 * i - 1] + x[2 * i] = rd[i]
  BY HexIs
<1>2. l \in Nat /\ (2 * l) \div 2 = l
  <2>1. l \in Nat
    OBVIOUS
  <2> HIDE DEF l
  <2> QED
    BY <2>1
<1> HIDE DEF x, l
<1>3. StoredRd(x) = [i \in 1 .. l |-> ByteAt(x, i)]
  BY <1>1, <1>2 DEF StoredRd
<1>4. \A i \in 1 .. l : ByteAt(x, i) = rd[i]
  BY <1>1 DEF ByteAt
<1>5. rd = [i \in 1 .. l |-> rd[i]]
  BY DEF l
<1>6. [i \in 1 .. l |-> ByteAt(x, i)] = [i \in 1 .. l |-> rd[i]]
  BY <1>4
<1> QED
  BY <1>3, <1>5, <1>6 DEF x

\* What the file gives back of a device.
LEMMA StoredIs ==
  ASSUME NEW req \in Reqs, Normal(req.flags), Len(req.name) < NameSize,
         NEW r, r = Stored(Line(req))
  PROVE  /\ r \in Reqs /\ Len(r.name) < NameSize /\ Normal(r.flags)
         /\ Storable(req) =>
              /\ Scan(Line(req).text).ok
              /\ r.vendor = req.vendor /\ r.parser = req.parser
              /\ r.flags = req.flags /\ r.name = req.name /\ r.rd = req.rd
<1> DEFINE t == Line(req).text
           s == Scan(t)
<1>1. /\ s.desc \in Seq(0 .. 15) /\ s.flags \in Seq(0 .. 15) /\ Len(s.flags) <= FlagDigits
      /\ s.name \in Text
      /\ Storable(req) => /\ s.ok /\ s.desc = Hex(req.rd) /\ s.flags = Pad(req.flags)
                          /\ s.name = req.name
  BY ScanLine
<1>2. /\ req.vendor \in Nat /\ req.subclass \in Bytes /\ req.parser \in Nat
      /\ req.rd \in Seq(Bytes) /\ req.flags \in Seq(0 .. 15) /\ req.name \in Text
  BY DEF Reqs
<1>3. Line(req).vendor = req.vendor /\ Line(req).subclass = req.subclass /\ Line(req).parser = req.parser
  BY DEF Line
<1>4. r = [vendor |-> req.vendor, subclass |-> req.subclass, parser |-> req.parser,
           flags |-> Number(s.flags), name |-> Cut(s.name, NameSize - 1), rd |-> StoredRd(s.desc)]
  BY <1>3 DEF Stored
<1> HIDE DEF s
<1>5. NameSize - 1 \in Nat /\ NameSize \in Nat
  BY InfoSizesAssumption
<1>6. /\ Number(s.flags) \in Seq(0 .. 15) /\ Normal(Number(s.flags))
      /\ StoredRd(s.desc) \in Seq(Bytes)
  BY <1>1, NumberIs, StoredRdIs
<1>7. Cut(s.name, NameSize - 1) \in Text /\ Len(Cut(s.name, NameSize - 1)) <= NameSize - 1
  BY <1>1, <1>5, CutIs
<1>8. r \in Reqs
  BY <1>2, <1>4, <1>6, <1>7 DEF Reqs
<1>9. Len(r.name) < NameSize
  <2>1. r.name \in Text /\ r.name = Cut(s.name, NameSize - 1)
    BY <1>4, <1>7
  <2>2. Len(r.name) \in Nat /\ Len(r.name) <= NameSize - 1
    BY <1>7, <2>1 DEF Text
  <2> QED
    BY <1>5, <2>2
<1>10. Normal(r.flags)
  BY <1>4, <1>6
<1>11. ASSUME Storable(req)
       PROVE  /\ s.ok /\ r.vendor = req.vendor /\ r.parser = req.parser
              /\ r.flags = req.flags /\ r.name = req.name /\ r.rd = req.rd
  <2>1. s.ok /\ s.desc = Hex(req.rd) /\ s.flags = Pad(req.flags) /\ s.name = req.name
    BY <1>1, <1>11
  <2>2. Number(s.flags) = req.flags
    BY <1>2, <2>1, PadNumber
  <2>3. StoredRd(s.desc) = req.rd
    BY <1>2, <2>1, RdBack
  <2>4. Cut(s.name, NameSize - 1) = req.name
    <3>1. Len(req.name) <= NameSize - 1
      <4>1. Len(req.name) \in Nat
        BY <1>2 DEF Text
      <4> QED
        BY <1>5, <4>1
    <3> QED
      BY <1>2, <1>5, <2>1, <3>1, CutIs
  <2> QED
    BY <1>4, <2>1, <2>2, <2>3, <2>4
<1> QED
  BY <1>8, <1>9, <1>10, <1>11 DEF s

(***************************************************************************)
(* What create_device() finds                                              *)
(***************************************************************************)

\* A request that fits its fields, and a descriptor the quirk has been over.
Good(r)     == r \in Reqs /\ Len(r.name) < NameSize /\ Normal(r.flags)
Quirked(rd) == \A i \in 0 .. Len(rd) - Size - 1 : ~ PatternAt(rd, i)

InfoInv ==
  /\ offer \in [Devices -> Offers]
  /\ looked \in [Devices -> Reqs] /\ DOMAIN file = Devices
  /\ \A d \in Devices : Good(looked[d]) /\ Quirked(looked[d].rd)
  /\ \A d \in Devices : file[d] = NoLine \/ file[d] = Line(looked[d])
  /\ result.req \in Reqs /\ Len(result.req.name) < NameSize
  /\ undefined \in BOOLEAN /\ faults \in BOOLEAN
  /\ calls \in 0 .. MaxCalls /\ hciOpen \in 0 .. 2 * calls
  /\ ~ faults => hciOpen = 0 /\ ((\A d \in Devices : Ordinary(offer[d])) => ~ undefined)
  /\ ~ faults => \A d \in Devices : file[d] # NoLine /\ Ordinary(offer[d]) => Storable(looked[d])

LEMMA EmptyIs == Good(EmptyReq) /\ Quirked(<<>>) /\ EmptyReq.rd = <<>> /\ EmptyReq.name = <<>>
<1>1. EmptyReq \in Reqs
  <2>1. 0 \in Nat /\ 0 \in Bytes /\ <<>> \in Seq(Bytes) /\ <<>> \in Seq(0 .. 15) /\ <<>> \in Text
    BY DEF Bytes, Text
  <2> QED
    BY <2>1 DEF EmptyReq, Reqs
<1>2. EmptyReq.name = <<>> /\ EmptyReq.flags = <<>> /\ EmptyReq.rd = <<>>
  BY DEF EmptyReq
<1>3. Len(<<>>) = 0 /\ 0 < NameSize /\ 0 <= FlagDigits
  BY InfoSizesAssumption DEF FlagDigits
<1>4. Quirked(<<>>)
  BY PatternLength DEF Quirked
<1> QED
  BY <1>1, <1>2, <1>3, <1>4 DEF Good, Normal

LEMMA LineIsNot == ASSUME NEW r \in Reqs PROVE Line(r) # NoLine
<1>1. Line(r).vendor \in Nat /\ NoLine.vendor = -1
  BY DEF Line, NoLine, Reqs
<1> QED
  BY <1>1

LEMMA OfferIs ==
  ASSUME NEW o \in Offers
  PROVE  /\ o.vendor \in Nat /\ o.subclass \in Bytes /\ o.parser \in Nat /\ o.hasRd \in BOOLEAN
         /\ o.rd \in Seq(Bytes) /\ o.service \in Text /\ o.provider \in Text /\ o.desc \in Text
<1>1. o \in [vendor : Nat, subclass : Bytes, parser : Nat, hasRd : BOOLEAN, rd : Seq(Bytes),
             service : Text, provider : Text, desc : Text]
  BY OffersAssumption
<1> QED
  BY <1>1

LEMMA NameIs ==
  ASSUME NEW o \in Offers, NEW old \in Text, Len(old) < NameSize
  PROVE  NameOf(o, old) \in Text
<1>1. o.service \in Text /\ o.provider \in Text /\ o.desc \in Text
  BY OfferIs
<1>2. NameSize \in Nat /\ NameSize - 1 \in Nat
  BY InfoSizesAssumption
<1>3. Cut(o.service, NameSize - 1) \in Text /\ Cut(o.desc, NameSize - 1) \in Text
  BY <1>1, <1>2, CutIs
<1> DEFINE first == IF Cut(o.desc, 5) = Cut(o.provider, 5) THEN old
                    ELSE Append(Cut(o.provider, NameSize - 1), Blank)
<1>4. first \in Text /\ NameSize - Len(first) \in Nat
  <2>1. Len(old) \in Nat
    BY DEF Text
  <2> DEFINE p == Cut(o.provider, NameSize - 1)
  <2>2. p \in Text /\ Len(p) <= NameSize - 1
    BY <1>1, <1>2, CutIs
  <2> HIDE DEF p
  <2>3. Len(p) \in Nat /\ Append(p, Blank) \in Text /\ Len(Append(p, Blank)) = Len(p) + 1
    BY <2>2 DEF Text, Blank
  <2>4. NameSize - Len(old) \in Nat
    BY <1>2, <2>1
  <2>5. NameSize - Len(Append(p, Blank)) \in Nat
    BY <1>2, <2>2, <2>3
  <2>6. first = old \/ first = Append(p, Blank)
    BY DEF p
  <2> HIDE DEF first
  <2> QED
    BY <2>3, <2>4, <2>5, <2>6
<1>5. first \o Cut(o.desc, NameSize - Len(first)) \in Text
  <2> HIDE DEF first
  <2>1. Cut(o.desc, NameSize - Len(first)) \in Text
    BY <1>1, <1>4, CutIs
  <2> QED
    BY <1>4, <2>1, Joined
<1> QED
  BY <1>3, <1>5 DEF NameOf

\* What the records give, as long as nothing is left undefined.
LEMMA ReqOfIs ==
  ASSUME NEW o \in Offers, NEW old, Good(old), NEW pnp \in BOOLEAN, NEW memory \in BOOLEAN,
         ~ LeavesBounds(o, old, memory)
  PROVE  Good(ReqOf(o, old, pnp, memory)) /\ Quirked(ReqOf(o, old, pnp, memory).rd)
<1> DEFINE r == ReqOf(o, old, pnp, memory)
<1>1. /\ old.vendor \in Nat /\ old.flags \in Seq(0 .. 15) /\ old.name \in Text
      /\ Len(old.name) < NameSize /\ Normal(old.flags)
  BY DEF Good, Reqs
<1>2. o.vendor \in Nat /\ o.subclass \in Bytes /\ o.parser \in Nat /\ o.rd \in Seq(Bytes) /\ o.hasRd \in BOOLEAN
  BY OfferIs
<1>3. NameOf(o, old.name) \in Text /\ Len(NameOf(o, old.name)) < NameSize
  <2>1. NameOf(o, old.name) \in Text
    BY <1>1, NameIs
  <2>2. Len(NameOf(o, old.name)) \in Nat /\ NameSize \in Nat
    BY <2>1, InfoSizesAssumption DEF Text
  <2>3. ~ Len(NameOf(o, old.name)) >= NameSize
    BY DEF LeavesBounds
  <2> QED
    BY <2>1, <2>2, <2>3
<1> DEFINE rd == IF o.hasRd /\ memory THEN Quirk(o.rd) ELSE <<>>
<1>4. rd \in Seq(Bytes) /\ Quirked(rd)
  <2>1. CASE o.hasRd /\ memory
    <3>1. Len(o.rd) >= Size
      <4>1. ~ Len(o.rd) < Size
        BY <2>1 DEF LeavesBounds
      <4>2. Len(o.rd) \in Nat
        BY <1>2
      <4> QED
        BY <4>1, <4>2, PatternLength
    <3>2. /\ Quirk(o.rd) \in Seq(Bytes) /\ Len(Quirk(o.rd)) = Len(o.rd)
          /\ \A i \in 0 .. Len(o.rd) - Size - 1 : ~ PatternAt(Quirk(o.rd), i)
      BY <1>2, <3>1, QuirkFixes
    <3> QED
      BY <2>1, <3>2 DEF Quirked
  <2>2. CASE ~ (o.hasRd /\ memory)
    <3>1. <<>> \in Seq(Bytes)
      OBVIOUS
    <3> QED
      BY <2>2, <3>1, EmptyIs
  <2> QED
    BY <2>1, <2>2
<1>5. r = [vendor |-> IF pnp THEN o.vendor ELSE old.vendor, subclass |-> o.subclass,
           parser |-> o.parser, flags |-> old.flags, rd |-> rd, name |-> NameOf(o, old.name)]
  BY DEF ReqOf
<1> HIDE DEF r, rd
<1>6. r \in Reqs
  <2>1. (IF pnp THEN o.vendor ELSE old.vendor) \in Nat
    BY <1>1, <1>2
  <2> QED
    BY <1>1, <1>2, <1>3, <1>4, <1>5, <2>1 DEF Reqs
<1>7. r.name = NameOf(o, old.name) /\ r.flags = old.flags /\ r.rd = rd
  BY <1>5
<1> QED
  BY <1>1, <1>3, <1>4, <1>6, <1>7 DEF Good, r

\* What is left in the request of a file that gave nothing.
LEMMA LeftoversAre ==
  ASSUME InfoInv, NEW d \in Devices, NEW old \in Leftovers(d)
  PROVE  Good(old) /\ (file[d] = NoLine => old = EmptyReq)
<1>1. CASE old = EmptyReq
  BY <1>1, EmptyIs
<1>2. CASE old # EmptyReq
  <2>1. Readable(d) /\ old = Stored(file[d])
    BY <1>2 DEF Leftovers
  <2>2. file[d] # NoLine /\ file[d] = Line(looked[d])
    BY <2>1 DEF Readable, InfoInv
  <2>3. Good(looked[d])
    BY DEF InfoInv
  <2> DEFINE q == looked[d]
  <2>4. old = Stored(Line(q)) /\ Good(q)
    BY <2>1, <2>2, <2>3
  <2> HIDE DEF q
  <2>5. Good(old)
    BY <2>4, StoredIs DEF Good
  <2> QED
    BY <2>2, <2>5
<1> QED
  BY <1>1, <1>2

\* What a lookup may find.
Found(d, g) ==
  /\ Good(g.req) /\ g.fault \in BOOLEAN
  /\ g.from # "sdp" => g.line = file[d]
  /\ g.from = "file" => Readable(d) /\ g.req = Stored(file[d])
  /\ g.from = "sdp" => Quirked(g.req.rd) /\ (g.line = file[d] \/ g.line = Line(g.req))
  /\ ~ faults /\ ~ g.fault /\ Ordinary(offer[d]) =>
       g.from # "undefined" /\ (g.from = "sdp" => Storable(g.req))

LEMMA FromFileIs ==
  ASSUME InfoInv, NEW d \in Devices, NEW g \in FromFile(d)
  PROVE  Found(d, g)
<1>1. file[d] # NoLine /\ file[d] = Line(looked[d]) /\ Good(looked[d])
  BY DEF FromFile, InfoInv
<1> DEFINE q == looked[d]
<1>2. Good(q) /\ file[d] = Line(q) /\ (~ faults /\ Ordinary(offer[d]) => Storable(q))
  BY <1>1 DEF InfoInv
<1> HIDE DEF q
<1>3. Good(Stored(file[d])) /\ (Storable(q) => Readable(d))
  <2>1. Good(Stored(Line(q))) /\ (Storable(q) => Scan(Line(q).text).ok)
    BY <1>2, StoredIs DEF Good
  <2> QED
    BY <1>1, <1>2, <2>1 DEF Readable
<1>4. CASE Readable(d)
  <2>1. g = Got(d, "file", Stored(file[d]), FALSE)
    BY <1>1, <1>4 DEF FromFile
  <2>2. g.from = "file" /\ g.req = Stored(file[d]) /\ g.line = file[d] /\ g.fault = FALSE
    BY <2>1 DEF Got
  <2> QED
    BY <1>3, <1>4, <2>2 DEF Found
<1>5. CASE ~ Readable(d)
  <2>1. g = Got(d, "undefined", EmptyReq, FALSE)
    BY <1>1, <1>5 DEF FromFile
  <2>2. g.from = "undefined" /\ g.req = EmptyReq /\ g.line = file[d] /\ g.fault = FALSE
    BY <2>1 DEF Got
  <2> QED
    BY <1>2, <1>3, <1>5, <2>2, EmptyIs DEF Found
<1> QED
  BY <1>4, <1>5

LEMMA FromClassIs ==
  ASSUME InfoInv, NEW d \in Devices, NEW old, Good(old), NEW g \in FromClass(d, old)
  PROVE  Found(d, g)
<1>1. PICK c \in {0, 64, 192} : g = Got(d, "class", [old EXCEPT !.subclass = c, !.rd = <<>>], FALSE)
  BY DEF FromClass
<1> DEFINE q == [old EXCEPT !.subclass = c, !.rd = <<>>]
<1>2. q \in Reqs /\ q.name = old.name /\ q.flags = old.flags
  <2>1. c \in Bytes /\ <<>> \in Seq(Bytes) /\ old \in Reqs
    BY DEF Bytes, Good
  <2> QED
    BY <2>1 DEF Reqs
<1>3. Good(q)
  BY <1>2 DEF Good
<1> HIDE DEF q
<1>4. g.from = "class" /\ g.req = q /\ g.line = file[d] /\ g.fault = FALSE
  BY <1>1 DEF Got, q
<1> QED
  BY <1>3, <1>4 DEF Found

LEMMA FromSdpIs ==
  ASSUME InfoInv, NEW d \in Devices, NEW old, Good(old), NEW g \in FromSdp(d, old),
         NEW h, h = [g EXCEPT !.fault = @ \/ file[d] # NoLine],
         file[d] = NoLine => old = EmptyReq
  PROVE  Found(d, h)
<1> DEFINE o == offer[d]
<1>0. o \in Offers
  BY DEF InfoInv
<1> HIDE DEF o
<1>1. CASE g = Got(d, "undefined", EmptyReq, TRUE)
  <2>1. h.from = "undefined" /\ h.req = EmptyReq /\ h.line = file[d] /\ h.fault = TRUE
    BY <1>1 DEF Got
  <2> QED
    BY <2>1, EmptyIs DEF Found
<1>2. CASE g # Got(d, "undefined", EmptyReq, TRUE)
  <2>1. PICK pnp \in BOOLEAN, memory \in BOOLEAN :
          g \in IF LeavesBounds(o, old, memory) THEN {Got(d, "undefined", EmptyReq, FALSE)}
                ELSE LET req == ReqOf(o, old, pnp, memory)
                         got == Got(d, "sdp", req, ~ (pnp /\ memory))
                     IN {got, [got EXCEPT !.line = Line(req)]}
    <3> DEFINE F(p, m) ==
          IF LeavesBounds(o, old, m) THEN {Got(d, "undefined", EmptyReq, FALSE)}
          ELSE LET req == ReqOf(o, old, p, m)
                   got == Got(d, "sdp", req, ~ (p /\ m))
               IN {got, [got EXCEPT !.line = Line(req)]}
    <3>1. FromSdp(d, old) = {Got(d, "undefined", EmptyReq, TRUE)} \cup
                            UNION {F(p, m) : p \in BOOLEAN, m \in BOOLEAN}
      BY DEF FromSdp, o
    <3> HIDE DEF F
    <3>2. g \in UNION {F(p, m) : p \in BOOLEAN, m \in BOOLEAN}
      <4> DEFINE U == UNION {F(p, m) : p \in BOOLEAN, m \in BOOLEAN}
      <4> HIDE DEF U
      <4>1. FromSdp(d, old) = {Got(d, "undefined", EmptyReq, TRUE)} \cup U
        BY <3>1 DEF U
      <4>2. g \in U
        BY <1>2, <4>1
      <4> QED
        BY <4>2 DEF U
    <3>3. \E p \in BOOLEAN, m \in BOOLEAN : g \in F(p, m)
      BY <3>2
    <3> QED
      BY <3>3 DEF F
  <2>2. CASE LeavesBounds(o, old, memory)
    <3>1. g = Got(d, "undefined", EmptyReq, FALSE)
      BY <2>1, <2>2
    <3>2. h.from = "undefined" /\ h.req = EmptyReq /\ h.line = file[d] /\ h.fault = (file[d] # NoLine)
      BY <3>1 DEF Got
    <3>3. ASSUME file[d] = NoLine, Ordinary(o) PROVE FALSE
      <4>1. old.rd = <<>> /\ old.name = <<>>
        BY <3>3, EmptyIs
      <4>2. ~ Len(o.rd) < Size
        <5>1. Len(o.rd) \in Nat /\ Len(o.rd) >= Size
          BY <1>0, <3>3, OfferIs DEF Ordinary
        <5> QED
          BY <5>1, PatternLength
      <4>3. ~ Len(NameOf(o, old.name)) >= NameSize
        <5>1. <<>> \in Text /\ Len(<<>>) < NameSize
          BY InfoSizesAssumption DEF Text
        <5>2. NameOf(o, old.name) \in Text
          BY <1>0, <4>1, <5>1, NameIs
        <5>3. Len(NameOf(o, old.name)) \in Nat /\ NameSize \in Nat
          BY <5>2, InfoSizesAssumption DEF Text
        <5>4. Len(NameOf(o, old.name)) < NameSize
          BY <3>3, <4>1 DEF Ordinary
        <5> QED
          BY <5>3, <5>4
      <4> QED
        BY <2>2, <4>1, <4>2, <4>3 DEF LeavesBounds
    <3> QED
      BY <3>2, <3>3, EmptyIs DEF Found, o
  <2>3. CASE ~ LeavesBounds(o, old, memory)
    <3> DEFINE req == ReqOf(o, old, pnp, memory)
               got == Got(d, "sdp", req, ~ (pnp /\ memory))
    <3>1. Good(req) /\ Quirked(req.rd)
      BY <1>0, <2>3, ReqOfIs
    <3>2. g = got \/ g = [got EXCEPT !.line = Line(req)]
      BY <2>1, <2>3
    <3> HIDE DEF req
    <3>3. /\ h.from = "sdp" /\ h.req = req /\ (h.line = file[d] \/ h.line = Line(req))
      BY <3>2 DEF Got
    <3>4. h.fault \in BOOLEAN /\ (~ h.fault => pnp /\ memory /\ file[d] = NoLine)
      <4>1. g.fault = ~ (pnp /\ memory)
        BY <3>2 DEF Got
      <4>2. h.fault = (g.fault \/ file[d] # NoLine)
        BY <3>2 DEF Got
      <4>3. h.fault <=> (g.fault \/ file[d] # NoLine)
        BY <4>2
      <4>4. g.fault <=> ~ (pnp /\ memory)
        BY <4>1
      <4>5. h.fault \in BOOLEAN
        BY <4>2
      <4> QED
        BY <4>3, <4>4, <4>5
    <3>5. ASSUME ~ h.fault, Ordinary(o) PROVE Storable(req)
      <4>1. pnp = TRUE /\ memory = TRUE /\ old = EmptyReq
        BY <3>4, <3>5
      <4> QED
        BY <3>5, <4>1 DEF Ordinary, req
    <3> QED
      BY <3>1, <3>3, <3>4, <3>5 DEF Found, o
  <2> QED
    BY <2>2, <2>3
<1> QED
  BY <1>1, <1>2

LEMMA LookupsAre ==
  ASSUME InfoInv, NEW d \in Devices, NEW nosdp \in BOOLEAN, NEW nocheck \in BOOLEAN,
         NEW got \in Lookups(d, nosdp, nocheck)
  PROVE  Found(d, got)
<1>1. CASE got \in FromFile(d)
  BY <1>1, FromFileIs
<1>2. CASE got = Got(d, "failed", EmptyReq, FALSE)
  <2>1. got.from = "failed" /\ got.req = EmptyReq /\ got.line = file[d] /\ got.fault = FALSE
    BY <1>2 DEF Got
  <2> QED
    BY <2>1, EmptyIs DEF Found
<1>3. CASE ~ nocheck /\ got = [Got(d, "rejected", EmptyReq, FALSE) EXCEPT !.fault = @ \/ file[d] # NoLine]
  <2>1. got.from = "rejected" /\ got.req = EmptyReq /\ got.line = file[d] /\ got.fault \in BOOLEAN
    BY <1>3 DEF Got
  <2> QED
    BY <2>1, EmptyIs DEF Found
<1>4. ASSUME NEW old \in Leftovers(d), NEW g \in FromClass(d, old),
             got = [g EXCEPT !.fault = @ \/ file[d] # NoLine]
      PROVE  Found(d, got)
  <2>1. Found(d, g) /\ g.from = "class"
    <3>1. Good(old)
      BY LeftoversAre
    <3>2. Found(d, g)
      BY <3>1, FromClassIs
    <3>3. g.from = "class"
      BY DEF FromClass, Got
    <3> QED
      BY <3>2, <3>3
  <2>2. got.from = g.from /\ got.req = g.req /\ got.line = g.line /\ got.fault \in BOOLEAN
    BY <1>4 DEF FromClass, Got
  <2> QED
    BY <2>1, <2>2 DEF Found
<1>5. ASSUME NEW old \in Leftovers(d), NEW g \in FromSdp(d, old),
             got = [g EXCEPT !.fault = @ \/ file[d] # NoLine]
      PROVE  Found(d, got)
  <2>1. Good(old) /\ (file[d] = NoLine => old = EmptyReq)
    BY LeftoversAre
  <2> QED
    BY <1>5, <2>1, FromSdpIs
<1>6. \/ got \in FromFile(d) \/ got = Got(d, "failed", EmptyReq, FALSE)
      \/ ~ nocheck /\ got = [Got(d, "rejected", EmptyReq, FALSE) EXCEPT !.fault = @ \/ file[d] # NoLine]
      \/ \E old \in Leftovers(d) : \E g \in FromClass(d, old) :
           got = [g EXCEPT !.fault = @ \/ file[d] # NoLine]
      \/ \E old \in Leftovers(d) : \E g \in FromSdp(d, old) :
           got = [g EXCEPT !.fault = @ \/ file[d] # NoLine]
  <2> DEFINE F(old) == IF nosdp THEN FromClass(d, old) ELSE FromSdp(d, old)
             More == IF ~ nocheck THEN {Got(d, "rejected", EmptyReq, FALSE)}
                     ELSE UNION {F(old) : old \in Leftovers(d)}
  <2>1. Lookups(d, nosdp, nocheck) =
          FromFile(d) \cup {Got(d, "failed", EmptyReq, FALSE)} \cup
          {[g EXCEPT !.fault = @ \/ file[d] # NoLine] : g \in More}
    BY DEF Lookups
  <2> HIDE DEF More
  <2>2. \/ got \in FromFile(d) \/ got = Got(d, "failed", EmptyReq, FALSE)
        \/ \E g \in More : got = [g EXCEPT !.fault = @ \/ file[d] # NoLine]
    BY <2>1
  <2>3. ASSUME NEW g \in More
        PROVE  \/ ~ nocheck /\ g = Got(d, "rejected", EmptyReq, FALSE)
               \/ \E old \in Leftovers(d) : g \in FromClass(d, old)
               \/ \E old \in Leftovers(d) : g \in FromSdp(d, old)
    <3>1. CASE ~ nocheck
      BY <3>1 DEF More
    <3>2. CASE nocheck
      <4> HIDE DEF F
      <4>1. g \in UNION {F(old) : old \in Leftovers(d)}
        BY <3>2 DEF More
      <4>2. PICK old \in Leftovers(d) : g \in F(old)
        BY <4>1
      <4> QED
        BY <4>2 DEF F
    <3> QED
      BY <3>1, <3>2
  <2> QED
    BY <2>2, <2>3, Zenon
<1> QED
  BY <1>1, <1>2, <1>3, <1>4, <1>5, <1>6

(***************************************************************************)
(* The steps                                                               *)
(***************************************************************************)

LEMMA InfoInitially == InfoInit => InfoInv /\ AddedAsLookedUp
<1> SUFFICES ASSUME InfoInit PROVE InfoInv /\ AddedAsLookedUp
  OBVIOUS
<1>1. /\ \A d \in Devices : file[d] = NoLine /\ looked[d] = EmptyReq
      /\ DOMAIN file = Devices
  BY DEF InfoInit
<1>2. EmptyReq \in Reqs /\ Good(EmptyReq) /\ Quirked(EmptyReq.rd) /\ Len(EmptyReq.name) < NameSize
  BY EmptyIs DEF Good
<1>3. looked \in [Devices -> Reqs]
  BY <1>2 DEF InfoInit
<1>4. result.req = EmptyReq /\ result.from = "none"
  BY DEF InfoInit, NoResult
<1>5. 0 \in 0 .. MaxCalls /\ 0 \in 0 .. 2 * 0
  BY InfoSizesAssumption
<1>6. calls \in 0 .. MaxCalls /\ hciOpen \in 0 .. 2 * calls
  BY <1>5 DEF InfoInit
<1>7. InfoInv
  BY <1>1, <1>2, <1>3, <1>4, <1>6 DEF InfoInit, InfoInv
<1>8. AddedAsLookedUp
  BY <1>4 DEF AddedAsLookedUp
<1> QED
  BY <1>7, <1>8

\* What Create() leaves behind.
LEMMA Created ==
  ASSUME InfoInv, NEW d \in Devices, NEW r \in Requests, NEW got, Found(d, got),
         Create(d, got, r)
  PROVE  /\ result'.req \in Reqs /\ Len(result'.req.name) < NameSize
         /\ undefined' = FALSE /\ faults' \in BOOLEAN
         /\ hciOpen' \in hciOpen .. hciOpen + 2
         /\ ~ faults' => ~ faults /\ ~ got.fault /\ hciOpen' = hciOpen
         /\ result'.from = "file" =>
              /\ got.from = "file" /\ result'.dev = d
              /\ result'.req.vendor = got.req.vendor /\ result'.req.parser = got.req.parser
              /\ result'.req.flags = got.req.flags /\ result'.req.name = got.req.name
              /\ ~ result'.boot => result'.req.rd = got.req.rd
<1> DEFINE c    == IF r.subclass # 0 THEN r.subclass ELSE got.req.subclass
           asks == r.encrypt /\ (c \div 64) % 2 = 1
           q    == [got.req EXCEPT !.subclass = c, !.rd = IF r.bootonly THEN <<>> ELSE @]
<1>0. r.subclass \in Bytes /\ r.bootonly \in BOOLEAN
  <2>1. r \in [nosdp : BOOLEAN, nocheck : BOOLEAN, bootonly : BOOLEAN, encrypt : BOOLEAN, subclass : Bytes]
    BY RequestsAssumption
  <2> QED
    BY <2>1
<1>1. PICK auth, enc :
        /\ hciOpen' = hciOpen + LeftOpen(auth) + LeftOpen(enc)
        /\ faults' = (faults \/ got.fault \/ "no memory" \in {auth, enc})
        /\ result' = IF auth = "ok"
                       THEN [dev |-> d, from |-> got.from, req |-> q, boot |-> r.bootonly]
                       ELSE [NoResult EXCEPT !.dev = d, !.from = "failed"]
        /\ undefined' = FALSE
  <2> DEFINE Ways == IF asks THEN {"ok", "error", "no memory"} ELSE {"ok"}
  <2>1. \E auth \in Ways, enc \in Ways :
          /\ hciOpen' = hciOpen + LeftOpen(auth) + LeftOpen(enc)
          /\ faults' = (faults \/ got.fault \/ "no memory" \in {auth, enc})
          /\ result' = IF auth = "ok"
                         THEN [dev |-> d, from |-> got.from, req |-> q, boot |-> r.bootonly]
                         ELSE [NoResult EXCEPT !.dev = d, !.from = "failed"]
          /\ undefined' = FALSE
    BY DEF Create
  <2> HIDE DEF Ways, q
  <2> QED
    BY <2>1
<1> HIDE DEF asks
<1>2. got.req \in Reqs /\ Len(got.req.name) < NameSize /\ got.fault \in BOOLEAN
  BY DEF Found, Good
<1>3. /\ q \in Reqs /\ q.vendor = got.req.vendor /\ q.parser = got.req.parser
      /\ q.flags = got.req.flags /\ q.name = got.req.name
      /\ ~ r.bootonly => q.rd = got.req.rd
  <2>1. c \in Bytes
    BY <1>0, <1>2 DEF Reqs
  <2>2. (IF r.bootonly THEN <<>> ELSE got.req.rd) \in Seq(Bytes)
    <3>0. got.req \in Reqs
      BY <1>2
    <3>1. got.req.rd \in Seq(Bytes)
      BY <3>0 DEF Reqs
    <3>2. <<>> \in Seq(Bytes)
      OBVIOUS
    <3> QED
      BY <3>1, <3>2
  <2> HIDE DEF c
  <2> QED
    BY <1>2, <2>1, <2>2 DEF Reqs
<1> HIDE DEF q
<1>4. hciOpen \in Nat
  <2>1. calls \in 0 .. MaxCalls /\ MaxCalls \in Nat /\ hciOpen \in 0 .. 2 * calls
    BY InfoSizesAssumption DEF InfoInv
  <2> QED
    BY <2>1
<1>5. ASSUME NEW w PROVE \E x \in 0 .. 1 : x = LeftOpen(w) /\ (w # "no memory" => x = 0)
  <2>1. 0 \in 0 .. 1 /\ 1 \in 0 .. 1
    OBVIOUS
  <2>2. CASE w = "no memory"
    <3>1. LeftOpen(w) = 1
      BY <2>2 DEF LeftOpen
    <3> QED
      BY <2>1, <2>2, <3>1, Zenon
  <2>3. CASE w # "no memory"
    <3>1. LeftOpen(w) = 0
      BY <2>3 DEF LeftOpen
    <3> QED
      BY <2>1, <3>1, Zenon
  <2> QED
    BY <2>2, <2>3
<1>x. PICK x \in 0 .. 1 : x = LeftOpen(auth) /\ (auth # "no memory" => x = 0)
  BY <1>5
<1>y. PICK y \in 0 .. 1 : y = LeftOpen(enc) /\ (enc # "no memory" => y = 0)
  BY <1>5
<1>s. hciOpen' = hciOpen + x + y
  BY <1>1, <1>x, <1>y
<1>6. hciOpen' \in hciOpen .. hciOpen + 2
  <2>1. PICK n \in Nat : n = hciOpen
    BY <1>4
  <2>2. n + x + y \in n .. n + 2
    OBVIOUS
  <2> QED
    BY <1>s, <2>1, <2>2
<1>7. faults' <=> (faults \/ got.fault \/ "no memory" \in {auth, enc})
  BY <1>1
<1>8. faults' \in BOOLEAN
  BY <1>1
<1>9. ~ faults' => ~ faults /\ ~ got.fault /\ hciOpen' = hciOpen
  <2>1. ~ faults' => ~ faults /\ ~ got.fault /\ auth # "no memory" /\ enc # "no memory"
    BY <1>7
  <2>2. auth # "no memory" /\ enc # "no memory" => hciOpen' = hciOpen
    <3>1. x = 0 /\ y = 0 => hciOpen' = hciOpen
      BY <1>4, <1>s
    <3> QED
      BY <1>x, <1>y, <3>1, Zenon
  <2> QED
    BY <2>1, <2>2
<1>10. CASE auth = "ok"
  <2>1. result'.req = q /\ result'.from = got.from /\ result'.dev = d /\ result'.boot = r.bootonly
    BY <1>1, <1>10
  <2> QED
    BY <1>1, <1>2, <1>3, <1>6, <1>8, <1>9, <2>1
<1>11. CASE auth # "ok"
  <2>1. result'.req = EmptyReq /\ result'.from = "failed"
    BY <1>1, <1>11 DEF NoResult
  <2> QED
    BY <1>1, <1>6, <1>8, <1>9, <2>1, EmptyIs DEF Good
<1> QED
  BY <1>10, <1>11

LEMMA InfoStep ==
  ASSUME InfoInv, NEW d \in Devices, NEW r \in Requests, CreateDevice(d, r)
  PROVE  InfoInv' /\ AddedAsLookedUp'
<1>0. r.nosdp \in BOOLEAN /\ r.nocheck \in BOOLEAN
  <2>1. r \in [nosdp : BOOLEAN, nocheck : BOOLEAN, bootonly : BOOLEAN, encrypt : BOOLEAN, subclass : Bytes]
    BY RequestsAssumption
  <2> QED
    BY <2>1
<1>1. calls < MaxCalls /\ calls' = calls + 1 /\ offer' = offer
  BY DEF CreateDevice
<1>2. PICK got \in Lookups(d, r.nosdp, r.nocheck) :
        /\ file' = [file EXCEPT ![d] = got.line]
        /\ looked' = IF got.from = "sdp" /\ got.line # file[d]
                       THEN [looked EXCEPT ![d] = got.req] ELSE looked
        /\ IF got.from \in {"file", "sdp", "class"}
             THEN Create(d, got, r)
             ELSE /\ undefined' = (got.from = "undefined")
                  /\ result' = [NoResult EXCEPT !.dev = d, !.from = got.from]
                  /\ faults' = (faults \/ got.fault)
                  /\ UNCHANGED hciOpen
  BY DEF CreateDevice
<1>3. Found(d, got)
  BY <1>0, <1>2, LookupsAre
<1>4. PICK n \in Nat, m \in Nat : /\ n = calls /\ m = hciOpen /\ n < MaxCalls /\ m <= 2 * n
                                  /\ MaxCalls \in Nat
  BY <1>1, InfoSizesAssumption DEF InfoInv
<1>5. /\ result'.req \in Reqs /\ Len(result'.req.name) < NameSize
      /\ undefined' \in BOOLEAN /\ faults' \in BOOLEAN
      /\ hciOpen' \in m .. m + 2
      /\ ~ faults' => ~ faults /\ ~ got.fault /\ hciOpen' = m
      /\ undefined' => got.from = "undefined"
      /\ result'.from = "file" =>
           /\ got.from = "file" /\ result'.dev = d
           /\ result'.req.vendor = got.req.vendor /\ result'.req.parser = got.req.parser
           /\ result'.req.flags = got.req.flags /\ result'.req.name = got.req.name
           /\ ~ result'.boot => result'.req.rd = got.req.rd
  <2>1. CASE got.from \in {"file", "sdp", "class"}
    <3>1. Create(d, got, r)
      BY <1>2, <2>1
    <3> QED
      BY <1>3, <1>4, <3>1, Created
  <2>2. CASE got.from \notin {"file", "sdp", "class"}
    <3>1. /\ undefined' = (got.from = "undefined")
          /\ result' = [NoResult EXCEPT !.dev = d, !.from = got.from]
          /\ faults' = (faults \/ got.fault) /\ hciOpen' = hciOpen
      BY <1>2, <2>2
    <3>2. result'.req = EmptyReq /\ result'.from = got.from
      BY <3>1 DEF NoResult
    <3>3. EmptyReq \in Reqs /\ Len(EmptyReq.name) < NameSize
      BY EmptyIs DEF Good
    <3>4. undefined' \in BOOLEAN /\ (undefined' => got.from = "undefined")
      BY <3>1
    <3>5. faults' \in BOOLEAN /\ (~ faults' => ~ faults /\ ~ got.fault)
      <4>1. faults' <=> (faults \/ got.fault)
        BY <3>1
      <4>2. faults' \in BOOLEAN
        BY <3>1
      <4> QED
        BY <4>1, <4>2
    <3>6. hciOpen' = m /\ hciOpen' \in m .. m + 2
      BY <1>4, <3>1
    <3> QED
      BY <2>2, <3>2, <3>3, <3>4, <3>5, <3>6
  <2> QED
    BY <2>1, <2>2
<1>6. /\ looked \in [Devices -> Reqs] /\ DOMAIN file = Devices
      /\ \A e \in Devices : Good(looked[e]) /\ Quirked(looked[e].rd)
      /\ \A e \in Devices : file[e] = NoLine \/ file[e] = Line(looked[e])
  BY DEF InfoInv
<1>7. /\ DOMAIN file' = Devices /\ file'[d] = got.line
      /\ \A e \in Devices \ {d} : file'[e] = file[e] /\ looked'[e] = looked[e]
  BY <1>2, <1>6
\* The line and what it was made from change together.
<1>8. \/ looked'[d] = got.req /\ got.from = "sdp" /\ got.line = Line(got.req)
      \/ looked'[d] = looked[d] /\ got.line = file[d]
  <2>1. CASE got.from = "sdp" /\ got.line # file[d]
    <3>1. looked' = [looked EXCEPT ![d] = got.req]
      BY <1>2, <2>1
    <3>2. looked'[d] = got.req
      BY <1>6, <3>1
    <3>3. got.line = Line(got.req)
      BY <1>3, <2>1 DEF Found
    <3> QED
      BY <2>1, <3>2, <3>3
  <2>2. CASE ~ (got.from = "sdp" /\ got.line # file[d])
    <3>1. looked' = looked
      BY <1>2, <2>2
    <3>2. got.line = file[d]
      BY <1>3, <2>2 DEF Found
    <3> QED
      BY <3>1, <3>2
  <2> QED
    BY <2>1, <2>2
<1>9. looked' \in [Devices -> Reqs]
  <2>1. got.req \in Reqs
    BY <1>3 DEF Found, Good
  <2> QED
    BY <1>2, <1>6, <2>1
<1>10. ASSUME NEW e \in Devices
       PROVE  /\ Good(looked'[e]) /\ Quirked(looked'[e].rd)
              /\ file'[e] = NoLine \/ file'[e] = Line(looked'[e])
  <2>1. CASE e # d
    BY <1>6, <1>7, <2>1
  <2>2. CASE e = d
    <3>1. got.from = "sdp" => Good(got.req) /\ Quirked(got.req.rd)
      BY <1>3 DEF Found
    <3> QED
      BY <1>6, <1>7, <1>8, <2>2, <3>1
  <2> QED
    BY <2>1, <2>2
<1>11. ASSUME ~ faults', NEW e \in Devices, file'[e] # NoLine, Ordinary(offer[e])
       PROVE  Storable(looked'[e])
  <2>1. ~ faults /\ ~ got.fault
    BY <1>5, <1>11
  <2>2. \A b \in Devices : file[b] # NoLine /\ Ordinary(offer[b]) => Storable(looked[b])
    BY <2>1 DEF InfoInv
  <2>3. CASE e # d
    BY <1>7, <1>11, <2>2, <2>3
  <2>4. CASE e = d
    <3>1. got.from = "sdp" => Storable(got.req)
      BY <1>3, <1>11, <2>1, <2>4 DEF Found
    <3> QED
      BY <1>7, <1>8, <1>11, <2>2, <2>4, <3>1
  <2> QED
    BY <2>3, <2>4
<1>12. ASSUME ~ faults'
       PROVE  hciOpen' = 0 /\ ((\A e \in Devices : Ordinary(offer[e])) => ~ undefined')
  <2>1. ~ faults /\ ~ got.fault /\ hciOpen' = m
    BY <1>5, <1>12
  <2>2. m = 0
    BY <1>4, <2>1 DEF InfoInv
  <2>3. Ordinary(offer[d]) => got.from # "undefined"
    BY <1>3, <2>1 DEF Found
  <2> QED
    BY <1>5, <2>1, <2>2, <2>3
<1>13. calls' \in 0 .. MaxCalls /\ hciOpen' \in 0 .. 2 * calls'
  <2>1. PICK k \in Nat : k = hciOpen' /\ k <= m + 2
    BY <1>4, <1>5
  <2>2. n + 1 \in 0 .. MaxCalls /\ k \in 0 .. 2 * (n + 1)
    BY <1>4, <2>1
  <2> QED
    BY <1>1, <1>4, <2>1, <2>2
<1>14. InfoInv'
  <2>1. offer' \in [Devices -> Offers]
    BY <1>1 DEF InfoInv
  <2>2. ~ faults' => hciOpen' = 0 /\ ((\A e \in Devices : Ordinary(offer'[e])) => ~ undefined')
    BY <1>1, <1>12
  <2>3. ~ faults' => \A e \in Devices : file'[e] # NoLine /\ Ordinary(offer'[e]) => Storable(looked'[e])
    BY <1>1, <1>11
  <2>4. \A e \in Devices : Good(looked'[e]) /\ Quirked(looked'[e].rd)
    BY <1>10
  <2>5. \A e \in Devices : file'[e] = NoLine \/ file'[e] = Line(looked'[e])
    BY <1>10
  <2> QED
    BY <1>5, <1>7, <1>9, <1>13, <2>1, <2>2, <2>3, <2>4, <2>5 DEF InfoInv
<1>15. AddedAsLookedUp'
  <2>1. ASSUME result'.from = "file", Storable(looked'[result'.dev])
        PROVE  /\ result'.req.vendor = looked'[d].vendor /\ result'.req.parser = looked'[d].parser
               /\ result'.req.flags = looked'[d].flags /\ result'.req.name = looked'[d].name
               /\ ~ result'.boot => result'.req.rd = looked'[d].rd
               /\ result'.dev = d
    <3>1. /\ got.from = "file" /\ result'.dev = d
          /\ result'.req.vendor = got.req.vendor /\ result'.req.parser = got.req.parser
          /\ result'.req.flags = got.req.flags /\ result'.req.name = got.req.name
          /\ ~ result'.boot => result'.req.rd = got.req.rd
      BY <1>5, <2>1
    <3>2. looked'[d] = looked[d] /\ got.req = Stored(file[d]) /\ file[d] = Line(looked[d])
      <4>1. Readable(d) /\ got.req = Stored(file[d])
        BY <1>3, <3>1 DEF Found
      <4>2. "file" # "sdp"
        OBVIOUS
      <4> QED
        BY <1>6, <1>8, <3>1, <4>1, <4>2 DEF Readable
    <3> DEFINE q == looked[d]
    <3>3. Good(q) /\ Storable(q) /\ got.req = Stored(Line(q))
      BY <1>6, <2>1, <3>1, <3>2
    <3> HIDE DEF q
    <3>4. /\ got.req.vendor = q.vendor /\ got.req.parser = q.parser
          /\ got.req.flags = q.flags /\ got.req.name = q.name /\ got.req.rd = q.rd
      BY <3>3, StoredIs DEF Good
    <3> QED
      BY <3>1, <3>2, <3>4 DEF q
  <2> QED
    BY <2>1 DEF AddedAsLookedUp
<1> QED
  BY <1>14, <1>15

LEMMA InfoStutter ==
  InfoInv /\ AddedAsLookedUp /\ UNCHANGED infoVars => InfoInv' /\ AddedAsLookedUp'
<1> SUFFICES ASSUME InfoInv, AddedAsLookedUp, UNCHANGED infoVars
             PROVE  InfoInv' /\ AddedAsLookedUp'
  OBVIOUS
<1>1. /\ offer' = offer /\ file' = file /\ result' = result /\ undefined' = undefined
      /\ hciOpen' = hciOpen /\ calls' = calls /\ faults' = faults /\ looked' = looked
  BY DEF infoVars
<1>2. InfoInv'
  BY <1>1 DEF InfoInv
<1>3. AddedAsLookedUp'
  BY <1>1 DEF AddedAsLookedUp
<1> QED
  BY <1>2, <1>3

LEMMA InfoAlways == InfoSpec => [](InfoInv /\ AddedAsLookedUp)
<1>1. InfoInit => InfoInv /\ AddedAsLookedUp
  BY InfoInitially
<1>2. InfoInv /\ AddedAsLookedUp /\ [InfoNext]_infoVars => (InfoInv /\ AddedAsLookedUp)'
  <2> SUFFICES ASSUME InfoInv, AddedAsLookedUp, [InfoNext]_infoVars
               PROVE  InfoInv' /\ AddedAsLookedUp'
    OBVIOUS
  <2>1. CASE InfoNext
    BY <2>1, InfoStep DEF InfoNext
  <2>2. CASE UNCHANGED infoVars
    BY <2>2, InfoStutter
  <2> QED
    BY <2>1, <2>2
<1> QED
  BY <1>1, <1>2, PTL DEF InfoSpec

\* Whatever is looked up, stored and read back has the types of the request's fields,
\* and the name stays within its field (create_device(), jni/hidserv.c).
THEOREM TypeCorrect == InfoSpec => []InfoTypeOK
<1>1. InfoInv => InfoTypeOK
  <2> SUFFICES ASSUME InfoInv PROVE InfoTypeOK
    OBVIOUS
  <2>1. ASSUME NEW d \in Devices PROVE file[d] = NoLine \/ file[d].text \in Text
    <3>1. CASE file[d] = NoLine
      BY <3>1
    <3>2. CASE file[d] # NoLine
      <4>1. file[d] = Line(looked[d]) /\ Good(looked[d])
        BY <3>2 DEF InfoInv
      <4> DEFINE q == looked[d]
                 t == Line(q).text
      <4>2. q \in Reqs /\ Len(q.flags) <= FlagDigits
        BY <4>1 DEF Good, Normal
      <4> HIDE DEF q
      <4>3. t \in Text
        BY <4>2, LineText DEF LineShape
      <4> QED
        BY <4>1, <4>3 DEF q
    <3> QED
      BY <3>1, <3>2
  <2>2. \A d \in Devices : looked[d] \in Reqs
    BY DEF InfoInv
  <2>3. hciOpen \in 0 .. 2 * MaxCalls
    <3>1. MaxCalls \in Nat /\ calls \in 0 .. MaxCalls /\ hciOpen \in 0 .. 2 * calls
      BY InfoSizesAssumption DEF InfoInv
    <3> QED
      BY <3>1
  <2> QED
    BY <2>1, <2>2, <2>3 DEF InfoInv, InfoTypeOK
<1> QED
  BY <1>1, InfoAlways, PTL

\* A device that comes back is added from the file with the vendor, the flags, the
\* name and the descriptor its records had when they were looked up: store_device_info()
\* and get_stored_device_info() (jni/sdp.c) undo each other for everything the file can
\* hold.
THEOREM AddedCorrect == InfoSpec => []AddedAsLookedUp
  BY InfoAlways, PTL

\* epox_endian_quirk() (jni/sdp.c) leaves none of the patterns it looks for in the
\* descriptor of a looked-up device, but for its very end.
THEOREM QuirkCorrect == InfoSpec => []QuirkDone
<1>1. InfoInv => QuirkDone
  BY DEF InfoInv, Quirked, QuirkDone
<1> QED
  BY <1>1, InfoAlways, PTL

\* While there is memory and the PnP request works, every HCI descriptor is closed,
\* and with ordinary devices no call of create_device() (jni/hidserv.c) leaves the
\* bounds of a field, reads a descriptor that is not there, or scans a line that ends
\* too soon.
THEOREM WellDefinedCorrect == InfoSpec => []WellDefined
<1>1. InfoInv => WellDefined
  BY DEF InfoInv, WellDefined
<1> QED
  BY <1>1, InfoAlways, PTL
================================================================================
