-------------------------- MODULE CommandFrameProofs --------------------------
(***************************************************************************)
(* Theorems about CommandFrame, for any size of a byte and of the buffers, *)
(* either sign of char, and any file: what is written, counted and         *)
(* compared is the command the file was made of.                           *)
(***************************************************************************)
EXTENDS CommandFrame, FiniteSetTheorems, WellFoundedInduction, TLAPS

(***************************************************************************)
(* Bytes, chars and sums                                                   *)
(***************************************************************************)

Half  == Base \div 2
Chars == IF signed THEN -Half .. Half - 1 ELSE Bytes

LEMMA Sizes ==
  /\ Base \in Nat /\ Half \in Nat /\ Base = 2 * Half /\ Half >= 4
  /\ ReportType \in 0 .. Half - 1 /\ CmdBuf \in Nat /\ CmdBuf > 7 /\ FwBuf \in Nat /\ FwBuf > 0
  /\ Unit \in Nat /\ Full \in Nat /\ Full > 0 /\ MaxTotal \in Nat
<1>1. Base \in Nat /\ Half \in Nat /\ Base = 2 * Half /\ Half >= 4
  BY SizesAssumption DEF Half
<1> QED
  BY <1>1, SizesAssumption

\* A byte of the file goes through a char and back.
LEMMA CharType ==
  ASSUME signed \in BOOLEAN, NEW b \in Bytes
  PROVE  Char(b) \in Chars /\ Byte(Char(b)) = b
<1>1. Base \in Nat /\ Base = 2 * Half /\ Half \in Nat /\ Half >= 4 /\ b \in 0 .. Base - 1
  BY Sizes DEF Bytes
<1>2. b % Base = b /\ (b - Base) % Base = b
  BY <1>1
<1>3. CASE signed /\ 2 * b >= Base
  <2>1. Char(b) = b - Base
    BY <1>3 DEF Char
  <2>2. b - Base \in -Half .. Half - 1
    BY <1>1, <1>3
  <2> QED
    BY <1>2, <1>3, <2>1, <2>2 DEF Chars, Byte
<1>4. CASE ~ (signed /\ 2 * b >= Base)
  <2>1. Char(b) = b
    BY <1>4 DEF Char
  <2>2. signed => b \in -Half .. Half - 1
    BY <1>1, <1>4
  <2> QED
    BY <1>2, <2>1, <2>2 DEF Chars, Byte
<1> QED
  BY <1>3, <1>4

LEMMA ByteType ==
  ASSUME signed \in BOOLEAN
  PROVE  /\ Chars \subseteq -Half .. Base - 1
         /\ \A c \in Int : Byte(c) \in Bytes
         /\ \A c \in Chars : Char(Byte(c)) = c
<1>1. Base \in Nat /\ Base = 2 * Half /\ Half \in Nat /\ Half >= 4
  BY Sizes
<1>2. Chars \subseteq -Half .. Base - 1
  BY <1>1 DEF Chars, Bytes
<1>3. \A c \in Int : Byte(c) \in Bytes
  BY <1>1 DEF Byte, Bytes
<1>4. ASSUME NEW c \in Chars PROVE Char(Byte(c)) = c
  <2>1. c \in -Half .. Base - 1
    BY <1>2
  <2>2. CASE c < 0
    <3>1. signed /\ c \in -Half .. -1
      BY <1>1, <2>1, <2>2 DEF Chars, Bytes
    <3>2. PICK b \in Int : b = c + Base
      BY <1>1, <3>1
    <3>3. 2 * b >= Base /\ b - Base = c
      BY <1>1, <3>1, <3>2
    <3>4. Char(b) = c
      BY <3>1, <3>3 DEF Char
    <3>5. Byte(c) = b
      <4>1. c % Base = c + Base
        BY <1>1, <3>1
      <4> QED
        BY <3>2, <4>1 DEF Byte
    <3> QED
      BY <3>4, <3>5
  <2>3. CASE c >= 0
    <3>1. Byte(c) = c
      <4>1. c % Base = c
        BY <1>1, <2>1, <2>3
      <4> QED
        BY <4>1 DEF Byte
    <3>2. Char(c) = c
      <4>1. signed => ~ (2 * c >= Base)
        BY <1>1, <2>1 DEF Chars
      <4> QED
        BY <4>1 DEF Char
    <3> QED
      BY <3>1, <3>2
  <2> QED
    BY <2>1, <2>2, <2>3
<1> QED
  BY <1>2, <1>3, <1>4

\* Two bytes of a number make one int, however char is signed, and unless the
\* low one is negative another int than any other two bytes.
LEMMA WordOf ==
  ASSUME signed \in BOOLEAN, NEW c \in Chars, NEW d \in Chars
  PROVE  /\ Word(c, d) \in -Base * Base .. Base * Base
         /\ \A a, b \in Chars : c >= 0 /\ Word(a, b) = Word(c, d) => a = c /\ b = d
<1>1. Base \in Nat /\ Base = 2 * Half /\ Half \in Nat /\ Half >= 4
  BY Sizes
<1>2. \A x \in Chars : x \in -Half .. Base - 1 /\ x \in Int
  BY <1>1, ByteType
<1>3. \A y \in Chars : Base * y \in Int /\ Base * y >= -Base * Base /\ Base * y <= Base * Base - Base
                       /\ (y >= 0 => Base * y >= 0) /\ (y < 0 => Base * y <= -Base)
  <2> SUFFICES ASSUME NEW y \in Chars
               PROVE  Base * y \in Int /\ Base * y >= -Base * Base /\ Base * y <= Base * Base - Base
                      /\ (y >= 0 => Base * y >= 0) /\ (y < 0 => Base * y <= -Base)
    OBVIOUS
  <2>1. y \in Int /\ y >= -Base /\ y <= Base - 1
    BY <1>1, <1>2
  <2> QED
    BY <1>1, <2>1
<1>4. Word(c, d) \in -Base * Base .. Base * Base
  BY <1>1, <1>2, <1>3 DEF Word
<1>5. ASSUME NEW a \in Chars, NEW b \in Chars, c >= 0, Word(a, b) = Word(c, d) PROVE a = c /\ b = d
  <2>1. Word(c, d) = c + Base * d
    BY <1>2, <1>5 DEF Word
  <2>2. a >= 0
    <3> SUFFICES ASSUME a < 0 PROVE FALSE
      BY <1>2
    <3>1. Word(a, b) = a /\ signed
      BY <1>1 DEF Word, Chars, Bytes
    <3>2. a = c + Base * d /\ a >= -Half /\ c <= Half - 1
      BY <1>2, <1>5, <2>1, <3>1 DEF Chars
    <3>3. CASE d >= 0
      BY <1>2, <1>3, <1>5, <3>2, <3>3
    <3>4. CASE d < 0
      BY <1>1, <1>2, <1>3, <3>2, <3>4
    <3> QED
      BY <1>2, <3>3, <3>4
  <2>3. a + Base * b = c + Base * d
    BY <1>2, <1>5, <2>1, <2>2 DEF Word
  <2>4. a \in 0 .. Base - 1 /\ c \in 0 .. Base - 1 /\ b \in Int /\ d \in Int
    BY <1>1, <1>2, <1>5, <2>2
  <2>5. b = d
    <3>1. Base * (b - d) = c - a /\ c - a < Base /\ c - a > -Base
      BY <1>1, <2>3, <2>4
    <3>2. CASE b - d >= 1
      BY <1>1, <2>4, <3>1, <3>2
    <3>3. CASE b - d <= -1
      BY <1>1, <2>4, <3>1, <3>3
    <3> QED
      BY <2>4, <3>2, <3>3
  <2> QED
    BY <1>1, <2>3, <2>4, <2>5
<1> QED
  BY <1>4, <1>5

\* A set of numbers that is not empty has a least one.
LEMMA LeastNumber ==
  ASSUME NEW S \in SUBSET Nat, S # {}
  PROVE  \E x \in S : \A y \in S : x <= y
<1> DEFINE R == OpToRel(<, Nat)
<1>1. \E x \in S : \A y \in S : ~ (<<y, x>> \in R)
  <2>1. IsWellFoundedOn(R, Nat)
    BY NatLessThanWellFounded
  <2> HIDE DEF R
  <2> QED
    BY <2>1, WFMin
<1>2. \A x, y \in Nat : ~ (<<y, x>> \in R) => x <= y
  BY DEF OpToRel
<1> HIDE DEF R
<1> QED
  BY <1>1, <1>2

\* The sum of the chars is a 16-bit number: the recursion in it has a solution for
\* every length, and only integers in it.
LEMMA SumType ==
  ASSUME NEW buf, NEW n \in Nat, \A c \in 1 .. n : buf[c] \in Int
  PROVE  Sum(buf, n) \in 0 .. Base * Base - 1
<1> DEFINE Sums(g, m) == g = [c \in 0 .. m |-> IF c = 0 THEN 0 ELSE g[c - 1] + buf[c]]
           Missing    == {m \in Nat : ~ \E g : Sums(g, m)}
<1>1. Missing = {}
  <2> SUFFICES ASSUME Missing # {} PROVE FALSE
    OBVIOUS
  <2>1. Missing \in SUBSET Nat
    OBVIOUS
  <2>2. PICK m \in Missing : \A y \in Missing : m <= y
    <3> HIDE DEF Missing
    <3> QED
      BY <2>1, LeastNumber
  <2>3. m # 0
    <3>1. Sums([c \in 0 .. 0 |-> 0], 0)
      OBVIOUS
    <3> QED
      BY <3>1
  <2>4. m \in Nat /\ m - 1 \in Nat /\ m - 1 \notin Missing
    BY <2>2, <2>3
  <2>5. PICK h : Sums(h, m - 1)
    BY <2>4
  <2> DEFINE g == [c \in 0 .. m |-> IF c = m THEN h[m - 1] + buf[m] ELSE h[c]]
  <2>6. Sums(g, m)
    <3>1. ASSUME NEW c \in 0 .. m PROVE g[c] = IF c = 0 THEN 0 ELSE g[c - 1] + buf[c]
      <4>1. CASE c = m
        BY <2>3, <2>4, <4>1
      <4>2. CASE c # m
        <5>1. c \in 0 .. m - 1 /\ (c # 0 => c - 1 \in 0 .. m - 1 /\ c - 1 # m)
          BY <2>4, <4>2
        <5>2. h[c] = IF c = 0 THEN 0 ELSE h[c - 1] + buf[c]
          BY <2>5, <5>1
        <5>3. g[c] = h[c] /\ (c # 0 => g[c - 1] = h[c - 1])
          BY <4>2, <5>1
        <5> QED
          BY <5>2, <5>3
      <4> QED
        BY <4>1, <4>2
    <3>2. g = [c \in 0 .. m |-> g[c]]
      OBVIOUS
    <3> QED
      BY <3>1, <3>2
  <2>7. m \notin Missing
    <3> HIDE DEF g, Sums
    <3> QED
      BY <2>6
  <2> QED
    BY <2>2, <2>7
<1> DEFINE sum == CHOOSE g : Sums(g, n)
<1>2. Sums(sum, n)
  <2>1. \E g : Sums(g, n)
    BY <1>1
  <2> HIDE DEF Sums
  <2> QED
    BY <2>1
<1>3. Sum(buf, n) = sum[n] % (Base * Base)
  BY DEF Sum
<1> HIDE DEF sum
<1> DEFINE Strange == {c \in 0 .. n : sum[c] \notin Int}
<1>4. Strange = {}
  <2> SUFFICES ASSUME Strange # {} PROVE FALSE
    OBVIOUS
  <2>1. Strange \in SUBSET Nat
    OBVIOUS
  <2>2. PICK m \in Strange : \A y \in Strange : m <= y
    <3> HIDE DEF Strange
    <3> QED
      BY <2>1, LeastNumber
  <2>3. m \in 0 .. n /\ sum[m] = IF m = 0 THEN 0 ELSE sum[m - 1] + buf[m]
    BY <1>2, <2>2
  <2>4. m # 0 => m - 1 \in 0 .. n /\ m \in 1 .. n /\ m - 1 \notin Strange
    BY <2>2, <2>3
  <2>5. sum[m] \in Int
    BY <2>3, <2>4
  <2> QED
    BY <2>2, <2>5
<1>5. sum[n] \in Int /\ Base * Base \in Nat /\ Base * Base > 0
  <2>1. Base * Base \in Nat /\ Base * Base > 0
    BY Sizes
  <2> QED
    BY <1>4, <2>1
<1> DEFINE Q == Base * Base
<1>6. sum[n] % Q \in 0 .. Q - 1
  <2> HIDE DEF Q
  <2>1. sum[n] \in Int /\ Q \in Nat /\ Q > 0
    BY <1>5 DEF Q
  <2> QED
    BY <2>1
<1> QED
  BY <1>3, <1>6

(***************************************************************************)
(* The command in cmd_buf                                                  *)
(***************************************************************************)

\* buf is cmd_buf with chars behind the report type.
Buffer(buf) ==
  /\ buf \in [0 .. CmdBuf - 1 -> -Half .. Base - 1]
  /\ buf[0] = ReportType
  /\ \A c \in 1 .. CmdBuf - 1 : buf[c] \in Chars

LEMMA CopyIs ==
  ASSUME signed \in BOOLEAN, fw \in [0 .. FwBuf - 1 -> Bytes],
         NEW i \in Nat, NEW n \in Nat, i + n <= FwBuf, n + 2 < CmdBuf
  PROVE  /\ Buffer(Copy(i, n))
         /\ \A c \in 1 .. n : Copy(i, n)[c] = Char(fw[i + c - 1])
         /\ \A c \in n + 1 .. CmdBuf - 1 : Copy(i, n)[c] = 0
<1> DEFINE buf == Copy(i, n)
<1>s. /\ Base \in Nat /\ Half \in Nat /\ Base = 2 * Half /\ Half >= 4 /\ ReportType \in 0 .. Half - 1
      /\ CmdBuf \in Nat /\ CmdBuf > 7 /\ FwBuf \in Nat
  BY Sizes
<1>1. \A c \in 1 .. n : fw[i + c - 1] \in Bytes /\ Char(fw[i + c - 1]) \in Chars
  <2> SUFFICES ASSUME NEW c \in 1 .. n PROVE fw[i + c - 1] \in Bytes /\ Char(fw[i + c - 1]) \in Chars
    OBVIOUS
  <2>1. i + c - 1 \in 0 .. FwBuf - 1
    BY <1>s
  <2>2. fw[i + c - 1] \in Bytes
    BY <2>1
  <2> QED
    BY <2>2, CharType
<1>2. buf = [c \in 0 .. CmdBuf - 1 |-> CASE c = 0       -> ReportType
                                         [] c \in 1 .. n -> Char(fw[i + c - 1])
                                         [] OTHER        -> [d \in 0 .. CmdBuf - 1 |-> 0][c]]
  BY DEF Copy, CopyOver
<1> HIDE DEF buf
<1>3. buf[0] = ReportType
  BY <1>s, <1>2
<1>4. \A c \in 1 .. n : buf[c] = Char(fw[i + c - 1])
  <2> SUFFICES ASSUME NEW c \in 1 .. n PROVE buf[c] = Char(fw[i + c - 1])
    OBVIOUS
  <2>1. c \in 0 .. CmdBuf - 1 /\ c # 0
    BY <1>s
  <2> QED
    BY <1>2, <2>1
<1>5. \A c \in n + 1 .. CmdBuf - 1 : buf[c] = 0
  <2> SUFFICES ASSUME NEW c \in n + 1 .. CmdBuf - 1 PROVE buf[c] = 0
    OBVIOUS
  <2>1. c \in 0 .. CmdBuf - 1 /\ c # 0 /\ c \notin 1 .. n
    BY <1>s
  <2> QED
    BY <1>2, <2>1
<1>6. \A c \in 1 .. CmdBuf - 1 : buf[c] \in Chars
  <2>1. 0 \in Chars
    BY <1>s DEF Chars, Bytes
  <2>2. \A c \in 1 .. CmdBuf - 1 : c \in 1 .. n \/ c \in n + 1 .. CmdBuf - 1
    BY <1>s
  <2> QED
    BY <1>1, <1>4, <1>5, <2>1, <2>2
<1>7. \A c \in 0 .. CmdBuf - 1 : buf[c] \in -Half .. Base - 1
  <2>1. \A c \in 0 .. CmdBuf - 1 : c = 0 \/ c \in 1 .. CmdBuf - 1
    BY <1>s
  <2>2. ReportType \in -Half .. Base - 1
    BY <1>s
  <2> QED
    BY <1>3, <1>6, <2>1, <2>2, ByteType
<1>8. buf \in [0 .. CmdBuf - 1 -> -Half .. Base - 1]
  <2>1. buf = [c \in 0 .. CmdBuf - 1 |-> buf[c]]
    BY <1>2
  <2> QED
    BY <1>7, <2>1
<1> QED
  BY <1>3, <1>4, <1>5, <1>6, <1>8 DEF Buffer, buf

\* The sum goes behind the command.
LEMMA WithSumIs ==
  ASSUME signed \in BOOLEAN, NEW n \in Nat, n + 2 < CmdBuf, NEW buf, Buffer(buf)
  PROVE  /\ Buffer(WithSum(buf, n))
         /\ \A c \in 0 .. n : WithSum(buf, n)[c] = buf[c]
<1>s. /\ Base \in Nat /\ Base >= 8 /\ CmdBuf \in Nat /\ Half \in Nat
  BY Sizes
<1>1. Sum(buf, n) \in 0 .. Base * Base - 1
  <2>1. \A c \in 1 .. n : buf[c] \in Int
    <3>1. \A c \in 1 .. n : c \in 0 .. CmdBuf - 1
      BY <1>s
    <3> QED
      BY <1>s, <3>1 DEF Buffer
  <2> QED
    BY <2>1, SumType
<1> DEFINE lo == Sum(buf, n) % Base
           hi == Sum(buf, n) \div Base
<1>2. lo \in Bytes /\ hi \in Bytes
  <2>1. PICK x \in 0 .. Base * Base - 1 : x = Sum(buf, n)
    BY <1>1
  <2>2. x % Base \in 0 .. Base - 1
    BY <1>s, <2>1
  <2>3. x \div Base \in 0 .. Base - 1
    BY <1>s, <2>1
  <2> QED
    BY <2>1, <2>2, <2>3 DEF Bytes
<1>3. Char(lo) \in Chars /\ Char(hi) \in Chars
  BY <1>2, CharType
<1>4. WithSum(buf, n) = [buf EXCEPT ![n + 1] = Char(lo), ![n + 2] = Char(hi)]
  BY DEF WithSum
<1> DEFINE x == Char(lo)
           y == Char(hi)
           res == WithSum(buf, n)
<1>5. x \in Chars /\ y \in Chars /\ res = [buf EXCEPT ![n + 1] = x, ![n + 2] = y]
  BY <1>3, <1>4
<1> HIDE DEF x, y, res
<1>6. Chars \subseteq -Half .. Base - 1
  BY ByteType
<1>7. res \in [0 .. CmdBuf - 1 -> -Half .. Base - 1]
  BY <1>5, <1>6 DEF Buffer
<1>8. \A c \in 0 .. n : res[c] = buf[c]
  <2> SUFFICES ASSUME NEW c \in 0 .. n PROVE res[c] = buf[c]
    OBVIOUS
  <2>1. c \in 0 .. CmdBuf - 1 /\ c # n + 1 /\ c # n + 2
    BY <1>s
  <2> QED
    BY <1>5, <2>1 DEF Buffer
<1>9. \A c \in 1 .. CmdBuf - 1 : res[c] \in Chars
  <2> SUFFICES ASSUME NEW c \in 1 .. CmdBuf - 1 PROVE res[c] \in Chars
    OBVIOUS
  <2>1. c \in 0 .. CmdBuf - 1 /\ buf[c] \in Chars
    BY <1>s DEF Buffer
  <2> QED
    BY <1>5, <2>1 DEF Buffer
<1> QED
  BY <1>7, <1>8, <1>9 DEF Buffer, res

(***************************************************************************)
(* Type correctness, for every file                                        *)
(***************************************************************************)

Typed ==
  /\ TypeOK
  /\ \A c \in 1 .. CmdBuf - 1 : cmd_buf[c] \in Chars
  /\ heard.lo \in Bytes /\ heard.hi \in Bytes
  /\ pc \in {"send", "wait"} => cmd_buf[0] = ReportType /\ len + 2 < CmdBuf /\ send_count <= 3

Message == [cmd : {START, DATA, FINISH}, lo : Bytes, hi : Bytes]

LEMMA ReportBytes ==
  ASSUME Typed, len + 2 < CmdBuf
  PROVE  Report \in Seq(Bytes) /\ Len(Report) = len + 1 /\ Echoes(Report) \subseteq Message
         /\ \A c \in 1 .. len + 1 : Report[c] = Byte(cmd_buf[c - 1])
<1>s. /\ Base \in Nat /\ Half \in Nat /\ CmdBuf \in Nat /\ len \in Nat /\ signed \in BOOLEAN
      /\ cmd_buf \in [0 .. CmdBuf - 1 -> -Half .. Base - 1] /\ Base > 7
  BY Sizes DEF Typed, TypeOK, Half
<1>1. \A c \in 1 .. len + 1 : Byte(cmd_buf[c - 1]) \in Bytes
  <2> SUFFICES ASSUME NEW c \in 1 .. len + 1 PROVE Byte(cmd_buf[c - 1]) \in Bytes
    OBVIOUS
  <2>1. c - 1 \in 0 .. CmdBuf - 1
    BY <1>s
  <2>2. cmd_buf[c - 1] \in Int
    BY <1>s, <2>1
  <2> QED
    BY <1>s, <2>2, ByteType
<1>2. Report = [c \in 1 .. len + 1 |-> Byte(cmd_buf[c - 1])]
  BY DEF Report
<1>3. Report \in Seq(Bytes) /\ Len(Report) = len + 1
  BY <1>s, <1>1, <1>2
<1>4. Echoes(Report) \subseteq Message
  <2> DEFINE r == Report
  <2>1. r \in Seq(Bytes) /\ 0 \in Bytes
    BY <1>s, <1>3 DEF Bytes
  <2> HIDE DEF r
  <2>2. ASSUME NEW e \in Echoes(r) PROVE e \in Message
    <3>1. ~ (Len(r) < 6 \/ r[6] \notin {START, DATA, FINISH})
      BY <2>2 DEF Echoes
    <3>2. e = [cmd |-> r[6], lo |-> IF r[6] = DATA /\ Len(r) > 7 THEN r[7] ELSE 0,
                             hi |-> IF r[6] = DATA /\ Len(r) > 7 THEN r[8] ELSE 0]
      BY <2>2, <3>1 DEF Echoes
    <3>3. Len(r) > 7 => r[7] \in Bytes /\ r[8] \in Bytes
      BY <2>1
    <3> QED
      BY <2>1, <3>1, <3>2, <3>3 DEF Message
  <2> QED
    BY <2>2 DEF r
<1> QED
  BY <1>2, <1>3, <1>4

LEMMA TypedInit == Init => Typed
<1> SUFFICES ASSUME Init PROVE Typed
  OBVIOUS
<1>s. /\ Base \in Nat /\ Half \in Nat /\ Base = 2 * Half /\ Half >= 4 /\ CmdBuf \in Nat /\ FwBuf \in Nat
      /\ MaxTotal \in Nat /\ Full \in Nat
  BY Sizes
<1>1. /\ signed \in BOOLEAN /\ file \in Images /\ fw = [i \in 0 .. FwBuf - 1 |-> 0] /\ fw_data_len = 0
      /\ pc = "open" /\ idx = 0 /\ len = 0 /\ cmd_buf = [c \in 0 .. CmdBuf - 1 |-> 0]
      /\ total_cmd_num = 0 /\ send_count = 0 /\ current_data_seq = 0
      /\ num1 = 0 /\ num2 = 0 /\ isFinishCmd = FALSE /\ wire = <<>> /\ seen = {} /\ heard = None
  BY Zenon DEF Init
<1>2. 0 \in Bytes /\ 0 \in Chars
  BY <1>s DEF Bytes, Chars
<1>3. file.bytes \in Seq(Bytes) /\ file.cuts \in Seq(Nat)
  BY <1>1, FilesAssumption
<1>4. fw \in [0 .. FwBuf - 1 -> Bytes]
  BY <1>1, <1>2
<1>5. cmd_buf \in [0 .. CmdBuf - 1 -> -(Base \div 2) .. Base - 1]
      /\ \A c \in 1 .. CmdBuf - 1 : cmd_buf[c] \in Chars
  BY <1>s, <1>1, <1>2 DEF Half
<1>6. wire \in Seq(Bytes) /\ isFinishCmd \in BOOLEAN
  <2>1. wire \in Seq(Bytes)
    BY <1>1
  <2>2. isFinishCmd \in BOOLEAN
    BY <1>1, Zenon
  <2> QED
    BY <2>1, <2>2
<1>7. current_data_seq \in -Base * Base .. Base * Base
  <2>1. Base * Base \in Nat /\ -Base * Base \in Int /\ -Base * Base <= 0
    BY <1>s
  <2> QED
    BY <1>1, <2>1
<1>8. heard.lo \in Bytes /\ heard.hi \in Bytes
  BY <1>1, <1>2 DEF None
<1>9. TypeOK
  BY <1>s, <1>1, <1>3, <1>4, <1>5, <1>6, <1>7 DEF TypeOK
<1> QED
  BY <1>1, <1>5, <1>8, <1>9 DEF Typed

LEMMA TypedStep == Typed /\ [Next]_vars => Typed'
<1> SUFFICES ASSUME Typed, [Next]_vars PROVE Typed'
  OBVIOUS
<1> DEFINE Image == /\ signed \in BOOLEAN /\ file.bytes \in Seq(Bytes) /\ file.cuts \in Seq(Nat)
                    /\ fw \in [0 .. FwBuf - 1 -> Bytes] /\ fw_data_len \in Nat
           Command == /\ {idx, len, num1} \subseteq Nat /\ num2 \in 0 .. Full
                      /\ cmd_buf \in [0 .. CmdBuf - 1 -> -(Base \div 2) .. Base - 1]
                      /\ \A c \in 1 .. CmdBuf - 1 : cmd_buf[c] \in Chars
                      /\ total_cmd_num \in 0 .. MaxTotal
                      /\ current_data_seq \in -Base * Base .. Base * Base
                      /\ isFinishCmd \in BOOLEAN
           Talk == /\ send_count \in 0 .. 4 /\ wire \in Seq(Bytes) /\ seen \subseteq Message
                   /\ heard.lo \in Bytes /\ heard.hi \in Bytes
           Place == /\ pc \in {"open", "next", "send", "wait", "fail", "success", "undefined"}
                    /\ pc \in {"send", "wait"} => cmd_buf[0] = ReportType /\ len + 2 < CmdBuf /\ send_count <= 3
<1>t. Image /\ Command /\ Talk /\ Place
  BY DEF Typed, TypeOK, Message
<1>g. Image' /\ Command' /\ Talk' /\ Place' => Typed'
  BY DEF Typed, TypeOK, Message
<1>i. UNCHANGED image => Image' /\ Chars' = Chars
  BY <1>t DEF image, Chars
<1>c. UNCHANGED cmd /\ signed' = signed => Command'
  BY <1>t DEF cmd, Chars
<1>n. 0 \in Bytes /\ None.lo = 0 /\ None.hi = 0
  BY Sizes DEF Bytes, None
<1>z. FwBuf \in Nat /\ CmdBuf \in Nat /\ MaxTotal \in Nat /\ Full \in Nat
  BY Sizes
<1> HIDE DEF Image, Talk, Place
<1>1. CASE LoadImage
  <2>1. pc = "open" /\ pc' \in {"next", "undefined"} /\ UNCHANGED <<send_count, wire, seen, heard>>
        /\ UNCHANGED cmd /\ signed' = signed /\ file' = file
    BY <1>1 DEF LoadImage
  <2>2. fw' \in [0 .. FwBuf - 1 -> Bytes] /\ fw_data_len' \in Nat
    <3>1. CASE UNCHANGED <<fw, fw_data_len>>
      BY <1>t, <3>1 DEF Image
    <3>2. ASSUME fw_data_len' = Len(file.bytes), NEW b \in Fills,
                 fw' = [i \in 0 .. FwBuf - 1 |-> IF i < fw_data_len' THEN file.bytes[i + 1] ELSE b]
          PROVE  fw' \in [0 .. FwBuf - 1 -> Bytes] /\ fw_data_len' \in Nat
      <4>1. b \in Bytes /\ file.bytes \in Seq(Bytes) /\ fw_data_len' \in Nat /\ FwBuf \in Nat
        BY <1>t, <3>2, FilesAssumption, Sizes DEF Image
      <4>2. \A i \in 0 .. FwBuf - 1 : i < fw_data_len' => file.bytes[i + 1] \in Bytes
        BY <3>2, <4>1
      <4> QED
        BY <3>2, <4>1, <4>2
    <3> QED
      BY <1>1, <3>1, <3>2 DEF LoadImage
  <2>3. Image'
    BY <1>t, <2>1, <2>2 DEF Image
  <2>4. Talk'
    BY <1>t, <2>1 DEF Talk
  <2>5. Place'
    BY <1>t, <2>1 DEF Place, cmd
  <2> QED
    BY <1>g, <1>c, <2>1, <2>3, <2>4, <2>5
<1>2. CASE NextCommand
  <2>1. /\ pc = "next" /\ total_cmd_num < MaxTotal /\ total_cmd_num' = total_cmd_num + 1 /\ send_count' = 0
        /\ idx' = idx + len /\ heard' = None /\ UNCHANGED image /\ UNCHANGED <<wire, seen>>
    BY <1>2, Zenon DEF NextCommand, Advance
  <2>2. Image' /\ Chars' = Chars /\ Talk'
    <3>1. heard'.lo \in Bytes /\ heard'.hi \in Bytes
      BY <1>n, <2>1
    <3> QED
      BY <1>t, <1>i, <2>1, <3>1 DEF Talk
  <2>3. total_cmd_num' \in 0 .. MaxTotal /\ idx' \in Nat
    BY <1>t, <2>1, Sizes
  <2>i. PICK i \in Nat : i = idx'
    BY <2>3
  <2> DEFINE n == LengthAt(i)
             buf == Copy(i, n)
             Kept == UNCHANGED <<cmd_buf, current_data_seq, num1, num2, isFinishCmd>>
  <2>4. i + 2 < FwBuf => n \in Nat
    <3> SUFFICES ASSUME i + 2 < FwBuf PROVE n \in Nat
      OBVIOUS
    <3>1. i + 1 \in 0 .. FwBuf - 1 /\ i + 2 \in 0 .. FwBuf - 1
      BY <1>z
    <3>2. PICK x \in Bytes, y \in Bytes : x = fw[i + 1] /\ y = fw[i + 2]
      BY <1>t, <3>1 DEF Image
    <3>3. Word(x, y) \in Nat
      BY Sizes DEF Word, Bytes
    <3> QED
      BY <3>2, <3>3 DEF LengthAt
  <2>5. \/ pc' = "undefined" /\ UNCHANGED len /\ Kept
        \/ pc' = "undefined" /\ len' = n /\ i + 2 < FwBuf /\ Kept
        \/ /\ pc' = "send" /\ len' = n /\ i + 2 < FwBuf
           /\ n + 2 < CmdBuf /\ i + n <= FwBuf
           /\ cmd_buf' = WithSum(buf, n)
           /\ current_data_seq' \in {0, CommandSeq(buf)}
           /\ num1' \in {num1, num1 + 1} /\ (num2' = num2 \/ (num2 <= Full - 1 /\ num2' = num2 + 1))
           /\ isFinishCmd' = (isFinishCmd \/ cmd_buf'[5] = FINISH)
    <3>1. CASE i + 2 >= FwBuf
      BY <1>2, <2>i, <3>1, Zenon DEF NextCommand
    <3>2. CASE ~ (i + 2 >= FwBuf)
      <4>1. /\ len' = n
            /\ IF n + 2 >= CmdBuf \/ i + n > FwBuf \/ (buf[5] = DATA /\ fw_data_len = 0)
                 THEN pc' = "undefined" /\ Kept
                 ELSE /\ pc' = "send"
                      /\ cmd_buf' = WithSum(buf, n)
                      /\ IF buf[5] = DATA
                           THEN /\ current_data_seq' = CommandSeq(buf)
                                /\ num2' = IF PercentDue(num1) THEN num2 + 1 ELSE num2
                                /\ num1' = num1 + 1
                           ELSE current_data_seq' = 0 /\ UNCHANGED <<num1, num2>>
                      /\ isFinishCmd' = (isFinishCmd \/ cmd_buf'[5] = FINISH)
        BY <1>2, <2>i, <3>2, Zenon DEF NextCommand
      <4>2. i + 2 < FwBuf
        BY <1>z, <3>2
      <4>3. ~ (n + 2 >= CmdBuf \/ i + n > FwBuf) => n + 2 < CmdBuf /\ i + n <= FwBuf
        <5> HIDE DEF n
        <5> QED
          BY <1>z, <2>4, <4>2
      <4>4. PercentDue(num1) => num2 <= Full - 1
        BY DEF PercentDue
      <4> HIDE DEF n, buf
      <4> QED
        BY <4>1, <4>2, <4>3, <4>4
    <3> QED
      BY <3>1, <3>2
  <2>6. CASE pc' = "undefined" /\ Kept /\ (UNCHANGED len \/ (len' = n /\ i + 2 < FwBuf))
    <3>1. len' \in Nat
      BY <1>t, <2>4, <2>6
    <3>2. Command'
      BY <1>t, <2>2, <2>3, <2>6, <3>1
    <3>3. Place'
      BY <2>6 DEF Place
    <3> QED
      BY <1>g, <2>2, <3>2, <3>3
  <2>7. CASE /\ pc' = "send" /\ len' = n /\ i + 2 < FwBuf
             /\ n + 2 < CmdBuf /\ i + n <= FwBuf
             /\ cmd_buf' = WithSum(buf, n)
             /\ current_data_seq' \in {0, CommandSeq(buf)}
             /\ num1' \in {num1, num1 + 1} /\ (num2' = num2 \/ (num2 <= Full - 1 /\ num2' = num2 + 1))
             /\ isFinishCmd' = (isFinishCmd \/ cmd_buf'[5] = FINISH)
    <3>1. n \in Nat /\ signed \in BOOLEAN /\ fw \in [0 .. FwBuf - 1 -> Bytes]
      BY <1>t, <2>4, <2>7 DEF Image
    <3>2. Buffer(buf)
      <4> HIDE DEF n
      <4> QED
        BY <2>7, <3>1, CopyIs
    <3>3. Buffer(cmd_buf')
      <4> HIDE DEF n, buf
      <4> QED
        BY <2>7, <3>1, <3>2, WithSumIs
    <3>4. CommandSeq(buf) \in -Base * Base .. Base * Base
      <4>1. buf[6] \in Chars /\ buf[7] \in Chars
        <5> HIDE DEF buf
        <5> QED
          BY <3>2, Sizes DEF Buffer
      <4> HIDE DEF buf
      <4> QED
        BY <3>1, <4>1, WordOf DEF CommandSeq
    <3>5. 0 \in -Base * Base .. Base * Base
      <4>1. Base * Base \in Nat /\ -Base * Base \in Int /\ -Base * Base <= 0
        BY Sizes
      <4> QED
        BY <4>1
    <3> HIDE DEF n, buf
    <3>6. num1' \in Nat /\ num2' \in 0 .. Full
      BY <1>z, <1>t, <2>7
    <3>7. isFinishCmd' \in BOOLEAN
      BY <2>7
    <3>8. Command'
      <4>1. cmd_buf' \in [0 .. CmdBuf - 1 -> -(Base \div 2) .. Base - 1]
            /\ \A c \in 1 .. CmdBuf - 1 : cmd_buf'[c] \in Chars'
        BY <2>2, <3>3 DEF Buffer, Half
      <4>2. current_data_seq' \in -Base * Base .. Base * Base
        BY <2>7, <3>4, <3>5
      <4>3. len' \in Nat
        BY <2>7, <3>1
      <4> QED
        BY <2>3, <3>6, <3>7, <4>1, <4>2, <4>3
    <3>9. Place'
      BY <2>1, <2>7, <3>3 DEF Place, Buffer
    <3> QED
      BY <1>g, <2>2, <3>8, <3>9
  <2> QED
    BY <2>5, <2>6, <2>7
<1>3. CASE Send
  <2>1. /\ pc = "send" /\ send_count' = send_count + 1 /\ heard' = None
        /\ UNCHANGED image /\ UNCHANGED cmd /\ signed' = signed
        /\ \/ send_count' <= 3 /\ pc' = "wait" /\ wire' = Report /\ seen' = seen \cup Echoes(Report)
           \/ pc' = "fail" /\ wire' = wire /\ seen' = seen
    BY <1>3 DEF Send, image
  <2>2. Report \in Seq(Bytes) /\ Echoes(Report) \subseteq Message
    BY <1>t, <2>1, ReportBytes DEF Place
  <2>3. send_count' \in 0 .. 4
    BY <1>t, <2>1 DEF Talk, Place
  <2>4. Talk'
    <3>1. heard'.lo \in Bytes /\ heard'.hi \in Bytes
      BY <1>n, <2>1
    <3> QED
      BY <1>t, <2>1, <2>2, <2>3, <3>1 DEF Talk
  <2>5. Place'
    BY <1>t, <2>1 DEF Place, cmd
  <2> QED
    BY <1>g, <1>i, <1>c, <2>1, <2>4, <2>5
<1>4. CASE Answer
  <2>1. PICK a \in seen, stat \in {"SUCCESS", "NO_NEED_UPDATE", "ERROR"} :
          pc' = Verdict(a, stat) /\ heard' = [cmd |-> a.cmd, lo |-> a.lo, hi |-> a.hi, stat |-> stat]
    BY <1>4 DEF Answer
  <2>2. pc = "wait" /\ UNCHANGED image /\ UNCHANGED cmd /\ signed' = signed /\ UNCHANGED <<send_count, wire, seen>>
    BY <1>4 DEF Answer, image
  <2>3. Talk'
    <3>1. a.lo \in Bytes /\ a.hi \in Bytes
      BY <1>t, <2>1 DEF Talk, Message
    <3>2. heard'.lo = a.lo /\ heard'.hi = a.hi
      BY <2>1
    <3> QED
      BY <1>t, <2>2, <3>1, <3>2 DEF Talk
  <2>4. pc' \in {"send", "next", "success"}
    BY <2>1 DEF Verdict
  <2>5. Place'
    BY <1>t, <2>2, <2>4 DEF Place, cmd
  <2> QED
    BY <1>g, <1>i, <1>c, <2>2, <2>3, <2>5
<1>5. CASE Timeout
  <2>1. /\ pc = "wait" /\ pc' = "send" /\ UNCHANGED image /\ UNCHANGED cmd /\ signed' = signed
        /\ UNCHANGED <<send_count, wire, seen, heard>>
    BY <1>5 DEF Timeout, image
  <2>2. Talk' /\ Place'
    BY <1>t, <2>1 DEF Talk, Place, cmd
  <2> QED
    BY <1>g, <1>i, <1>c, <2>1, <2>2
<1>6. CASE UNCHANGED vars
  <2>1. /\ pc' = pc /\ UNCHANGED image /\ UNCHANGED cmd /\ signed' = signed
        /\ UNCHANGED <<send_count, wire, seen, heard>>
    BY <1>6 DEF vars, image
  <2>2. Talk' /\ Place'
    BY <1>t, <2>1 DEF Talk, Place, cmd
  <2> QED
    BY <1>g, <1>i, <1>c, <2>1, <2>2
<1> QED
  BY <1>1, <1>2, <1>3, <1>4, <1>5, <1>6 DEF Next

\* Whatever the file says of its commands, every index stays in its buffer, or the
\* step is the undefined one, and the percentage stays in its range.
THEOREM TypeCorrect == Spec => []TypeOK
<1>1. Spec => []Typed
  BY TypedInit, TypedStep, PTL DEF Spec
<1>2. Typed => TypeOK
  BY DEF Typed
<1> QED
  BY <1>1, <1>2, PTL

(***************************************************************************)
(* The walk over a well-formed file                                        *)
(***************************************************************************)

\* fw_data_buf begins with the file; the walk begins at its start.
Loaded ==
  /\ pc = "open" => total_cmd_num = 0
  /\ total_cmd_num = 0 => /\ pc \in {"open", "next", "undefined"}
                          /\ idx = 0 /\ len = 0 /\ num1 = 0 /\ num2 = 0 /\ isFinishCmd = FALSE
  /\ pc # "open" /\ (pc = "undefined" => total_cmd_num # 0) =>
       /\ fw_data_len = Len(file.bytes)
       /\ \A i \in 0 .. fw_data_len - 1 : i < FwBuf => fw[i] = file.bytes[i + 1]

LongEnough == \A k \in Commands : Size(k) >= 5
AsAssumed  == \A k \in Commands : Is(k, DATA) => Size(k) >= Unit

\* What is behind idx + len is what the next command is taken from; the counters
\* tell of the commands before it.
Walked ==
  WellFormed /\ pc # "open" /\ total_cmd_num \in 0 .. Len(file.cuts) - 1 =>
    /\ idx + len = file.cuts[total_cmd_num + 1]
    /\ num1 = Cardinality({k \in 1 .. total_cmd_num : Is(k, DATA)})
    /\ LongEnough => (isFinishCmd <=> \E k \in 1 .. total_cmd_num : Is(k, FINISH))
    /\ AsAssumed  => num1 * Unit <= idx + len /\ (num2 - 1) * fw_data_len <= Full * idx

\* cmd_buf is the command that idx and len point at, and current_data_seq its number.
Copied ==
  InFile =>
    /\ pc # "undefined"
    /\ idx = file.cuts[total_cmd_num] /\ len = Size(total_cmd_num)
    /\ cmd_buf[0] = ReportType
    /\ \A c \in 1 .. len : Byte(cmd_buf[c]) = At(total_cmd_num, c)
    /\ Numbered => current_data_seq = Word(cmd_buf[6], cmd_buf[7])
    /\ pc = "wait" => wire = Report

Heard ==
  /\ pc = "wait" => heard = None
  /\ OwnSeqAccepted /\ OtherSeqRefused

FrameInv == Loaded /\ Walked /\ Copied /\ Heard

\* What well-formed means for one command, in numbers.
LEMMA CommandAt ==
  ASSUME Typed, Loaded, WellFormed, pc = "next", NEW k \in Commands, NEW i \in Nat, i = file.cuts[k]
  PROVE  /\ Size(k) \in 3 .. CmdBuf - 3 /\ i + Size(k) = file.cuts[k + 1]
         /\ i + Size(k) <= FwBuf /\ fw_data_len \in Nat \ {0}
         /\ LengthAt(i) = Size(k)
         /\ \A c \in 1 .. Size(k) : /\ i + c - 1 \in 0 .. FwBuf - 1
                                    /\ fw[i + c - 1] = At(k, c) /\ At(k, c) \in Bytes
<1>s. /\ file.cuts \in Seq(Nat) /\ file.bytes \in Seq(Bytes) /\ FwBuf \in Nat /\ CmdBuf \in Nat
      /\ fw \in [0 .. FwBuf - 1 -> Bytes] /\ k \in 1 .. Len(file.cuts) - 1
  BY Sizes DEF Typed, TypeOK, Commands
<1>1. PICK e \in Nat : e = file.cuts[k + 1]
  BY <1>s
<1>2. Size(k) = e - i /\ e - i \in 3 .. CmdBuf - 3 /\ e <= Len(file.bytes) /\ Len(file.bytes) <= FwBuf
      /\ Word(At(k, 2), At(k, 3)) = Size(k)
  <2>1. Size(k) = e - i
    BY <1>1 DEF Size
  <2> QED
    BY <1>1, <2>1 DEF WellFormed
<1>3. PICK l \in Nat : l = Len(file.bytes)
  BY <1>s
<1>4. fw_data_len = l /\ \A j \in 0 .. l - 1 : j < FwBuf => fw[j] = file.bytes[j + 1]
  BY <1>3 DEF Loaded
<1>5. PICK n \in 3 .. CmdBuf - 3 : n = Size(k)
  BY <1>2
<1>6. i + n = e /\ e <= l /\ l <= FwBuf
  <2>1. n = e - i
    BY <1>2, <1>5
  <2> QED
    BY <1>2, <1>3, <2>1
<1>7. \A c \in 1 .. n : /\ i + c - 1 \in 0 .. FwBuf - 1
                        /\ fw[i + c - 1] = At(k, c) /\ At(k, c) \in Bytes
  <2> SUFFICES ASSUME NEW c \in 1 .. n
               PROVE  i + c - 1 \in 0 .. FwBuf - 1 /\ fw[i + c - 1] = At(k, c) /\ At(k, c) \in Bytes
    OBVIOUS
  <2>1. i + c - 1 \in 0 .. l - 1 /\ i + c - 1 \in 0 .. FwBuf - 1 /\ i + c - 1 < FwBuf /\ (i + c - 1) + 1 = i + c
        /\ i + c \in 1 .. l
    <3>1. i \in Nat /\ l \in Nat /\ n \in Nat /\ FwBuf \in Nat /\ c \in Nat /\ c >= 1 /\ c <= n
      BY <1>s
    <3>2. i + n <= l /\ l <= FwBuf
      BY <1>6
    <3> QED
      BY <3>1, <3>2
  <2>2. At(k, c) = file.bytes[i + c]
    BY DEF At
  <2>3. fw[i + c - 1] = file.bytes[i + c]
    BY <1>4, <2>1
  <2>4. file.bytes[i + c] \in Bytes
    <3>1. PICK bytes \in Seq(Bytes) : bytes = file.bytes
      BY <1>s
    <3>2. Len(bytes) = l
      BY <1>3, <3>1
    <3>3. bytes[i + c] \in Bytes
      BY <2>1, <3>2
    <3> QED
      BY <3>1, <3>3
  <2> QED
    BY <2>1, <2>2, <2>3, <2>4
<1>8. LengthAt(i) = Size(k)
  <2>1. 2 \in 1 .. n /\ 3 \in 1 .. n /\ i + 2 - 1 = i + 1 /\ i + 3 - 1 = i + 2
    BY <1>s
  <2>2. fw[i + 1] = At(k, 2) /\ fw[i + 2] = At(k, 3)
    BY <1>7, <2>1
  <2> QED
    BY <1>2, <2>2 DEF LengthAt
<1>9. fw_data_len \in Nat \ {0}
  BY <1>4, <1>6
<1>10. i + n = file.cuts[k + 1] /\ i + n <= FwBuf
  <2>1. i + n <= FwBuf
    BY <1>s, <1>3, <1>6
  <2> QED
    BY <1>1, <1>6, <2>1
<1> QED
  BY <1>5, <1>7, <1>8, <1>9, <1>10

\* The next command, when there is one in the file.
LEMMA CommandRead ==
  ASSUME Typed, Loaded, Walked, NextCommand, WellFormed,
         NEW k \in Commands, k = total_cmd_num + 1
  PROVE  /\ pc' = "send" /\ UNCHANGED image /\ total_cmd_num' = k /\ heard' = None
         /\ idx' = idx + len /\ idx' = file.cuts[k] /\ len' = Size(k) /\ idx' + len' = file.cuts[k + 1]
         /\ cmd_buf'[0] = ReportType
         /\ \A c \in 1 .. Size(k) : Byte(cmd_buf'[c]) = At(k, c)
         /\ Is(k, DATA) => /\ num1' = num1 + 1
                           /\ num2' = num2 \/ (num2' = num2 + 1 /\ (num1 * Unit * Full) \div fw_data_len >= num2)
                           /\ Size(k) >= 7 => current_data_seq' = Word(cmd_buf'[6], cmd_buf'[7])
         /\ ~ Is(k, DATA) => num1' = num1 /\ num2' = num2
         /\ Size(k) >= 5 => (isFinishCmd' <=> isFinishCmd \/ Is(k, FINISH))
<1>s. /\ FwBuf \in Nat /\ CmdBuf \in Nat /\ CmdBuf > 7 /\ Base \in Nat /\ Half \in Nat /\ Base = 2 * Half /\ Half >= 4
      /\ fw \in [0 .. FwBuf - 1 -> Bytes] /\ signed \in BOOLEAN
      /\ file.cuts \in Seq(Nat) /\ k \in 1 .. Len(file.cuts) - 1 /\ total_cmd_num \in Nat
  BY Sizes DEF Typed, TypeOK, Commands
<1>1. /\ pc = "next" /\ total_cmd_num' = total_cmd_num + 1 /\ idx' = idx + len /\ heard' = None /\ UNCHANGED image
  BY Zenon DEF NextCommand, Advance
<1>2. PICK i \in Nat : i = file.cuts[k]
  BY <1>s
<1>3. idx' = i
  <2>1. total_cmd_num \in 0 .. Len(file.cuts) - 1
    BY <1>s
  <2>2. idx + len = file.cuts[total_cmd_num + 1]
    BY <1>1, <2>1 DEF Walked
  <2> QED
    BY <1>1, <1>2, <2>2
<1>4. PICK n \in 3 .. CmdBuf - 3 : n = Size(k)
  BY <1>1, <1>2, CommandAt
<1>5. /\ i + n = file.cuts[k + 1] /\ i + n <= FwBuf /\ fw_data_len \in Nat \ {0} /\ LengthAt(i) = n
      /\ \A c \in 1 .. n : fw[i + c - 1] = At(k, c) /\ At(k, c) \in Bytes
  BY <1>1, <1>2, <1>4, CommandAt
<1>6. ~ (i + 2 >= FwBuf) /\ ~ (n + 2 >= CmdBuf) /\ ~ (i + n > FwBuf) /\ n \in Nat /\ n + 2 < CmdBuf
  <2>1. FwBuf \in Nat /\ CmdBuf \in Nat /\ n \in 3 .. CmdBuf - 3
    BY <1>s
  <2>2. i + n <= FwBuf
    BY <1>5
  <2> QED
    BY <2>1, <2>2
<1> DEFINE buf == Copy(i, n)
<1>7. /\ Buffer(buf)
      /\ \A c \in 1 .. n : buf[c] = Char(fw[i + c - 1])
      /\ \A c \in n + 1 .. CmdBuf - 1 : buf[c] = 0
  BY <1>s, <1>5, <1>6, CopyIs
<1>8. /\ len' = n /\ pc' = "send" /\ cmd_buf' = WithSum(buf, n)
      /\ IF buf[5] = DATA
           THEN /\ current_data_seq' = CommandSeq(buf)
                /\ num2' = IF PercentDue(num1) THEN num2 + 1 ELSE num2
                /\ num1' = num1 + 1
           ELSE current_data_seq' = 0 /\ UNCHANGED <<num1, num2>>
      /\ isFinishCmd' = (isFinishCmd \/ cmd_buf'[5] = FINISH)
  <2>1. fw_data_len # 0
    BY <1>5
  <2> QED
    BY <1>3, <1>5, <1>6, <2>1, Zenon DEF NextCommand
<1> HIDE DEF buf
<1>9. \A c \in 0 .. n : cmd_buf'[c] = buf[c]
  BY <1>s, <1>6, <1>7, <1>8, WithSumIs
<1>10. cmd_buf'[0] = ReportType
  BY <1>7, <1>9 DEF Buffer
<1>11. \A c \in 1 .. n : Byte(cmd_buf'[c]) = At(k, c) /\ buf[c] = Char(At(k, c)) /\ At(k, c) \in Bytes
  <2> SUFFICES ASSUME NEW c \in 1 .. n
               PROVE  Byte(cmd_buf'[c]) = At(k, c) /\ buf[c] = Char(At(k, c)) /\ At(k, c) \in Bytes
    OBVIOUS
  <2>1. c \in 0 .. n /\ At(k, c) \in Bytes /\ buf[c] = Char(At(k, c))
    BY <1>5, <1>7
  <2>2. Byte(Char(At(k, c))) = At(k, c)
    BY <1>s, <2>1, CharType
  <2> QED
    BY <1>9, <2>1, <2>2
\* The command byte is read as it is: START, DATA and FINISH have no sign.
<1>12. ASSUME NEW v \in {DATA, FINISH} PROVE buf[5] = v <=> Is(k, v)
  <2>1. v \in {2, 3}
    BY DEF DATA, FINISH
  <2>2. CASE n >= 5
    <3>1. 5 \in 1 .. n
      BY <2>2
    <3>2. PICK b \in Bytes : b = At(k, 5)
      BY <1>11, <3>1
    <3>3. buf[5] = Char(b)
      BY <1>11, <3>1, <3>2
    <3>4. Char(b) = v <=> b = v
      BY <1>s, <2>1 DEF Char, Bytes
    <3> QED
      BY <1>4, <2>2, <3>2, <3>3, <3>4 DEF Is
  <2>3. CASE n < 5
    <3>1. buf[5] = 0
      BY <1>s, <1>7, <2>3
    <3> QED
      BY <1>4, <2>1, <2>3, <3>1 DEF Is
  <2> QED
    BY <2>2, <2>3
<1>13. Is(k, DATA) /\ n >= 7 => current_data_seq' = Word(cmd_buf'[6], cmd_buf'[7])
  <2> SUFFICES ASSUME Is(k, DATA), n >= 7 PROVE current_data_seq' = Word(cmd_buf'[6], cmd_buf'[7])
    OBVIOUS
  <2>1. cmd_buf'[6] = buf[6] /\ cmd_buf'[7] = buf[7]
    BY <1>9
  <2>2. current_data_seq' = CommandSeq(buf)
    BY <1>8, <1>12
  <2> QED
    BY <2>1, <2>2 DEF CommandSeq
<1>14. n >= 5 => (isFinishCmd' <=> isFinishCmd \/ Is(k, FINISH))
  <2> SUFFICES ASSUME n >= 5 PROVE isFinishCmd' <=> isFinishCmd \/ Is(k, FINISH)
    OBVIOUS
  <2>1. cmd_buf'[5] = buf[5]
    BY <1>9
  <2> QED
    BY <1>8, <1>12, <2>1
<1>15. Is(k, DATA) => /\ num1' = num1 + 1
                      /\ num2' = num2 \/ (num2' = num2 + 1 /\ (num1 * Unit * Full) \div fw_data_len >= num2)
  <2>1. PercentDue(num1) => (num1 * Unit * Full) \div fw_data_len >= num2
    BY DEF PercentDue
  <2> QED
    BY <1>8, <1>12, <2>1
<1>16. ~ Is(k, DATA) => num1' = num1 /\ num2' = num2
  BY <1>8, <1>12
<1> QED
  BY <1>1, <1>2, <1>3, <1>4, <1>5, <1>8, <1>10, <1>11, <1>13, <1>14, <1>15, <1>16

\* One more number, one more counted.
LEMMA CountOne ==
  ASSUME NEW S, NEW m \in Nat
  PROVE  /\ Cardinality({k \in 1 .. 0 : k \in S}) = 0
         /\ Cardinality({k \in 1 .. m : k \in S}) \in Nat
         /\ m + 1 \in S    => Cardinality({k \in 1 .. m + 1 : k \in S}) = Cardinality({k \in 1 .. m : k \in S}) + 1
         /\ m + 1 \notin S => Cardinality({k \in 1 .. m + 1 : k \in S}) = Cardinality({k \in 1 .. m : k \in S})
<1> DEFINE A == {k \in 1 .. m : k \in S}
           B == {k \in 1 .. m + 1 : k \in S}
<1>1. {k \in 1 .. 0 : k \in S} = {} /\ Cardinality({}) = 0
  BY FS_EmptySet
<1>2. IsFiniteSet(1 .. m) /\ A \subseteq 1 .. m
  BY FS_Interval
<1>3. IsFiniteSet(A)
  BY <1>2, FS_Subset
<1>4. Cardinality(A) \in Nat
  BY <1>3, FS_CardinalityType
<1>5. m + 1 \notin A /\ (m + 1 \in S => B = A \cup {m + 1}) /\ (m + 1 \notin S => B = A)
  OBVIOUS
<1> HIDE DEF A, B
<1>6. Cardinality(A \cup {m + 1}) = Cardinality(A) + 1
  BY <1>3, <1>5, FS_AddElement
<1>7. /\ m + 1 \in S    => Cardinality(B) = Cardinality(A) + 1
      /\ m + 1 \notin S => Cardinality(B) = Cardinality(A)
  BY <1>5, <1>6
<1> QED
  BY <1>1, <1>4, <1>7 DEF A, B

\* The percentage is due for the bytes that are behind.
LEMMA Due ==
  ASSUME NEW n1 \in Nat, NEW n2 \in Nat, NEW i \in Nat, NEW l \in Nat \ {0},
         n1 * Unit <= i, (n1 * Unit * Full) \div l >= n2
  PROVE  n2 * l <= Full * i
<1>1. Unit \in Nat /\ Full \in Nat
  BY Sizes
<1>2. PICK u \in Nat : u = n1 * Unit /\ u <= i
  BY <1>1
<1>3. PICK x \in Nat : x = u * Full
  BY <1>1
<1>4. x <= Full * i
  BY <1>1, <1>2, <1>3
<1>5. PICK q \in Nat : q = x \div l /\ q * l <= x
  BY <1>3
<1>6. q >= n2
  BY <1>2, <1>3, <1>5
<1>7. n2 * l <= q * l
  BY <1>6
<1>8. n2 * l \in Nat /\ q * l \in Nat /\ Full * i \in Nat
  BY <1>1
<1> QED
  BY <1>4, <1>5, <1>7, <1>8

\* What is walked is counted, when the next command is read.
LEMMA WalkedNext ==
  ASSUME Typed, Loaded, Walked, NextCommand, WellFormed, NEW k \in Commands, k = total_cmd_num + 1
  PROVE  /\ idx' + len' = file.cuts[k + 1]
         /\ num1' = Cardinality({j \in 1 .. k : Is(j, DATA)})
         /\ LongEnough => (isFinishCmd' <=> \E j \in 1 .. k : Is(j, FINISH))
         /\ AsAssumed  => num1' * Unit <= idx' + len' /\ (num2' - 1) * fw_data_len <= Full * idx'
<1>s. /\ idx \in Nat /\ len \in Nat /\ num1 \in Nat /\ num2 \in Nat /\ Unit \in Nat /\ Full \in Nat
      /\ file.cuts \in Seq(Nat) /\ total_cmd_num \in Nat /\ k \in 1 .. Len(file.cuts) - 1 /\ isFinishCmd \in BOOLEAN
  <2>1. num2 \in Nat
    <3>1. num2 \in 0 .. Full
      BY DEF Typed, TypeOK
    <3> QED
      BY <3>1, Sizes
  <2>2. total_cmd_num \in Nat
    <3>1. total_cmd_num \in 0 .. MaxTotal
      BY DEF Typed, TypeOK
    <3> QED
      BY <3>1, Sizes
  <2> QED
    BY <2>1, <2>2, Sizes DEF Typed, TypeOK, Commands
<1>1. /\ idx' = idx + len /\ idx' = file.cuts[k] /\ len' = Size(k) /\ idx' + len' = file.cuts[k + 1]
      /\ Is(k, DATA) => /\ num1' = num1 + 1
                        /\ num2' = num2 \/ (num2' = num2 + 1 /\ (num1 * Unit * Full) \div fw_data_len >= num2)
      /\ ~ Is(k, DATA) => num1' = num1 /\ num2' = num2
      /\ Size(k) >= 5 => (isFinishCmd' <=> isFinishCmd \/ Is(k, FINISH))
  BY CommandRead
<1>2. pc = "next" /\ total_cmd_num \in 0 .. Len(file.cuts) - 1
  BY <1>s DEF NextCommand
<1>3. /\ num1 = Cardinality({j \in 1 .. total_cmd_num : Is(j, DATA)})
      /\ LongEnough => (isFinishCmd <=> \E j \in 1 .. total_cmd_num : Is(j, FINISH))
      /\ AsAssumed  => num1 * Unit <= idx + len /\ (num2 - 1) * fw_data_len <= Full * idx
  BY <1>2 DEF Walked
<1>4. fw_data_len \in Nat \ {0} /\ Size(k) \in Nat
  <2>1. file.cuts[k] \in Nat
    BY <1>s
  <2>2. Size(k) \in 3 .. CmdBuf - 3 /\ fw_data_len \in Nat \ {0}
    BY <1>2, <2>1, CommandAt
  <2> QED
    BY <2>2, Sizes
<1>5. num1' = Cardinality({j \in 1 .. k : Is(j, DATA)})
  <2> DEFINE S == {j \in Nat : Is(j, DATA)}
             C(m) == Cardinality({j \in 1 .. m : j \in S})
  <2>1. \A m \in Nat : {j \in 1 .. m : j \in S} = {j \in 1 .. m : Is(j, DATA)}
    OBVIOUS
  <2>2. k \in S <=> Is(k, DATA)
    BY <1>s
  <2> HIDE DEF S
  <2>3. /\ total_cmd_num + 1 \in S    => C(total_cmd_num + 1) = C(total_cmd_num) + 1
        /\ total_cmd_num + 1 \notin S => C(total_cmd_num + 1) = C(total_cmd_num)
    BY <1>s, CountOne
  <2>4. num1 = C(total_cmd_num) /\ C(k) = Cardinality({j \in 1 .. k : Is(j, DATA)})
    <3>1. /\ {j \in 1 .. total_cmd_num : j \in S} = {j \in 1 .. total_cmd_num : Is(j, DATA)}
          /\ {j \in 1 .. k : j \in S} = {j \in 1 .. k : Is(j, DATA)}
      BY <1>s, <2>1
    <3> QED
      BY <1>3, <3>1, Zenon
  <2>5. num1' = C(k)
    BY <1>1, <2>2, <2>3, <2>4
  <2> QED
    BY <2>4, <2>5
<1>6. LongEnough => (isFinishCmd' <=> \E j \in 1 .. k : Is(j, FINISH))
  <2>1. \A j \in 1 .. k : j = k \/ j \in 1 .. total_cmd_num
    BY <1>s
  <2>2. 1 .. total_cmd_num \subseteq 1 .. k /\ k \in 1 .. k
    BY <1>s
  <2> QED
    BY <1>1, <1>3, <2>1, <2>2 DEF LongEnough
<1>7. ASSUME AsAssumed PROVE num1' * Unit <= idx' + len' /\ (num2' - 1) * fw_data_len <= Full * idx'
  <2>1. num1 * Unit <= idx + len /\ (num2 - 1) * fw_data_len <= Full * idx
    BY <1>3, <1>7
  <2>i. PICK i \in Nat : i = idx + len
    BY <1>s
  <2>n. PICK n \in Nat : n = Size(k)
    BY <1>4
  <2>l. PICK l \in Nat \ {0} : l = fw_data_len
    BY <1>4
  <2>2. i = idx + len /\ n = Size(k) /\ l = fw_data_len
    BY <2>i, <2>n, <2>l
  <2>3. idx' = i /\ len' = n
    BY <1>1, <2>2
  <2>4. num1' * Unit <= i + n
    <3>1. CASE Is(k, DATA)
      <4>1. num1' = num1 + 1 /\ Unit <= n
        BY <1>1, <1>7, <2>2, <3>1 DEF AsAssumed
      <4>2. (num1 + 1) * Unit = num1 * Unit + Unit /\ num1 * Unit \in Nat
        BY <1>s
      <4> QED
        BY <1>s, <2>1, <2>2, <4>1, <4>2
    <3>2. CASE ~ Is(k, DATA)
      <4>1. num1' = num1 /\ num1 * Unit \in Nat
        BY <1>s, <1>1, <3>2
      <4> QED
        BY <1>s, <2>1, <2>2, <4>1
    <3> QED
      BY <3>1, <3>2
  <2>5. (num2 - 1) * l <= Full * i
    <3>1. Full * idx <= Full * i
      BY <1>s, <2>2
    <3>2. (num2 - 1) * l <= Full * idx
      BY <2>1, <2>2
    <3>3. (num2 - 1) * l \in Int /\ Full * idx \in Nat /\ Full * i \in Nat
      BY <1>s
    <3> QED
      BY <3>1, <3>2, <3>3
  <2>6. (num1 * Unit * Full) \div l >= num2 => num2 * l <= Full * i
    BY <1>s, <2>1, <2>2, Due
  <2>7. num2' = num2 \/ (num2' = num2 + 1 /\ (num1 * Unit * Full) \div l >= num2)
    BY <1>1, <2>2
  <2>8. (num2' - 1) * l <= Full * i
    <3>1. CASE num2' = num2
      BY <2>5, <3>1
    <3>2. CASE num2' = num2 + 1 /\ num2 * l <= Full * i
      <4>1. num2' - 1 = num2
        BY <1>s, <3>2
      <4> QED
        BY <3>2, <4>1
    <3> QED
      BY <2>6, <2>7, <3>1, <3>2
  <2> QED
    BY <2>2, <2>3, <2>4, <2>8
<1> QED
  BY <1>1, <1>5, <1>6, <1>7

LEMMA FrameInit == Init => FrameInv
<1> SUFFICES ASSUME Init PROVE FrameInv
  OBVIOUS
<1>1. /\ pc = "open" /\ total_cmd_num = 0 /\ idx = 0 /\ len = 0 /\ num1 = 0 /\ num2 = 0
      /\ isFinishCmd = FALSE /\ heard = None
  BY Zenon DEF Init
<1>2. Loaded /\ Walked /\ Copied
  BY <1>1 DEF Loaded, Walked, Copied, InFile
<1>3. Heard
  BY <1>1 DEF Heard, OwnSeqAccepted, OtherSeqRefused
<1> QED
  BY <1>2, <1>3 DEF FrameInv

LEMMA FrameStep == Typed /\ Typed' /\ FrameInv /\ [Next]_vars => FrameInv'
<1> SUFFICES ASSUME Typed, Typed', FrameInv, [Next]_vars PROVE FrameInv'
  OBVIOUS
<1>i. Loaded /\ Walked /\ Copied /\ Heard
  BY DEF FrameInv
<1>t. total_cmd_num \in Nat /\ signed \in BOOLEAN
  <2>1. total_cmd_num \in 0 .. MaxTotal
    BY DEF Typed, TypeOK
  <2> QED
    BY <2>1, Sizes DEF Typed, TypeOK
\* What depends on the file alone.
<1>f. ASSUME file' = file
      PROVE  /\ Commands' = Commands /\ WellFormed' = WellFormed
             /\ LongEnough' = LongEnough /\ AsAssumed' = AsAssumed
             /\ \A k : /\ Size(k)' = Size(k) /\ \A c : At(k, c)' = At(k, c)
                       /\ Is(k, DATA)' = Is(k, DATA) /\ Is(k, FINISH)' = Is(k, FINISH)
  BY <1>f DEF Commands, WellFormed, LongEnough, AsAssumed, Size, At, Is
\* Between two commands only the place changes.
<1>w. ASSUME UNCHANGED image, UNCHANGED cmd, pc \in {"send", "wait"}, pc' \in {"send", "wait", "next", "fail", "success"},
             pc' = "wait" => wire' = Report
      PROVE  Loaded' /\ Walked' /\ Copied' /\ (Numbered' => Numbered)
  <2>1. /\ UNCHANGED <<signed, file, fw, fw_data_len>>
        /\ UNCHANGED <<idx, len, cmd_buf, total_cmd_num, current_data_seq, num1, num2, isFinishCmd>>
    BY <1>w DEF image, cmd
  <2>2. Loaded'
    BY <1>i, <1>w, <2>1 DEF Loaded
  <2>3. Walked'
    BY <1>i, <1>w, <2>1 DEF Walked, WellFormed, LongEnough, AsAssumed, Commands, Is, At, Size
  <2>4. InFile' => InFile
    BY <1>f, <1>w, <2>1 DEF InFile
  <2>5. Numbered' => Numbered
    BY <1>f, <2>1, <2>4 DEF Numbered
  <2>6. Report' = Report
    BY <2>1 DEF Report
  <2>7. Copied'
    BY <1>i, <1>f, <1>w, <2>1, <2>4, <2>5, <2>6 DEF Copied
  <2> QED
    BY <2>2, <2>3, <2>5, <2>7
\* No answer, no verdict.
<1>h. heard' = None => OwnSeqAccepted' /\ OtherSeqRefused'
  BY DEF OwnSeqAccepted, OtherSeqRefused, AboutData, None, DATA
<1>1. CASE LoadImage
  <2>1. /\ pc = "open" /\ pc' \in {"next", "undefined"} /\ UNCHANGED <<signed, file>> /\ UNCHANGED cmd
        /\ pc' = "next" => /\ fw_data_len' = Len(file.bytes)
                           /\ \E b \in Fills :
                                fw' = [i \in 0 .. FwBuf - 1 |-> IF i < fw_data_len' THEN file.bytes[i + 1] ELSE b]
    BY <1>1 DEF LoadImage
  <2>2. /\ total_cmd_num' = 0 /\ idx' = 0 /\ len' = 0 /\ num1' = 0 /\ num2' = 0 /\ isFinishCmd' = FALSE
    BY <1>i, <2>1 DEF Loaded, cmd
  <2>3. Loaded'
    <3>1. ASSUME pc' = "next", NEW i \in 0 .. fw_data_len' - 1, i < FwBuf PROVE fw'[i] = file'.bytes[i + 1]
      <4>1. PICK l \in Nat : l = fw_data_len'
        BY DEF Typed, TypeOK
      <4>2. i \in 0 .. l - 1 /\ FwBuf \in Nat
        BY <4>1, Sizes
      <4>3. i \in 0 .. FwBuf - 1 /\ i < l
        BY <3>1, <4>2
      <4> QED
        BY <2>1, <3>1, <4>1, <4>3
    <3> QED
      BY <2>1, <2>2, <3>1 DEF Loaded
  <2>4. Walked'
    <3> SUFFICES ASSUME WellFormed
                 PROVE  /\ idx' + len' = file'.cuts[1]
                        /\ num1' = Cardinality({k \in 1 .. 0 : Is(k, DATA)'})
                        /\ ~ isFinishCmd'
                        /\ num1' * Unit <= idx' + len' /\ (num2' - 1) * fw_data_len' <= Full * idx'
      <4>1. 0 + 1 = 1 /\ 1 .. 0 = {}
        OBVIOUS
      <4> QED
        BY <1>f, <2>1, <2>2, <4>1 DEF Walked
    <3>1. file'.cuts[1] = 0
      BY <2>1 DEF WellFormed
    <3>2. {k \in 1 .. 0 : Is(k, DATA)'} = {}
      OBVIOUS
    <3>3. Cardinality({}) = 0
      BY FS_EmptySet
    <3>4. num1' * Unit <= idx' + len' /\ (num2' - 1) * fw_data_len' <= Full * idx'
      <4>1. PICK l \in Nat : l = fw_data_len'
        BY DEF Typed, TypeOK
      <4>2. 0 * Unit <= 0 + 0 /\ (0 - 1) * l <= Full * 0
        BY Sizes
      <4> QED
        BY <2>2, <4>1, <4>2
    <3> QED
      BY <2>2, <3>1, <3>2, <3>3, <3>4
  <2>5. ~ InFile'
    BY <2>2 DEF InFile, Commands
  <2>6. Copied'
    BY <2>5 DEF Copied
  <2>7. Heard'
    BY <2>1, <2>5 DEF Heard, OwnSeqAccepted, OtherSeqRefused, AboutData, Numbered
  <2> QED
    BY <2>3, <2>4, <2>6, <2>7 DEF FrameInv
<1>2. CASE NextCommand
  <2>1. /\ pc = "next" /\ pc' \in {"send", "undefined"} /\ total_cmd_num' = total_cmd_num + 1
        /\ heard' = None /\ UNCHANGED image
    BY <1>2 DEF NextCommand
  <2>2. UNCHANGED <<signed, file, fw, fw_data_len>>
    BY <2>1 DEF image
  <2>k. PICK k \in Nat : k = total_cmd_num + 1
    BY <1>t
  <2>3. Loaded'
    <3>1. total_cmd_num' # 0 /\ pc' # "open"
      BY <1>t, <2>1
    <3>2. fw_data_len = Len(file.bytes) /\ \A i \in 0 .. fw_data_len - 1 : i < FwBuf => fw[i] = file.bytes[i + 1]
      BY <1>i, <2>1 DEF Loaded
    <3> QED
      BY <2>2, <3>1, <3>2 DEF Loaded
  <2>4. Walked'
    <3> SUFFICES ASSUME WellFormed, k \in 0 .. Len(file.cuts) - 1
                 PROVE  /\ idx' + len' = file.cuts[k + 1]
                        /\ num1' = Cardinality({j \in 1 .. k : Is(j, DATA)})
                        /\ LongEnough => (isFinishCmd' <=> \E j \in 1 .. k : Is(j, FINISH))
                        /\ AsAssumed  => num1' * Unit <= idx' + len' /\ (num2' - 1) * fw_data_len <= Full * idx'
      BY <1>f, <2>1, <2>2, <2>k DEF Walked
    <3>1. k \in Commands
      BY <1>t, <2>k DEF Commands
    <3> QED
      BY <1>i, <1>2, <2>k, <3>1, WalkedNext
  <2>5. Copied'
    <3> SUFFICES ASSUME WellFormed, k \in Commands
                 PROVE  /\ pc' # "undefined"
                        /\ idx' = file.cuts[k] /\ len' = Size(k)
                        /\ cmd_buf'[0] = ReportType
                        /\ \A c \in 1 .. len' : Byte(cmd_buf'[c]) = At(k, c)
                        /\ Is(k, DATA) /\ Size(k) >= 7 => current_data_seq' = Word(cmd_buf'[6], cmd_buf'[7])
                        /\ pc' # "wait"
      <4>1. total_cmd_num' = k /\ file' = file
        BY <2>1, <2>2, <2>k
      <4>2. \A c \in 1 .. len' : At(total_cmd_num, c)' = At(k, c)
        BY <4>1 DEF At
      <4>3. Size(total_cmd_num)' = Size(k)
        BY <4>1 DEF Size
      <4>4. Numbered' => Is(k, DATA) /\ Size(k) >= 7
        BY <4>1 DEF Numbered, Is, At, Size
      <4>5. InFile' => WellFormed /\ k \in Commands
        BY <1>f, <4>1 DEF InFile
      <4>6. \A c : Byte(cmd_buf[c])' = Byte(cmd_buf'[c])
        BY DEF Byte
      <4> QED
        BY <4>1, <4>2, <4>3, <4>4, <4>5 DEF Copied, Word, Byte
    <3> QED
      BY <1>i, <1>2, <2>k, CommandRead
  <2>6. Heard'
    BY <1>h, <2>1 DEF Heard
  <2> QED
    BY <2>3, <2>4, <2>5, <2>6 DEF FrameInv
<1>3. CASE Send
  <2>1. /\ pc = "send" /\ pc' \in {"wait", "fail"} /\ heard' = None /\ UNCHANGED image /\ UNCHANGED cmd
        /\ pc' = "wait" => wire' = Report
    BY <1>3 DEF Send
  <2>2. Loaded' /\ Walked' /\ Copied'
    BY <1>w, <2>1
  <2>3. Heard'
    BY <1>h, <2>1 DEF Heard
  <2> QED
    BY <2>2, <2>3 DEF FrameInv
<1>4. CASE Answer
  <2>1. PICK a \in seen, stat \in {"SUCCESS", "NO_NEED_UPDATE", "ERROR"} :
          pc' = Verdict(a, stat) /\ heard' = [cmd |-> a.cmd, lo |-> a.lo, hi |-> a.hi, stat |-> stat]
    BY <1>4 DEF Answer
  <2>2. pc = "wait" /\ UNCHANGED image /\ UNCHANGED cmd
    BY <1>4 DEF Answer
  <2>3. pc' \in {"send", "next", "success"}
    BY <2>1 DEF Verdict
  <2>4. Loaded' /\ Walked' /\ Copied' /\ (Numbered' => Numbered)
    BY <1>w, <2>2, <2>3
  <2>5. heard'.cmd = a.cmd /\ heard'.lo = a.lo /\ heard'.hi = a.hi /\ heard'.stat = stat
    BY <2>1
  <2>6. a.lo \in Bytes /\ a.hi \in Bytes
    BY DEF Typed, TypeOK
  <2>7. cmd_buf' = cmd_buf /\ current_data_seq' = current_data_seq /\ signed' = signed
    BY <2>2 DEF cmd, image
  <2>8. cmd_buf[6] \in Chars /\ cmd_buf[7] \in Chars
    BY Sizes DEF Typed
  <2>9. Numbered => current_data_seq = Word(cmd_buf[6], cmd_buf[7])
    BY <1>i DEF Copied, Numbered
  <2>10. OwnSeqAccepted'
    <3> SUFFICES ASSUME pc' = "send", AboutData', SameSeq' PROVE FALSE
      BY DEF OwnSeqAccepted
    <3>1. Numbered /\ a.cmd = DATA /\ stat = "SUCCESS"
      BY <2>4, <2>5 DEF AboutData
    <3>2. a.lo = Byte(cmd_buf[6]) /\ a.hi = Byte(cmd_buf[7])
      BY <2>5, <2>7 DEF SameSeq, Byte
    <3>3. Char(a.lo) = cmd_buf[6] /\ Char(a.hi) = cmd_buf[7]
      BY <1>t, <2>8, <3>2, ByteType
    <3>4. AnswerSeq(a) = current_data_seq
      BY <2>9, <3>1, <3>3 DEF AnswerSeq
    <3>5. a.cmd # FINISH
      BY <3>1 DEF DATA, FINISH
    <3>6. pc' = "next"
      BY <2>1, <3>1, <3>4, <3>5 DEF Verdict
    <3> QED
      BY <3>6
  <2>11. OtherSeqRefused'
    <3> SUFFICES ASSUME pc' = "next", AboutData', signed => cmd_buf[6] >= 0 PROVE SameSeq'
      BY <2>7 DEF OtherSeqRefused
    <3>1. Numbered /\ a.cmd = DATA
      BY <2>4, <2>5 DEF AboutData
    <3>2. AnswerSeq(a) = current_data_seq
      BY <2>1, <3>1 DEF Verdict
    <3>3. Word(Char(a.lo), Char(a.hi)) = Word(cmd_buf[6], cmd_buf[7])
      BY <2>9, <3>1, <3>2 DEF AnswerSeq
    <3>4. Char(a.lo) \in Chars /\ Char(a.hi) \in Chars /\ Byte(Char(a.lo)) = a.lo /\ Byte(Char(a.hi)) = a.hi
      BY <1>t, <2>6, CharType
    <3>5. cmd_buf[6] >= 0
      <4>1. ~ signed => cmd_buf[6] \in 0 .. Base - 1
        BY <2>8 DEF Chars, Bytes
      <4> QED
        BY <4>1, Sizes
    <3>6. Char(a.lo) = cmd_buf[6] /\ Char(a.hi) = cmd_buf[7]
      BY <1>t, <2>8, <3>3, <3>4, <3>5, WordOf
    <3>7. a.lo = Byte(cmd_buf[6]) /\ a.hi = Byte(cmd_buf[7])
      BY <3>4, <3>6
    <3> QED
      BY <2>5, <2>7, <3>7 DEF SameSeq, Byte
  <2> QED
    BY <2>3, <2>4, <2>10, <2>11 DEF FrameInv, Heard
<1>5. CASE Timeout
  <2>1. pc = "wait" /\ pc' = "send" /\ UNCHANGED image /\ UNCHANGED cmd /\ heard' = heard
    BY <1>5 DEF Timeout
  <2>2. Loaded' /\ Walked' /\ Copied'
    BY <1>w, <2>1
  <2>3. heard' = None
    BY <1>i, <2>1 DEF Heard
  <2>4. Heard'
    BY <1>h, <2>3 DEF Heard
  <2> QED
    BY <2>2, <2>4 DEF FrameInv
<1>6. CASE UNCHANGED vars
  <2>1. /\ UNCHANGED <<signed, file, fw, fw_data_len>>
        /\ UNCHANGED <<idx, len, cmd_buf, total_cmd_num, current_data_seq, num1, num2, isFinishCmd>>
        /\ UNCHANGED <<pc, wire, heard>>
    BY <1>6 DEF vars, image, cmd
  <2>2. Loaded'
    BY <1>i, <2>1 DEF Loaded
  <2>3. Walked'
    BY <1>i, <2>1 DEF Walked, WellFormed, LongEnough, AsAssumed, Commands, Is, At, Size
  <2>4. InFile' = InFile
    BY <1>f, <2>1 DEF InFile
  <2>5. Numbered' = Numbered
    BY <1>f, <2>1, <2>4 DEF Numbered
  <2>6. Report' = Report
    BY <2>1 DEF Report
  <2>7. Copied'
    BY <1>i, <1>f, <2>1, <2>4, <2>5, <2>6 DEF Copied
  <2>8. AboutData' = AboutData /\ SameSeq' = SameSeq
    BY <2>1, <2>5 DEF AboutData, SameSeq
  <2>9. Heard'
    BY <1>i, <2>1, <2>8 DEF Heard, OwnSeqAccepted, OtherSeqRefused
  <2> QED
    BY <2>2, <2>3, <2>7, <2>9 DEF FrameInv
<1> QED
  BY <1>1, <1>2, <1>3, <1>4, <1>5, <1>6 DEF Next

LEMMA Invariance == Spec => [](Typed /\ FrameInv)
<1>1. Init => Typed /\ FrameInv
  BY TypedInit, FrameInit
<1>2. Typed /\ FrameInv /\ [Next]_vars => (Typed /\ FrameInv)'
  BY TypedStep, FrameStep
<1> QED
  BY <1>1, <1>2, PTL DEF Spec

(***************************************************************************)
(* The properties                                                          *)
(***************************************************************************)

\* What write() is given is the command in the file, behind the report type.
LEMMA Written == Typed /\ FrameInv => ReportIsCommand
<1> SUFFICES ASSUME Typed, FrameInv, InFile
             PROVE  /\ pc # "undefined"
                    /\ pc = "wait" => wire = <<ReportType>> \o [i \in 1 .. Size(total_cmd_num) |-> At(total_cmd_num, i)]
  BY DEF ReportIsCommand
<1>1. /\ pc # "undefined" /\ len = Size(total_cmd_num) /\ cmd_buf[0] = ReportType
      /\ \A c \in 1 .. len : Byte(cmd_buf[c]) = At(total_cmd_num, c)
      /\ pc = "wait" => wire = Report
  BY DEF FrameInv, Copied
<1>2. ASSUME pc = "wait"
      PROVE  wire = <<ReportType>> \o [i \in 1 .. Size(total_cmd_num) |-> At(total_cmd_num, i)]
  <2> DEFINE body == [i \in 1 .. len |-> At(total_cmd_num, i)]
             text == <<ReportType>> \o body
  <2>n. PICK n \in Nat : n = len
    BY DEF Typed, TypeOK
  <2>1. /\ Report \in Seq(Bytes) /\ Len(Report) = n + 1
        /\ \A c \in 1 .. n + 1 : Report[c] = Byte(cmd_buf[c - 1])
    <3>1. len + 2 < CmdBuf
      BY <1>2 DEF Typed
    <3> QED
      BY <2>n, <3>1, ReportBytes
  <2>2. \A c \in 1 .. n : cmd_buf[c] \in Int
    <3>1. \A c \in 1 .. n : c \in 0 .. CmdBuf - 1
      BY <1>2, <2>n, Sizes DEF Typed
    <3>2. \A c \in 0 .. CmdBuf - 1 : cmd_buf[c] \in Int
      <4>1. cmd_buf \in [0 .. CmdBuf - 1 -> -(Base \div 2) .. Base - 1]
        BY DEF Typed, TypeOK
      <4> QED
        BY <4>1, Sizes
    <3> QED
      BY <3>1, <3>2
  <2>3. ReportType \in Bytes /\ Byte(ReportType) = ReportType
    BY Sizes DEF Bytes, Byte
  <2>4. \A c \in 1 .. n : At(total_cmd_num, c) \in Bytes
    <3>1. \A c \in 1 .. n : Byte(cmd_buf[c]) \in Bytes
      BY <2>2, ByteType DEF Typed, TypeOK
    <3> QED
      BY <1>1, <2>n, <3>1
  <2>5. /\ body \in Seq(Bytes) /\ Len(body) = n
        /\ \A c \in 1 .. n : body[c] = At(total_cmd_num, c)
    BY <2>4, <2>n
  <2> HIDE DEF body
  <2>6. /\ text \in Seq(Bytes) /\ Len(text) = n + 1 /\ text[1] = ReportType
        /\ \A c \in 1 .. n : text[c + 1] = body[c]
    BY <2>3, <2>5
  <2> HIDE DEF text
  <2>7. \A c \in 1 .. n + 1 : Report[c] = text[c]
    <3> SUFFICES ASSUME NEW c \in 1 .. n + 1 PROVE Report[c] = text[c]
      OBVIOUS
    <3>1. CASE c = 1
      <4>1. c - 1 = 0
        BY <3>1
      <4> QED
        BY <1>1, <2>1, <2>3, <2>6, <3>1, <4>1
    <3>2. CASE c # 1
      <4>1. PICK d \in 1 .. n : d = c - 1 /\ c = d + 1
        BY <3>2
      <4>2. Report[c] = Byte(cmd_buf[d])
        BY <2>1, <4>1
      <4>3. Byte(cmd_buf[d]) = At(total_cmd_num, d)
        BY <1>1, <2>n, <4>1
      <4>4. text[c] = At(total_cmd_num, d)
        BY <2>5, <2>6, <4>1
      <4> QED
        BY <4>2, <4>3, <4>4
    <3> QED
      BY <3>1, <3>2
  <2>8. Report = text
    BY <2>1, <2>6, <2>7
  <2> QED
    BY <1>1, <1>2, <2>8 DEF text, body
<1> QED
  BY <1>1, <1>2

\* A command of a well-formed file is one the walk has come to.
LEMMA Reached == Typed /\ FrameInv => CommandsCounted /\ ProgressHonest
<1> SUFFICES ASSUME Typed, FrameInv, InFile PROVE CommandsCounted /\ ProgressHonest
  BY DEF CommandsCounted, ProgressHonest
<1>1. WellFormed /\ pc # "open" /\ total_cmd_num \in 0 .. Len(file.cuts) - 1
  <2>1. total_cmd_num \in 1 .. Len(file.cuts) - 1
    BY DEF InFile, Commands
  <2> QED
    BY <2>1 DEF InFile
<1>2. /\ num1 = Cardinality({k \in 1 .. total_cmd_num : Is(k, DATA)})
      /\ LongEnough => (isFinishCmd <=> \E k \in 1 .. total_cmd_num : Is(k, FINISH))
      /\ AsAssumed  => (num2 - 1) * fw_data_len <= Full * idx
  BY <1>1 DEF FrameInv, Walked
<1>3. CommandsCounted
  BY <1>2, Zenon DEF CommandsCounted, LongEnough
<1>4. ProgressHonest
  BY <1>2, Zenon DEF ProgressHonest, AsAssumed
<1> QED
  BY <1>3, <1>4

\* Whatever the file, and however often a command is sent again, the n-th command
\* written is the n-th of a well-formed file, byte for byte behind the report type.
THEOREM ReportCorrect == Spec => []ReportIsCommand
BY Invariance, Written, PTL

\* The DATA commands counted are those of the file, and the end of the update is
\* taken from the FINISH of the file, where every command has a command byte.
THEOREM CountCorrect == Spec => []CommandsCounted
BY Invariance, Reached, PTL

\* The percentage is never more than one ahead of the bytes sent, whatever the
\* lengths, when no DATA command is shorter than assumed.
THEOREM ProgressCorrect == Spec => []ProgressHonest
BY Invariance, Reached, PTL

\* The device that repeats a command's number is believed in every build.
THEOREM OwnSeqCorrect == Spec => []OwnSeqAccepted
<1>1. FrameInv => OwnSeqAccepted
  BY DEF FrameInv, Heard
<1> QED
  BY <1>1, Invariance, PTL

\* A wrong number is refused where char is unsigned, and where it is signed
\* unless the low byte of the number is negative.
THEOREM OtherSeqCorrect == Spec => []OtherSeqRefused
<1>1. FrameInv => OtherSeqRefused
  BY DEF FrameInv, Heard
<1> QED
  BY <1>1, Invariance, PTL

\* For any bytes and either sign of char, hidRead() tells the answers apart.
THEOREM AnswersToldCorrect == Spec => []AnswersTold
<1>1. OwnSeqAccepted /\ OtherSeqRefused => AnswersTold
  BY DEF AnswersTold
<1> QED
  BY <1>1, OwnSeqCorrect, OtherSeqCorrect, PTL
=============================================================================
