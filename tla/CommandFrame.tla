----------------------------- MODULE CommandFrame -----------------------------
(***************************************************************************)
(* The bytes of an update: how ota_update() (jni/hidserv.c) cuts the       *)
(* firmware file into commands by the length fields in it, copies each     *)
(* into cmd_buf, counts the progress, and how hidRead() compares the       *)
(* sequence number of an answer with that of the command.                  *)
(*                                                                         *)
(* OtaUpdate takes commands and sequence numbers as values; here they are  *)
(* bytes, of Base values each, in buffers of a size, and cmd_buf and       *)
(* rsp_cmd hold char, whose sign is the build's choice.  An answer and the *)
(* poll that sees it are one step: OtaUpdate has their interleavings.      *)
(***************************************************************************)
EXTENDS Integers, Sequences, FiniteSets

CONSTANTS
  Base,       \* values of a byte: 256
  ReportType, \* 0x52, first byte of every report
  Unit,       \* data_cmd_len, 649: the length a DATA command is assumed to have
  Full,       \* 100 percent
  CmdBuf,     \* size of cmd_buf: 1024
  FwBuf,      \* size of fw_data_buf: 512 KiB
  Images,     \* the files: their bytes, and the cuts between the commands in them
  Fills,      \* what the uninitialised rest of fw_data_buf may hold
  MaxTotal    \* bound: commands prepared

Bytes == 0 .. Base - 1

ASSUME SizesAssumption == /\ Base \in Nat /\ Base > 7 /\ Base % 2 = 0
                          /\ ReportType \in Nat /\ 2 * ReportType < Base
                          /\ {Unit, Full, CmdBuf, FwBuf, MaxTotal} \subseteq Nat \ {0}
                          /\ CmdBuf > 7
ASSUME FilesAssumption == /\ \A f \in Images : f.bytes \in Seq(Bytes) /\ f.cuts \in Seq(Nat)
                          /\ Fills \subseteq Bytes

START  == 1
DATA   == 2
FINISH == 3
None   == [cmd |-> 0, lo |-> 0, hi |-> 0, stat |-> "none"]   \* no answer

VARIABLES
  signed,                   \* the build: char is a signed type
  file,                     \* the file; its cuts are auxiliary
  fw, fw_data_len,          \* fw_data_buf and how much of it is the file
  pc, idx, len,             \* current_cmd_idx, current_cmd_len
  cmd_buf, total_cmd_num, send_count,
  current_data_seq, num1, num2, isFinishCmd,
  wire,                     \* the bytes of the last write()
  seen, heard               \* auxiliary: the commands the device may answer,
                            \* and the answer the last step acted on

image == <<signed, file, fw, fw_data_len>>
cmd   == <<idx, len, cmd_buf, total_cmd_num, current_data_seq, num1, num2, isFinishCmd>>
vars  == <<image, pc, cmd, send_count, wire, seen, heard>>

Char(b) == IF signed /\ 2 * b >= Base THEN b - Base ELSE b
Byte(c) == c % Base
\* lo | (hi << 8) in int: a negative lo has every higher bit set.
Word(lo, hi) == IF lo < 0 THEN lo ELSE lo + Base * hi

TypeOK ==
  /\ signed \in BOOLEAN /\ file.bytes \in Seq(Bytes) /\ file.cuts \in Seq(Nat)
  /\ fw \in [0 .. FwBuf - 1 -> Bytes] /\ fw_data_len \in Nat
  /\ pc \in {"open", "next", "send", "wait", "fail", "success", "undefined"}
  /\ {idx, len, num1} \subseteq Nat /\ num2 \in 0 .. Full
  /\ cmd_buf \in [0 .. CmdBuf - 1 -> -(Base \div 2) .. Base - 1]
  /\ total_cmd_num \in 0 .. MaxTotal /\ send_count \in 0 .. 4
  /\ current_data_seq \in -Base * Base .. Base * Base
  /\ isFinishCmd \in BOOLEAN /\ wire \in Seq(Bytes)
  /\ seen \subseteq [cmd : {START, DATA, FINISH}, lo : Bytes, hi : Bytes]

Init ==
  /\ signed \in BOOLEAN /\ file \in Images
  /\ fw = [i \in 0 .. FwBuf - 1 |-> 0] /\ fw_data_len = 0
  /\ pc = "open" /\ idx = 0 /\ len = 0
  /\ cmd_buf = [c \in 0 .. CmdBuf - 1 |-> 0]
  /\ total_cmd_num = 0 /\ send_count = 0 /\ current_data_seq = 0
  /\ num1 = 0 /\ num2 = 0 /\ isFinishCmd = FALSE
  /\ wire = <<>> /\ seen = {} /\ heard = None

\* The file is read byte by byte, whatever its size, until feof(): beyond
\* fw_data_buf, where a read error leads too, the behaviour is undefined.
LoadImage ==
  /\ pc = "open"
  /\ \/ /\ Len(file.bytes) <= FwBuf
        /\ fw_data_len' = Len(file.bytes)
        /\ \E b \in Fills :
             fw' = [i \in 0 .. FwBuf - 1 |-> IF i < fw_data_len' THEN file.bytes[i + 1] ELSE b]
        /\ pc' = "next"
     \/ pc' = "undefined" /\ UNCHANGED <<fw, fw_data_len>>
  /\ UNCHANGED <<signed, file, cmd, send_count, wire, seen, heard>>

-----------------------------------------------------------------------------
(***************************************************************************)
(* FLAG_SNED_NEXT_CMD                                                      *)
(***************************************************************************)

\* cmd_buf with n bytes of the file from position i, over what stood there.
CopyOver(old, i, n) ==
  [c \in 0 .. CmdBuf - 1 |-> CASE c = 0      -> ReportType
                               [] c \in 1 .. n -> Char(fw[i + c - 1])
                               [] OTHER      -> old[c]]

\* Mutant: cmd_buf is not cleared.
CopyUncleared(i, n) == CopyOver(cmd_buf, i, n)

Copy(i, n) == CopyOver([c \in 0 .. CmdBuf - 1 |-> 0], i, n)

\* CRCRes is the 16-bit sum of the chars, stored behind the command: in the
\* buffer only, the report ends before it.
Sum(buf, n) == LET sum[c \in 0 .. n] == IF c = 0 THEN 0 ELSE sum[c - 1] + buf[c]
               IN sum[n] % (Base * Base)
WithSum(buf, n) == [buf EXCEPT ![n + 1] = Char(Sum(buf, n) % Base),
                               ![n + 2] = Char(Sum(buf, n) \div Base)]

LengthAt(i) == Word(fw[i + 1], fw[i + 2])

\* Mutant: one command is one percent.
PercentPerCommand(n) == num2 <= Full - 1

\* The percentage moves on by at most one with each DATA command.
PercentDue(n) == (n * Unit * Full) \div fw_data_len >= num2 /\ num2 <= Full - 1

\* Mutant: the sequence number as unsigned bytes.
CommandSeqUnsigned(buf) == Word(Byte(buf[6]), Byte(buf[7]))

CommandSeq(buf) == Word(buf[6], buf[7])

\* Mutant: the length is kept in a byte.
AdvanceByLowByte(i, n) == i + (n % Base)
Advance(i, n) == i + n

NextCommand ==
  /\ pc = "next" /\ total_cmd_num < MaxTotal
  /\ total_cmd_num' = total_cmd_num + 1 /\ send_count' = 0
  /\ idx' = Advance(idx, len)
  /\ IF idx' + 2 >= FwBuf
       THEN pc' = "undefined" /\ UNCHANGED <<len, cmd_buf, current_data_seq, num1, num2, isFinishCmd>>
       ELSE LET n   == LengthAt(idx')
                buf == Copy(idx', n)
            IN /\ len' = n
               /\ IF n + 2 >= CmdBuf \/ idx' + n > FwBuf
                         \/ (buf[5] = DATA /\ fw_data_len = 0)   \* the division by it
                    THEN pc' = "undefined" /\ UNCHANGED <<cmd_buf, current_data_seq, num1, num2, isFinishCmd>>
                    ELSE /\ pc' = "send"
                         /\ cmd_buf' = WithSum(buf, n)
                         /\ IF buf[5] = DATA
                              THEN /\ current_data_seq' = CommandSeq(buf)
                                   /\ num2' = IF PercentDue(num1) THEN num2 + 1 ELSE num2
                                   /\ num1' = num1 + 1
                              ELSE current_data_seq' = 0 /\ UNCHANGED <<num1, num2>>
                         /\ isFinishCmd' = (isFinishCmd \/ cmd_buf'[5] = FINISH)
  /\ heard' = None
  /\ UNCHANGED <<image, wire, seen>>

-----------------------------------------------------------------------------
(***************************************************************************)
(* FLAG_RETRY_CMD, hidWrite() and the answers                              *)
(***************************************************************************)

\* Mutant: the call commented out at :894, which sends the sum too.
ReportWithSum == [c \in 1 .. len + 3 |-> Byte(cmd_buf[c - 1])]
Report        == [c \in 1 .. len + 1 |-> Byte(cmd_buf[c - 1])]

\* What a device that keeps to the format answers to a report (external).
Echoes(r) ==
  IF Len(r) < 6 \/ r[6] \notin {START, DATA, FINISH} THEN {}
  ELSE {[cmd |-> r[6], lo |-> IF r[6] = DATA /\ Len(r) > 7 THEN r[7] ELSE 0,
                       hi |-> IF r[6] = DATA /\ Len(r) > 7 THEN r[8] ELSE 0]}

Send ==
  /\ pc = "send"
  /\ send_count' = send_count + 1
  /\ \/ send_count' <= 3 /\ pc' = "wait" /\ wire' = Report
     \/ pc' = "fail" /\ UNCHANGED wire         \* the third retry, or write() failed
  /\ seen' = IF pc' = "wait" THEN seen \cup Echoes(wire') ELSE seen
  /\ heard' = None
  /\ UNCHANGED <<image, cmd>>

\* Mutant: the low byte decides.
AnswerSeqLow(a) == Word(Char(a.lo), Char(current_data_seq \div Base))

\* rsp_cmd holds char as well.
AnswerSeq(a) == Word(Char(a.lo), Char(a.hi))

\* Where the verdict of hidRead() takes ota_update().
Verdict(a, stat) ==
  IF a.cmd = DATA /\ AnswerSeq(a) # current_data_seq THEN "send"
  ELSE CASE stat = "SUCCESS" -> IF a.cmd = FINISH THEN "success" ELSE "next"
         [] stat = "NO_NEED_UPDATE" -> "success"
         [] OTHER -> "send"

\* An answer to this command or, late, to an earlier one.
Answer ==
  /\ pc = "wait"
  /\ \E a \in seen, stat \in {"SUCCESS", "NO_NEED_UPDATE", "ERROR"} :
       /\ pc' = Verdict(a, stat)
       /\ heard' = [cmd |-> a.cmd, lo |-> a.lo, hi |-> a.hi, stat |-> stat]
  /\ UNCHANGED <<image, cmd, send_count, wire, seen>>

Timeout ==
  /\ pc = "wait" /\ pc' = "send"
  /\ UNCHANGED <<image, cmd, send_count, wire, seen, heard>>

Next == LoadImage \/ NextCommand \/ Send \/ Answer \/ Timeout
Spec == Init /\ [][Next]_vars
-----------------------------------------------------------------------------
Commands == 1 .. Len(file.cuts) - 1
Size(k)  == file.cuts[k + 1] - file.cuts[k]
At(k, i) == file.bytes[file.cuts[k] + i]
Is(k, c) == Size(k) >= 5 /\ At(k, 5) = c

\* A file made as the format says: each command has its length in it and fits
\* cmd_buf with its sum; the file fits fw_data_buf.
WellFormed ==
  /\ Len(file.bytes) <= FwBuf
  /\ file.cuts # <<>> /\ file.cuts[1] = 0
  /\ \A k \in Commands : /\ Size(k) \in 3 .. CmdBuf - 3
                        /\ file.cuts[k + 1] <= Len(file.bytes)
                        /\ Word(At(k, 2), At(k, 3)) = Size(k)
InFile == WellFormed /\ total_cmd_num \in Commands /\ pc # "open"

\* However often commands are repeated, the n-th command taken from a well-formed
\* file is the n-th it was made of, byte for byte behind the report type, without
\* the sum, and no buffer is left on the way.
ReportIsCommand ==
  InFile => /\ pc # "undefined"
            /\ pc = "wait" => wire = <<ReportType>> \o [i \in 1 .. Size(total_cmd_num) |-> At(total_cmd_num, i)]

\* A command is taken for DATA by its own command byte and no other, short or
\* long, first copy or third: num1 counts the DATA commands of the file so far.
\* isFinishCmd says that FINISH has been reached, though the byte it is taken
\* from is looked at after the sum was stored behind the command: right unless a
\* command is too short to reach its command byte.
CommandsCounted ==
  InFile =>
    /\ num1 = Cardinality({k \in 1 .. total_cmd_num : Is(k, DATA)})
    /\ (\A k \in Commands : Size(k) >= 5)
         => (isFinishCmd <=> \E k \in 1 .. total_cmd_num : Is(k, FINISH))

\* When DATA commands are as long as assumed, or longer, the percentage logged is
\* never more than one ahead of the bytes of the file that were sent before.
ProgressHonest ==
  (InFile /\ \A k \in Commands : Is(k, DATA) => Size(k) >= Unit)
    => (num2 - 1) * fw_data_len <= Full * idx

SameSeq == heard.lo = Byte(cmd_buf[6]) /\ heard.hi = Byte(cmd_buf[7])
\* A DATA command, long enough for its sequence number: in a shorter one the bytes
\* of the number are those of the sum.
Numbered == InFile /\ Is(total_cmd_num, DATA) /\ Size(total_cmd_num) >= 7
AboutData == Numbered /\ heard.cmd = DATA /\ heard.stat = "SUCCESS"

\* A device that repeats the number of the DATA command is believed, whatever the
\* bytes and the sign of char.
OwnSeqAccepted == ~ (pc = "send" /\ AboutData /\ SameSeq)

\* The answer to another DATA command moves the update on in no build but one
\* with signed char, and there only when the low byte is negative: the high byte
\* is lost then.
OtherSeqRefused == pc = "next" /\ AboutData /\ (signed => cmd_buf[6] >= 0) => SameSeq

\* The comparison in hidRead() tells the answers to DATA commands apart, both ways.
AnswersTold == OwnSeqAccepted /\ OtherSeqRefused
=============================================================================
