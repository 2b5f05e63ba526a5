------------------------------ MODULE DeviceInfo ------------------------------
(***************************************************************************)
(* What a connecting HID device is, and how it is remembered: the          *)
(* functions create_device(), request_authentication() and                 *)
(* request_encryption() (jni/hidserv.c), get_sdp_device_info(),            *)
(* epox_endian_quirk(), store_device_info() and get_stored_device_info()   *)
(* (jni/sdp.c).                                                            *)
(*                                                                         *)
(* A line of the file is text: the report descriptor in hex digits, the    *)
(* flags in eight of them, the name.  The numbers before them are printed  *)
(* and read with fixed widths: vendor stands for vendor, product and       *)
(* version, parser for parser and country.  The device, the kernel and     *)
(* the file's container are external.  Any malloc() may fail.              *)
(***************************************************************************)
EXTENDS Integers, Sequences, FiniteSetsExt

CONSTANTS
  Devices,   \* addresses
  Offers,    \* the HID records a device may have
  TextCap,   \* characters %4095s reads: 4095
  NameSize,  \* size of req.name: 128
  Requests,  \* what create_device() is called with, beside the sockets
  MaxCalls   \* bound: calls of create_device()

\* Characters: the hex digits 0 .. 15, any other letter, the blank.
Letter == 16
Blank  == 17
FlagDigits == 8

EmptyReq == [vendor |-> 0, subclass |-> 0, parser |-> 0, rd |-> <<>>, flags |-> <<>>,
             name |-> <<>>]
NoLine   == [vendor |-> -1, subclass |-> 0, parser |-> 0, text |-> <<>>]
NoResult == [dev |-> "none", from |-> "none", req |-> EmptyReq, boot |-> FALSE]

VARIABLES
  offer,      \* what each device has; it does not change
  file,       \* the stored line of each device
  result,     \* what the last create_device() did
  undefined,  \* behaviour the language leaves open has happened
  hciOpen,    \* HCI descriptors left open
  calls,      \* auxiliary: calls so far
  faults,     \* auxiliary: a malloc() or the PnP request has failed
  looked      \* auxiliary: what was found when the line was stored

infoVars == <<offer, file, result, undefined, hciOpen, calls, faults, looked>>

Bytes == 0 .. 255
Text  == Seq(0 .. Blank)
Reqs  == [vendor : Nat, subclass : Bytes, parser : Nat, rd : Seq(Bytes),
          flags : Seq(0 .. 15), name : Text]

ASSUME InfoSizesAssumption == {TextCap, MaxCalls} \subseteq Nat /\ NameSize \in Nat \ {0}
ASSUME OffersAssumption ==
  Offers \subseteq [vendor : Nat, subclass : Bytes, parser : Nat, hasRd : BOOLEAN, rd : Seq(Bytes),
                   service : Text, provider : Text, desc : Text]
ASSUME RequestsAssumption ==
  Requests \subseteq [nosdp : BOOLEAN, nocheck : BOOLEAN, bootonly : BOOLEAN, encrypt : BOOLEAN,
                     subclass : Bytes]

InfoTypeOK ==
  /\ \A d \in Devices : file[d] = NoLine \/ file[d].text \in Text
  /\ result.req \in Reqs /\ Len(result.req.name) < NameSize
  /\ \A d \in Devices : looked[d] \in Reqs
  /\ undefined \in BOOLEAN /\ faults \in BOOLEAN
  /\ hciOpen \in 0 .. 2 * MaxCalls /\ calls \in 0 .. MaxCalls

InfoInit ==
  /\ offer \in [Devices -> Offers]
  /\ file = [d \in Devices |-> NoLine] /\ looked = [d \in Devices |-> EmptyReq]
  /\ result = NoResult /\ undefined = FALSE
  /\ hciOpen = 0 /\ calls = 0 /\ faults = FALSE

-----------------------------------------------------------------------------
(***************************************************************************)
(* sdp.c: the descriptor, the name, the stored line                        *)
(***************************************************************************)
Pattern == <<5, 7, 25, 0, 42, 0, 255, 21, 0, 38, 0, 255>>
Fixed   == <<5, 7, 25, 0, 42, 255, 0, 21, 0, 38, 255, 0>>
Size    == Len(Pattern)

\* Whether the pattern stands behind the first i bytes.
PatternAt(data, i) == SubSeq(data, i + 1, i + Size) = Pattern

\* The data with the patterns that stand behind at most n bytes fixed.  Two of them
\* cannot overlap.
FixedUpTo(data, n) ==
  LET found(k) == {j \in 1 .. Size : k - j \in 0 .. n /\ PatternAt(data, k - j)}
  IN [k \in DOMAIN data |-> IF found(k) = {} THEN data[k] ELSE Fixed[Max(found(k))]]

\* Mutant: one place fewer.
QuirkShort(data) == FixedUpTo(data, Len(data) - Size - 2)

\* epox_endian_quirk(), of at least Size bytes: the loop leaves out the place where
\* the pattern would end with the data.
Quirk(data) == FixedUpTo(data, Len(data) - Size - 1)

Cut(s, n) == SubSeq(s, 1, IF n < Len(s) THEN n ELSE Len(s))

\* The service name, or else the description behind the provider, unless both begin
\* alike: then it goes behind what the name was before.  <<>> is an attribute the
\* device does not have.
NameOf(o, old) ==
  IF o.service # <<>> THEN Cut(o.service, NameSize - 1)
  ELSE IF o.desc = <<>> THEN old
  ELSE IF o.provider = <<>> THEN Cut(o.desc, NameSize - 1)
  ELSE LET first == IF Cut(o.desc, 5) = Cut(o.provider, 5) THEN old
                    ELSE Append(Cut(o.provider, NameSize - 1), Blank)
       IN first \o Cut(o.desc, NameSize - Len(first))

\* get_sdp_device_info() when the HID record is there.  old: what req held before,
\* its descriptor a length without bytes; memory: malloc() of rd_data.
ReqOf(o, old, pnp, memory) ==
  [vendor |-> IF pnp THEN o.vendor ELSE old.vendor, subclass |-> o.subclass,
   parser |-> o.parser, flags |-> old.flags,
   rd |-> IF o.hasRd /\ memory THEN Quirk(o.rd) ELSE <<>>, name |-> NameOf(o, old.name)]

\* The loop bound of the quirk is unsigned, the name may end behind the field, and
\* the line may be made from a descriptor that has a length and no bytes.
LeavesBounds(o, old, memory) ==
  \/ o.hasRd /\ memory /\ Len(o.rd) < Size
  \/ Len(NameOf(o, old.name)) >= NameSize
  \/ old.rd # <<>> /\ ~ (o.hasRd /\ memory)

Hex(rd) == [i \in 1 .. 2 * Len(rd) |-> LET b == rd[(i + 1) \div 2]
                                      IN IF i % 2 = 1 THEN b \div 16 ELSE b % 16]
Pad(f)  == [i \in 1 .. FlagDigits - Len(f) |-> 0] \o f

\* Mutants: the descriptor is the last field; the flags have no fixed width.
LineRdLast(req) ==
  [vendor |-> req.vendor, subclass |-> req.subclass, parser |-> req.parser,
   text |-> Pad(req.flags) \o <<Blank>> \o req.name \o <<Blank>> \o Hex(req.rd)]
LineUnpadded(req) ==
  [vendor |-> req.vendor, subclass |-> req.subclass, parser |-> req.parser,
   text |-> Hex(req.rd) \o <<Blank>> \o req.flags \o <<Blank>> \o req.name]

\* store_device_info()
Line(req) ==
  [vendor |-> req.vendor, subclass |-> req.subclass, parser |-> req.parser,
   text |-> Hex(req.rd) \o <<Blank>> \o Pad(req.flags) \o <<Blank>> \o req.name]

\* The conversions of sscanf(): the first place from i on that is no blank, and the
\* last place of a field of at most n characters up to m.
Skip(t, i)       == Min({k \in i .. Len(t) + 1 : k > Len(t) \/ t[k] # Blank})
FieldEnd(t, i, n, m) == Max({k \in i - 1 .. Min({i + n - 1, Len(t)}) : \A j \in i .. k : t[j] <= m})

\* "%4095s %08X %n": ok unless there is nothing to read for the flags, and then pos,
\* where the name begins, has no value.
Scan(t) ==
  LET a == Skip(t, 1)      b == FieldEnd(t, a, TextCap, Letter)
      c == Skip(t, b + 1)  d == FieldEnd(t, c, FlagDigits, 15)
  IN [desc |-> SubSeq(t, a, b), flags |-> SubSeq(t, c, d), ok |-> c <= d,
      name |-> SubSeq(t, Skip(t, d + 1), Len(t))]

\* The number a row of digits stands for, as the digits %X would print.
Number(f) == SubSeq(f, Min({k \in 1 .. Len(f) + 1 : k > Len(f) \/ f[k] # 0}), Len(f))

ByteAt(desc, i) == 16 * desc[2 * i - 1] + desc[2 * i]

\* get_stored_device_info()
StoredRd(desc) == [i \in 1 .. Len(desc) \div 2 |-> ByteAt(desc, i)]
Stored(line) ==
  LET s == Scan(line.text)
  IN [vendor |-> line.vendor, subclass |-> line.subclass, parser |-> line.parser,
      flags |-> Number(s.flags), name |-> Cut(s.name, NameSize - 1),
      rd |-> StoredRd(s.desc)]

-----------------------------------------------------------------------------
(***************************************************************************)
(* hidserv.c: create_device()                                              *)
(***************************************************************************)
Got(d, from, req, fault) == [from |-> from, req |-> req, line |-> file[d], fault |-> fault]

Readable(d) == file[d] # NoLine /\ Scan(file[d].text).ok

\* What the file gives.
FromFile(d) ==
  IF file[d] = NoLine THEN {}
  ELSE IF Readable(d) THEN {Got(d, "file", Stored(file[d]), FALSE)}
  ELSE {Got(d, "undefined", EmptyReq, FALSE)}

\* What req holds after a get_stored_device_info() that failed: nothing, or all but
\* the bytes of the descriptor when the malloc() for those did.
Leftovers(d) == {EmptyReq} \cup (IF Readable(d) THEN {Stored(file[d])} ELSE {})

\* What get_sdp_device_info() gives.  After a failed PnP request the pointer to its
\* result has no value: it may be 0, as without a record.  The line is stored
\* unless that fails, which nobody looks at.
FromSdp(d, old) ==
  LET o == offer[d] IN
  {Got(d, "undefined", EmptyReq, TRUE)} \cup
  UNION {IF LeavesBounds(o, old, memory) THEN {Got(d, "undefined", EmptyReq, FALSE)}
         ELSE LET req == ReqOf(o, old, pnp, memory)
                  got == Got(d, "sdp", req, ~ (pnp /\ memory))
              IN {got, [got EXCEPT !.line = Line(req)]}
         : pnp \in BOOLEAN, memory \in BOOLEAN}

\* The subclass by the class of device: its own byte for a peripheral, or 0xc0.  A
\* descriptor left over as a length without bytes counts as none.
FromClass(d, old) ==
  {Got(d, "class", [old EXCEPT !.subclass = s, !.rd = <<>>], FALSE) : s \in {0, 64, 192}}

Lookups(d, nosdp, nocheck) ==
  FromFile(d) \cup {Got(d, "failed", EmptyReq, FALSE)} \cup
  {[g EXCEPT !.fault = @ \/ file[d] # NoLine] :
     g \in IF ~ nocheck THEN {Got(d, "rejected", EmptyReq, FALSE)}
           ELSE UNION {IF nosdp THEN FromClass(d, old) ELSE FromSdp(d, old)
                       : old \in Leftovers(d)}}

\* request_authentication() and request_encryption(): the HCI descriptor is closed
\* on every way out but the one without memory.
LeftOpen(outcome) == IF outcome = "no memory" THEN 1 ELSE 0

\* The end of create_device(), from its label create: authentication where the
\* subclass asks for it, encryption whose failure is only logged, and what ioctl()
\* is given.
Create(d, got, r) ==
  LET subclass == IF r.subclass # 0 THEN r.subclass ELSE got.req.subclass
      asks     == r.encrypt /\ (subclass \div 64) % 2 = 1
      req      == [got.req EXCEPT !.subclass = subclass,
                                  !.rd = IF r.bootonly THEN <<>> ELSE @]
  IN \E auth, enc \in IF asks THEN {"ok", "error", "no memory"} ELSE {"ok"} :
       /\ auth # "ok" => enc = "ok"
       /\ hciOpen' = hciOpen + LeftOpen(auth) + LeftOpen(enc)
       /\ faults' = (faults \/ got.fault \/ "no memory" \in {auth, enc})
       /\ result' = IF auth = "ok"
                       THEN [dev |-> d, from |-> got.from, req |-> req, boot |-> r.bootonly]
                       ELSE [NoResult EXCEPT !.dev = d, !.from = "failed"]
       /\ undefined' = FALSE

CreateDevice(d, r) ==
  /\ ~ undefined /\ calls < MaxCalls
  /\ calls' = calls + 1
  /\ \E got \in Lookups(d, r.nosdp, r.nocheck) :
       /\ file' = [file EXCEPT ![d] = got.line]
       /\ looked' = IF got.from = "sdp" /\ got.line # file[d]
                       THEN [looked EXCEPT ![d] = got.req] ELSE looked
       /\ IF got.from \in {"file", "sdp", "class"}
            THEN Create(d, got, r)
            ELSE /\ undefined' = (got.from = "undefined")
                 /\ result' = [NoResult EXCEPT !.dev = d, !.from = got.from]
                 /\ faults' = (faults \/ got.fault)
                 /\ UNCHANGED hciOpen
  /\ UNCHANGED offer

InfoNext == \E d \in Devices, r \in Requests : CreateDevice(d, r)
InfoSpec == InfoInit /\ [][InfoNext]_infoVars
-----------------------------------------------------------------------------
\* A descriptor the file can hold, and a name it gives back.
Storable(req) == /\ req.rd # <<>> /\ 2 * Len(req.rd) < TextCap
                 /\ req.name = <<>> \/ req.name[1] # Blank

\* A device that comes back is added from the file with what its records said when
\* they were looked up, unless the file cannot hold it: no descriptor, one of more
\* than 2047 bytes, or a name that begins with a blank.
AddedAsLookedUp ==
  LET found == looked[result.dev]
  IN (result.from = "file" /\ Storable(found)) =>
       /\ <<result.req.vendor, result.req.parser, result.req.flags, result.req.name>>
            = <<found.vendor, found.parser, found.flags, found.name>>
       /\ ~ result.boot => result.req.rd = found.rd

\* As long as there is memory and the PnP request works no HCI descriptor stays open,
\* and no step is undefined with devices whose descriptor is there, at least as long
\* as the pattern and short enough for the file, and whose name fits.
Ordinary(o) == o.hasRd /\ Len(o.rd) >= Size /\ Len(NameOf(o, <<>>)) < NameSize
                 /\ Storable(ReqOf(o, EmptyReq, TRUE, TRUE))
WellDefined ==
  ~ faults => /\ hciOpen = 0
              /\ (\A d \in Devices : Ordinary(offer[d])) => ~ undefined

\* "must be FF 00", sdp.c:70: the descriptor of a looked-up device has the bytes in
\* that order wherever the pattern stood, but for its very end.
QuirkDone ==
  \A d \in Devices : LET rd == looked[d].rd
                     IN \A i \in 0 .. Len(rd) - Size - 1 : ~ PatternAt(rd, i)
=============================================================================
