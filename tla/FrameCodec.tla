----------------------------- MODULE FrameCodec ----------------------------
(***************************************************************************)
(* The two frame formats of packages/Hdlc7c7eFrame and packages/fffeFrame. *)
(* Both put a message between two markers, with a check before the second  *)
(* one, and code the bytes in between so that no marker occurs in them.    *)
(* A frame is a sequence of bytes, as it is on the line.                   *)
(***************************************************************************)
EXTENDS Integers, Sequences

CONSTANT MaxPair   \* fffeFrame.c: two 0xff this close are coded as a pair; 252

\* The distance of a pair is never taken for a marker's second byte.
ASSUME FrameCodecAssumption == MaxPair \in 1 .. 252

Byte == 0 .. 255

Protos == {"hdlc", "fffe"}

StartMark(proto) == IF proto = "hdlc" THEN <<124>> ELSE <<255, 254>>
EndMark(proto)   == IF proto = "hdlc" THEN <<126>> ELSE <<255, 253>>

\* sizeof the head and the end.
MinLen(proto) == IF proto = "hdlc" THEN 8 ELSE 14

\* The bytes in front of the end marker are checked, those of the end are not.
Interior(s, mark) == SubSeq(s, Len(mark) + 1, Len(s) - Len(mark))
---------------------------------------------------------------------------
(***************************************************************************)
(* Hdlc7c7eFrame: lengths and the sum are uint8_t, and so are the lengths  *)
(* that Hdlc7c7eFrame_code and _uncode return.                             *)
(***************************************************************************)
ESCAPE == 125

HdlcSum(s) ==
    LET sum[i \in 0 .. Len(s)] == IF i = 0 THEN 0 ELSE (sum[i - 1] + s[i]) % 256
    IN  sum[Len(s)]

HdlcFrame(src, msg) ==
    LET len  == (Len(msg.body) + 6) % 256
        body == <<src, msg.dst, len, msg.id, msg.type>> \o msg.body
    IN  <<124>> \o body \o <<HdlcSum(SubSeq(body, 1, len - 1)), 126>>

HdlcCodeByte(b) == IF b \in {124, ESCAPE, 126} THEN <<ESCAPE, b - 32>> ELSE <<b>>

HdlcEscape(s) ==
    LET out[i \in 0 .. Len(s)] == IF i = 0 THEN <<>> ELSE out[i - 1] \o HdlcCodeByte(s[i])
    IN  out[Len(s)]

HdlcCode(s) == <<124>> \o HdlcEscape(Interior(s, <<124>>)) \o <<126>>

\* What is handed to write.
HdlcWritten(src, msg) ==
    LET coded == HdlcCode(HdlcFrame(src, msg)) IN SubSeq(coded, 1, Len(coded) % 256)

HdlcUncodeByte(c, b) ==
    IF c.esc THEN [out |-> Append(c.out, 112 + (b % 16)), esc |-> FALSE]
    ELSE IF b = ESCAPE THEN [c EXCEPT !.esc = TRUE]
    ELSE [c EXCEPT !.out = Append(@, b)]

HdlcUnescape(s) ==
    LET c[i \in 0 .. Len(s)] ==
          IF i = 0 THEN [out |-> <<>>, esc |-> FALSE] ELSE HdlcUncodeByte(c[i - 1], s[i])
    IN  c[Len(s)].out

HdlcUncode(s) ==
    LET u == <<s[1]>> \o HdlcUnescape(Tail(s)) IN SubSeq(u, 1, Len(u) % 256)

\* Mutant: the sum is not looked at.
HdlcAcceptsLength(u, addr) == u[4] = Len(u) - 2 /\ u[3] = addr

HdlcAccepts(u, addr) ==
    /\ u[4] = Len(u) - 2
    /\ u[Len(u) - 1] = HdlcSum(SubSeq(u, 2, u[4]))
    /\ u[3] = addr

HdlcMessage(u) ==
    [dst |-> u[3], type |-> u[6], id |-> u[5], body |-> SubSeq(u, 7, Len(u) - 2)]
---------------------------------------------------------------------------
(***************************************************************************)
(* fffeFrame: little-endian words and a CRC of 32 bits, four bytes here.   *)
(***************************************************************************)
XorBit(a, b, w) == IF (a \div w) % 2 = (b \div w) % 2 THEN 0 ELSE w

XorOf == [a \in Byte |-> [b \in Byte |->
    XorBit(a, b, 1) + XorBit(a, b, 2) + XorBit(a, b, 4) + XorBit(a, b, 8)
    + XorBit(a, b, 16) + XorBit(a, b, 32) + XorBit(a, b, 64) + XorBit(a, b, 128)]]

XorWord(v, w) ==
    <<XorOf[v[1]][w[1]], XorOf[v[2]][w[2]], XorOf[v[3]][w[3]], XorOf[v[4]][w[4]]>>

\* Shifted by one bit; the most significant byte comes first.
CrcTwice(c) ==
    LET up(i) == ((c[i] * 2) % 256) + (c[i + 1] \div 128)
    IN  <<up(1), up(2), up(3), (c[4] * 2) % 256>>

\* The table, by the program that the comment above it gives.
CrcShift(c) ==
    IF c[1] >= 128 THEN XorWord(CrcTwice(c), <<4, 193, 29, 183>>) ELSE CrcTwice(c)

Crc32Table ==
    LET S(c) == CrcShift(CrcShift(c)) IN
    [i \in Byte |-> S(S(S(S(<<i, 0, 0, 0>>))))]

CrcByte(crc, b) ==
    XorWord(<<crc[2], crc[3], crc[4], 0>>, Crc32Table[XorOf[crc[1]][b]])

XCrc32(s) ==
    LET crc[i \in 0 .. Len(s)] ==
          IF i = 0 THEN <<255, 255, 255, 255>> ELSE CrcByte(crc[i - 1], s[i])
    IN  crc[Len(s)]

\* The check as it lies in the frame.
FffeCheck(s) == LET crc == XCrc32(s) IN <<crc[4], crc[3], crc[2], crc[1]>>

Le16(n) == <<n % 256, n \div 256>>
OfLe16(lo, hi) == lo + 256 * hi

FffeFrame(msg) ==
    LET body == Le16(Len(msg.body) + 10) \o Le16(msg.type) \o Le16(msg.id) \o msg.body
    IN  <<255, 254>> \o body \o FffeCheck(body) \o <<255, 253>>

(***************************************************************************)
(* Every 0xff takes a byte that says what it is: 0 for one that stands     *)
(* alone, or the distance of the next one, which is left out.  open is the *)
(* place in out of the last one that may still get a partner, or 0.        *)
(***************************************************************************)
FffeCodeByte(c, b) ==
    LET here == Len(c.out) + 1
        gap  == here - c.open - 1
    IN  IF b # 255 THEN [c EXCEPT !.out = Append(@, b)]
        ELSE IF c.open = 0 \/ gap > MaxPair
             THEN [out |-> c.out \o <<255, 0>>, open |-> here]
             ELSE [out |-> [c.out EXCEPT ![c.open + 1] = gap], open |-> 0]

FffePairUp(s) ==
    LET c[i \in 0 .. Len(s)] ==
          IF i = 0 THEN [out |-> <<255, 254>>, open |-> 0] ELSE FffeCodeByte(c[i - 1], s[i])
    IN  c[Len(s)].out

FffeCode(s) == FffePairUp(Interior(s, <<255, 254>>)) \o <<255, 253>>

(***************************************************************************)
(* Back again.  due is the number of bytes to the second 0xff of a pair, 0 *)
(* outside of one, and -1 where the next byte says what the 0xff before it *)
(* is: a distance that cannot be is taken for 1.  left bytes follow b.     *)
(***************************************************************************)
FffeUncodeByte(c, b, left) ==
    IF c.due = 0
    THEN [out |-> Append(c.out, b), due |-> IF b = 255 /\ left >= 2 THEN -1 ELSE 0]
    ELSE LET gap == IF b > MaxPair \/ b > left THEN 1 ELSE b
             due == IF c.due = -1 THEN gap - 1 ELSE c.due - 1
             got == IF c.due = -1 THEN c.out ELSE Append(c.out, b)
         IN  IF c.due = -1 /\ b = 0 THEN [c EXCEPT !.due = 0]
             ELSE [out |-> IF due = 0 THEN Append(got, 255) ELSE got, due |-> due]

FffeUncode(s) ==
    LET n == Len(s) - 2
        c[i \in 0 .. n] ==
          IF i = 0 THEN [out |-> SubSeq(s, 1, 2), due |-> 0]
          ELSE FffeUncodeByte(c[i - 1], s[i + 2], n - i)
    IN  c[n].out

FffeAccepts(u) ==
    LET n == Len(u) IN
    /\ OfLe16(u[3], u[4]) = n - 4
    /\ SubSeq(u, n - 5, n - 2) = FffeCheck(SubSeq(u, 3, n - 6))

FffeMessage(u, addr) ==
    [dst |-> addr, type |-> OfLe16(u[5], u[6]), id |-> OfLe16(u[7], u[8]),
     body |-> SubSeq(u, 9, Len(u) - 6)]
---------------------------------------------------------------------------
Written(proto, src, msg) ==
    IF proto = "hdlc" THEN HdlcWritten(src, msg) ELSE FffeCode(FffeFrame(msg))

\* Whether a frame, from its first marker to its last, is one that is passed on.
Accepts(proto, s, addr) ==
    /\ Len(s) >= MinLen(proto)
    /\ IF proto = "hdlc" THEN HdlcAccepts(HdlcUncode(s), addr) ELSE FffeAccepts(FffeUncode(s))

\* The message rx_indicate is called with.
Message(proto, s, addr) ==
    IF proto = "hdlc" THEN HdlcMessage(HdlcUncode(s)) ELSE FffeMessage(FffeUncode(s), addr)
===========================================================================
