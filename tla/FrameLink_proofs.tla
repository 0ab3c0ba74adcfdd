------------------------- MODULE FrameLink_proofs --------------------------
(***************************************************************************)
(* Theorems of FrameLink, from what FrameCodec_proofs shows of the codes.  *)
(***************************************************************************)
EXTENDS FrameLink, FrameCodec_proofs

LEMMA MaxOf ==
    ASSUME NEW n \in Nat, NEW S, S \subseteq 1 .. n, S # {}
    PROVE  Max(S) \in S /\ \A k \in S : k <= Max(S)
<1> DEFINE T == {k \in 0 .. n : n - k \in S}
<1>1. T \subseteq Nat /\ T # {}
  <2>0. T \subseteq Nat  OBVIOUS
  <2>1. PICK k \in S : TRUE  OBVIOUS
  <2>2. k \in 1 .. n  BY <2>1
  <2>3. n - k \in 0 .. n /\ n - (n - k) = k  BY <2>2
  <2>4. n - k \in T  BY <2>3
  <2> HIDE DEF T
  <2> QED  BY <2>0, <2>4
<1>2. PICK m \in T : \A y \in T : m <= y  BY <1>1, Least
<1>3. n - m \in S  OBVIOUS
<1>4. ASSUME NEW k \in S  PROVE n - m >= k
  <2>1. k \in 1 .. n  OBVIOUS
  <2>2. n - k \in 0 .. n /\ n - (n - k) = k  BY <2>1
  <2>3. n - k \in T  BY <2>2
  <2>4. m <= n - k /\ m \in 0 .. n  BY <1>2, <2>3
  <2> QED  BY <2>1, <2>4
<1> DEFINE P(x) == x \in S /\ \A y \in S : x >= y
<1>5. P(n - m)  BY <1>3, <1>4
<1>6. Max(S) = CHOOSE x : P(x)  BY DEF Max
<1>7. P(Max(S))  BY <1>5, <1>6
<1>8. \A k \in S : k \in Int  OBVIOUS
<1> HIDE DEF T
<1> QED  BY <1>7, <1>8

LEMMA MinOf ==
    ASSUME NEW a \in Nat, NEW b \in Nat
    PROVE  Min({a, b}) \in Nat /\ Min({a, b}) <= a /\ Min({a, b}) <= b
<1> DEFINE P(x) == x \in {a, b} /\ \A y \in {a, b} : x <= y
<1>1. P(a) \/ P(b)  OBVIOUS
<1>2. Min({a, b}) = CHOOSE x : P(x)  BY DEF Min
<1>3. P(Min({a, b}))  BY <1>1, <1>2
<1> QED  BY <1>3

\* A suffix of a sequence, and of a sequence in two parts.
LEMMA SuffixIs ==
    ASSUME NEW X, NEW s \in Seq(X), NEW q \in 1 .. Len(s) + 1
    PROVE  LET t == SubSeq(s, q, Len(s)) IN
           /\ t \in Seq(X) /\ Len(t) = Len(s) - q + 1
           /\ \A k \in 1 .. Len(t) : t[k] = s[k + q - 1] /\ k + q - 1 \in 1 .. Len(s)
<1> DEFINE t == SubSeq(s, q, Len(s))
<1>1. Len(s) \in Nat /\ t \in Seq(X) /\ Len(t) = Len(s) - q + 1  OBVIOUS
<1>2. \A k \in 1 .. Len(s) - q + 1 : t[k] = s[q + k - 1]  OBVIOUS
<1> HIDE DEF t
<1> QED  BY <1>1, <1>2 DEF t
---------------------------------------------------------------------------
(***************************************************************************)
(* What a call writes.                                                     *)
(***************************************************************************)
RangeOf(p) == IF p = "hdlc" THEN 256 ELSE 65536

MessagesOf(p) ==
    [dst : IF p = "hdlc" THEN {Addr, OtherAddr} ELSE {Addr},
     type : 0 .. RangeOf(p) - 1, id : 0 .. RangeOf(p) - 1, body : Bodies]

LEMMA Fields ==
    ASSUME NEW A, NEW B, NEW C, NEW D, NEW m \in [dst : A, type : B, id : C, body : D]
    PROVE  /\ m = [dst |-> m.dst, type |-> m.type, id |-> m.id, body |-> m.body]
           /\ m.dst \in A /\ m.type \in B /\ m.id \in C /\ m.body \in D
OBVIOUS

LEMMA HdlcMessages ==
    MessagesOf("hdlc") \subseteq HdlcMsg
<1>1. \A b \in Bodies : b \in Seq(Byte)  BY FrameLinkAssumption
<1>2. Addr \in Byte /\ OtherAddr \in Byte  BY FrameLinkAssumption
<1> DEFINE r == RangeOf("hdlc")
<1>3. MessagesOf("hdlc") = [dst : {Addr, OtherAddr}, type : 0 .. r - 1, id : 0 .. r - 1, body : Bodies]
  BY DEF MessagesOf
<1>4. r = 256  BY DEF RangeOf
<1> HIDE DEF r
<1> SUFFICES ASSUME NEW m \in MessagesOf("hdlc")  PROVE m \in HdlcMsg
  OBVIOUS
<1>5. /\ m = [dst |-> m.dst, type |-> m.type, id |-> m.id, body |-> m.body]
      /\ m.dst \in {Addr, OtherAddr} /\ m.type \in 0 .. r - 1 /\ m.id \in 0 .. r - 1 /\ m.body \in Bodies
  <2>1. m \in [dst : {Addr, OtherAddr}, type : 0 .. r - 1, id : 0 .. r - 1, body : Bodies]  BY <1>3
  <2> QED  BY <2>1, Fields
<1>6. m.dst \in Byte /\ m.type \in Byte /\ m.id \in Byte /\ m.body \in Seq(Byte)
  <2> DEFINE t == m.type
             i == m.id
  <2>1. t \in 0 .. r - 1 /\ i \in 0 .. r - 1  BY <1>5
  <2> HIDE DEF t, i
  <2>2. t \in Byte /\ i \in Byte  BY <1>4, <2>1 DEF Byte
  <2>3. m.dst \in Byte /\ m.body \in Seq(Byte)  BY <1>1, <1>2, <1>5
  <2> QED  BY <2>2, <2>3 DEF t, i
<1> QED  BY <1>5, <1>6 DEF HdlcMsg

LEMMA FffeMessages ==
    MessagesOf("fffe") \subseteq FffeMsg /\ \A m \in MessagesOf("fffe") : m.dst = Addr
<1>1. \A b \in Bodies : b \in Seq(Byte) /\ Len(b) \in Nat /\ 2 * Len(b) + 28 < 65536
  BY FrameLinkAssumption
<1>2. Addr \in Byte  BY FrameLinkAssumption
<1> DEFINE r == RangeOf("fffe")
<1>3. MessagesOf("fffe") = [dst : {Addr}, type : 0 .. r - 1, id : 0 .. r - 1, body : Bodies]
  BY DEF MessagesOf
<1>4. r \in Nat /\ r <= 65536  BY DEF RangeOf
<1> HIDE DEF r
<1>5. ASSUME NEW m \in MessagesOf("fffe")  PROVE m \in FffeMsg /\ m.dst = Addr
  <2>1. /\ m = [dst |-> m.dst, type |-> m.type, id |-> m.id, body |-> m.body]
        /\ m.dst \in {Addr} /\ m.type \in 0 .. r - 1 /\ m.id \in 0 .. r - 1 /\ m.body \in Bodies
    <3>1. m \in [dst : {Addr}, type : 0 .. r - 1, id : 0 .. r - 1, body : Bodies]  BY <1>3
    <3> QED  BY <3>1, Fields
  <2>2. m.type \in Nat /\ m.type <= 65535 /\ m.id \in Nat /\ m.id <= 65535
    <3> DEFINE t == m.type
               i == m.id
    <3>1. t \in 0 .. r - 1 /\ i \in 0 .. r - 1  BY <2>1
    <3> HIDE DEF t, i
    <3>2. t \in Nat /\ t <= 65535 /\ i \in Nat /\ i <= 65535  BY <1>4, <3>1
    <3> QED  BY <3>2 DEF t, i
  <2>3. m.dst = Addr /\ m.dst \in Byte /\ m.body \in Seq(Byte)  BY <1>1, <1>2, <2>1
  <2>4. m \in [dst : Byte, type : Nat, id : Nat, body : Seq(Byte)]  BY <2>1, <2>2, <2>3
  <2>5. Len(m.body) + 10 <= 65535
    <3> DEFINE l == Len(m.body)
    <3>1. l \in Nat /\ 2 * l + 28 < 65536  BY <1>1, <2>1
    <3> HIDE DEF l
    <3>2. l + 10 <= 65535  BY <3>1
    <3> QED  BY <3>2 DEF l
  <2> QED  BY <2>2, <2>3, <2>4, <2>5 DEF FffeMsg
<1> QED  BY <1>5

\* hdlc lengths are one byte: a frame that does not fit is cut off.
Whole(p, msg) == p = "hdlc" => Written(p, OtherAddr, msg) = HdlcCode(HdlcFrame(OtherAddr, msg))

LEMMA HdlcWrote ==
    ASSUME NEW msg \in MessagesOf("hdlc")
    PROVE  LET w == Written("hdlc", OtherAddr, msg) IN
           /\ w \in Seq(Byte) /\ Len(w) \in Nat
           /\ \A k \in 1 .. Len(w) : /\ w[k] = 124 <=> k = 1
                                     /\ w[k] = 126 => k = Len(w) /\ Whole("hdlc", msg)
           /\ Whole("hdlc", msg) => 8 <= Len(w) /\ w[Len(w)] = 126
           /\ Whole("hdlc", msg) => (Accepts("hdlc", w, Addr) <=> msg.dst = Addr)
           /\ Whole("hdlc", msg) => Message("hdlc", w, Addr) = msg
<1> DEFINE w == HdlcWritten(OtherAddr, msg)
<1>1. msg \in HdlcMsg /\ OtherAddr \in Byte  BY HdlcMessages, FrameLinkAssumption
<1>2. Written("hdlc", OtherAddr, msg) = w  BY DEF Written
<1>3. Whole("hdlc", msg) <=> w = HdlcCode(HdlcFrame(OtherAddr, msg))  BY <1>2 DEF Whole
<1>4. /\ w \in Seq(Byte)
      /\ w # <<>> => w[1] = 124
      /\ \A k \in 2 .. Len(w) : w[k] # 124
      /\ \A k \in 1 .. Len(w) : w[k] = 126 => k = Len(w) /\ Whole("hdlc", msg)
      /\ Whole("hdlc", msg) => 8 <= Len(w) /\ w[Len(w)] = 126
  BY <1>1, <1>3, HdlcWrittenShape
<1>5. ASSUME Whole("hdlc", msg)
      PROVE  (Accepts("hdlc", w, Addr) <=> msg.dst = Addr) /\ Message("hdlc", w, Addr) = msg
  BY <1>1, <1>3, <1>5, HdlcRoundTrip
<1> HIDE DEF w
<1>6. Len(w) \in Nat  BY <1>4
<1>7. ASSUME NEW k \in 1 .. Len(w)  PROVE w[k] = 124 <=> k = 1
  <2>1. w # <<>>
    <3>1. Len(w) >= 1  BY <1>6, <1>7
    <3> QED  BY <3>1
  <2>2. CASE k = 1  BY <1>4, <2>1, <2>2
  <2>3. CASE k \in 2 .. Len(w)  BY <1>4, <2>3
  <2> QED  BY <1>6, <1>7, <2>2, <2>3
<1> QED  BY <1>2, <1>4, <1>5, <1>6, <1>7

LEMMA FffeWrote ==
    ASSUME NEW msg \in MessagesOf("fffe")
    PROVE  LET w == Written("fffe", OtherAddr, msg) n == Len(w) IN
           /\ w \in Seq(Byte) /\ n \in Nat /\ 14 <= n
           /\ w[1] = 255 /\ w[2] = 254 /\ w[n - 1] = 255 /\ w[n] = 253
           /\ \A k \in 1 .. n - 1 : /\ w[k] = 255 /\ w[k + 1] = 254 => k = 1
                                    /\ w[k] = 255 /\ w[k + 1] = 253 => k = n - 1
           /\ msg.dst = Addr /\ Accepts("fffe", w, Addr) /\ Message("fffe", w, Addr) = msg
<1> DEFINE w == FffeCode(FffeFrame(msg))
<1>1. msg \in FffeMsg /\ msg.dst = Addr  BY FffeMessages
<1>2. Written("fffe", OtherAddr, msg) = w  BY DEF Written
<1>3. /\ w \in Seq(Byte) /\ Len(w) \in Nat /\ Len(w) >= Len(msg.body) + 14
      /\ w[1] = 255 /\ w[2] = 254 /\ w[Len(w) - 1] = 255 /\ w[Len(w)] = 253
      /\ \A k \in 1 .. Len(w) - 1 : /\ w[k] = 255 /\ w[k + 1] = 254 => k = 1
                                    /\ w[k] = 255 /\ w[k + 1] = 253 => k = Len(w) - 1
  BY <1>1, FffeWrittenShape
<1>4. Accepts("fffe", w, Addr) /\ Message("fffe", w, Addr) = msg
  BY <1>1, FffeRoundTrip
<1>5. Len(msg.body) \in Nat  BY <1>1, FffeMsgParts
<1> HIDE DEF w
<1>6. 14 <= Len(w)  BY <1>3, <1>5
<1> QED  BY <1>1, <1>2, <1>3, <1>4, <1>6
---------------------------------------------------------------------------
(***************************************************************************)
(* Bytes on their way: what is known of the ones that noise has left       *)
(* alone, whatever it did to the others.                                   *)
(***************************************************************************)
CallsOf(p) == Seq([msg : MessagesOf(p), ok : BOOLEAN, hit : BOOLEAN])

SentOf(calls) == [byte : Byte, call : DOMAIN calls, pos : Nat \ {0}]

Wrote(p, calls, c) == Written(p, OtherAddr, calls[c].msg)

\* A byte of an unhit call is the one that call wrote there; the last one is
\* written only by a call that succeeds.
Tagged(p, calls, x) ==
    ~calls[x.call].hit =>
      /\ x.pos <= Len(Wrote(p, calls, x.call)) /\ x.byte = Wrote(p, calls, x.call)[x.pos]
      /\ x.pos = Len(Wrote(p, calls, x.call)) => calls[x.call].ok

\* x comes d bytes before y: calls stay in order, and an unhit one in one piece.
Before(calls, x, y, d) ==
    /\ x.call <= y.call
    /\ ~calls[y.call].hit /\ d < y.pos => x.call = y.call /\ x.pos = y.pos - d
    /\ ~calls[y.call].hit /\ ~ (d < y.pos) => x.call < y.call

Tidy(p, calls, s) ==
    /\ p \in Protos /\ calls \in CallsOf(p) /\ s \in Seq(SentOf(calls))
    /\ \A k \in 1 .. Len(s) : Tagged(p, calls, s[k])
    /\ \A k, l \in 1 .. Len(s) : k < l => Before(calls, s[k], s[l], l - k)

\* fffeFrame's markers are two bytes: there, no call may be hit.
Clean(p, calls) == p = "fffe" => \A c \in DOMAIN calls : ~calls[c].hit

LEMMA TidyParts ==
    ASSUME NEW p, NEW calls, NEW s, Tidy(p, calls, s), NEW k \in 1 .. Len(s)
    PROVE  /\ Len(s) \in Nat /\ s[k].byte \in Byte /\ s[k].call \in DOMAIN calls /\ s[k].call \in Nat
           /\ s[k].pos \in Nat /\ s[k].pos >= 1
           /\ calls[s[k].call].msg \in MessagesOf(p) /\ calls[s[k].call].ok \in BOOLEAN
           /\ calls[s[k].call].hit \in BOOLEAN
<1>1. s \in Seq(SentOf(calls)) /\ calls \in CallsOf(p)  BY DEF Tidy
<1>2. s[k] \in SentOf(calls) /\ Len(s) \in Nat  BY <1>1
<1>3. s[k].byte \in Byte /\ s[k].call \in DOMAIN calls /\ s[k].pos \in Nat \ {0}
  BY <1>2 DEF SentOf
<1>4. calls[s[k].call] \in [msg : MessagesOf(p), ok : BOOLEAN, hit : BOOLEAN]
  <2> DEFINE R == [msg : MessagesOf(p), ok : BOOLEAN, hit : BOOLEAN]
  <2>1. calls \in Seq(R)  BY <1>1 DEF CallsOf
  <2> HIDE DEF R
  <2>2. calls[s[k].call] \in R  BY <1>3, <2>1
  <2> QED  BY <2>2 DEF R
<1>5. s[k].call \in Nat  BY <1>1, <1>3 DEF CallsOf
<1>6. calls[s[k].call].msg \in MessagesOf(p) /\ calls[s[k].call].ok \in BOOLEAN /\ calls[s[k].call].hit \in BOOLEAN
  BY <1>4
<1>7. s[k].pos \in Nat /\ s[k].pos >= 1
  <2> DEFINE n == s[k].pos
  <2>1. n \in Nat /\ n # 0  BY <1>3
  <2> HIDE DEF n
  <2>2. n >= 1  BY <2>1
  <2> QED  BY <2>1, <2>2 DEF n
<1> QED  BY <1>2, <1>3, <1>5, <1>6, <1>7

LEMMA TidySuffix ==
    ASSUME NEW p, NEW calls, NEW s, Tidy(p, calls, s), NEW q \in 1 .. Len(s) + 1
    PROVE  Tidy(p, calls, SubSeq(s, q, Len(s)))
<1> DEFINE t == SubSeq(s, q, Len(s))
<1>1. /\ p \in Protos /\ calls \in CallsOf(p) /\ s \in Seq(SentOf(calls))
      /\ \A k \in 1 .. Len(s) : Tagged(p, calls, s[k])
      /\ \A k, l \in 1 .. Len(s) : k < l => Before(calls, s[k], s[l], l - k)
  BY DEF Tidy
<1>2. /\ t \in Seq(SentOf(calls)) /\ Len(t) = Len(s) - q + 1
      /\ \A k \in 1 .. Len(t) : t[k] = s[k + q - 1] /\ k + q - 1 \in 1 .. Len(s)
  BY <1>1, SuffixIs
<1> HIDE DEF t
<1>3. \A k \in 1 .. Len(t) : Tagged(p, calls, t[k])  BY <1>1, <1>2
<1>4. ASSUME NEW k \in 1 .. Len(t), NEW l \in 1 .. Len(t), k < l
      PROVE  Before(calls, t[k], t[l], l - k)
  <2> DEFINE i == k + q - 1
             j == l + q - 1
  <2>1. i \in 1 .. Len(s) /\ j \in 1 .. Len(s) /\ t[k] = s[i] /\ t[l] = s[j]  BY <1>2
  <2>2. i < j /\ j - i = l - k  BY <1>2, <1>4
  <2> HIDE DEF i, j
  <2>3. Before(calls, s[i], s[j], j - i)  BY <1>1, <2>1, <2>2
  <2> QED  BY <2>1, <2>2, <2>3
<1>5. Tidy(p, calls, t)  BY <1>1, <1>2, <1>3, <1>4 DEF Tidy
<1> QED  BY <1>5 DEF t

\* The bytes of the call that are before a byte of it.
LEMMA SameCall ==
    ASSUME NEW p, NEW calls, NEW s, Tidy(p, calls, s), NEW l \in 1 .. Len(s),
           ~calls[s[l].call].hit, NEW k \in 1 .. l, l - k < s[l].pos
    PROVE  /\ s[k].call = s[l].call /\ s[k].pos = s[l].pos - (l - k)
           /\ s[k].pos <= Len(Wrote(p, calls, s[l].call))
           /\ s[k].byte = Wrote(p, calls, s[l].call)[s[k].pos]
<1>1. k \in 1 .. Len(s) /\ Len(s) \in Nat /\ s[l].pos \in Nat  BY TidyParts
<1>2. s[k].call = s[l].call /\ s[k].pos = s[l].pos - (l - k)
  <2>1. CASE k = l  BY <1>1, <2>1
  <2>2. CASE k < l
    <3>1. Before(calls, s[k], s[l], l - k)  BY <1>1, <2>2 DEF Tidy
    <3> QED  BY <3>1 DEF Before
  <2> QED  BY <1>1, <2>1, <2>2
<1>3. Tagged(p, calls, s[k])  BY <1>1 DEF Tidy
<1> QED  BY <1>2, <1>3 DEF Tagged

\* What comes before the first byte of the call.
LEMMA OtherCall ==
    ASSUME NEW p, NEW calls, NEW s, Tidy(p, calls, s), NEW l \in 1 .. Len(s),
           ~calls[s[l].call].hit, NEW k \in 1 .. l, l - k >= s[l].pos
    PROVE  s[k].call < s[l].call
<1>1. k \in 1 .. Len(s) /\ s[l].pos \in Nat /\ s[l].pos >= 1 /\ Len(s) \in Nat  BY TidyParts
<1>2. k < l /\ ~ (l - k < s[l].pos)  BY <1>1
<1>3. Before(calls, s[k], s[l], l - k)  BY <1>1, <1>2 DEF Tidy
<1> QED  BY <1>2, <1>3 DEF Before
---------------------------------------------------------------------------
(***************************************************************************)
(* Markers among the bytes on their way.                                   *)
(***************************************************************************)
MarkLen(p) == IF p = "hdlc" THEN 1 ELSE 2

LEMMA HdlcMarks ==
    ASSUME NEW X, NEW s \in Seq(X)
    PROVE  /\ At(s, StartMark("hdlc")) = {n \in 1 .. Len(s) : s[n].byte = 124}
           /\ At(s, EndMark("hdlc")) = {n \in 1 .. Len(s) : s[n].byte = 126}
<1>1. \A b \in {124, 126} : At(s, <<b>>) = {n \in 1 .. Len(s) : s[n].byte = b}
  <2> TAKE b \in {124, 126}
  <2> DEFINE m == <<b>>
  <2>1. Len(m) = 1 /\ DOMAIN m = {1} /\ m[1] = b  OBVIOUS
  <2>2. DOMAIN s = 1 .. Len(s) /\ Len(s) \in Nat  OBVIOUS
  <2> HIDE DEF m
  <2>3. \A n \in 1 .. Len(s) : n \in At(s, m) <=> s[n].byte = b  BY <2>1, <2>2 DEF At
  <2>4. At(s, m) \subseteq 1 .. Len(s)  BY <2>2 DEF At
  <2>5. At(s, m) = {n \in 1 .. Len(s) : s[n].byte = b}  BY <2>3, <2>4
  <2> QED  BY <2>5 DEF m
<1> QED  BY <1>1 DEF StartMark, EndMark

LEMMA FffeMarks ==
    ASSUME NEW X, NEW s \in Seq(X)
    PROVE  /\ At(s, StartMark("fffe"))
                = {n \in 1 .. Len(s) - 1 : s[n].byte = 255 /\ s[n + 1].byte = 254}
           /\ At(s, EndMark("fffe"))
                = {n \in 1 .. Len(s) - 1 : s[n].byte = 255 /\ s[n + 1].byte = 253}
<1>1. \A b \in {253, 254} :
        At(s, <<255, b>>) = {n \in 1 .. Len(s) - 1 : s[n].byte = 255 /\ s[n + 1].byte = b}
  <2> TAKE b \in {253, 254}
  <2> DEFINE m == <<255, b>>
  <2>1. Len(m) = 2 /\ DOMAIN m = {1, 2} /\ m[1] = 255 /\ m[2] = b  OBVIOUS
  <2>2. DOMAIN s = 1 .. Len(s) /\ Len(s) \in Nat  OBVIOUS
  <2> HIDE DEF m
  <2>3. \A n \in 1 .. Len(s) - 1 : n \in At(s, m) <=> s[n].byte = 255 /\ s[n + 1].byte = b
    <3> TAKE n \in 1 .. Len(s) - 1
    <3>1. n \in 1 .. Len(s) /\ n + Len(m) - 1 <= Len(s) /\ n + 1 - 1 = n /\ n + 2 - 1 = n + 1
      BY <2>1, <2>2
    <3> QED  BY <2>1, <2>2, <3>1 DEF At
  <2>4. At(s, m) \subseteq 1 .. Len(s) - 1  BY <2>1, <2>2 DEF At
  <2>5. At(s, m) = {n \in 1 .. Len(s) - 1 : s[n].byte = 255 /\ s[n + 1].byte = b}  BY <2>3, <2>4
  <2> QED  BY <2>5 DEF m
<1> QED  BY <1>1 DEF StartMark, EndMark

LEMMA StartIs ==
    ASSUME NEW p, NEW calls, NEW s, Tidy(p, calls, s), Clean(p, calls),
           NEW n \in At(s, StartMark(p)), ~calls[s[n].call].hit
    PROVE  n \in 1 .. Len(s) /\ s[n].pos = 1 /\ (p = "fffe" => n + 1 <= Len(s))
<1>1. s \in Seq(SentOf(calls)) /\ p \in {"hdlc", "fffe"} /\ Len(s) \in Nat  BY DEF Tidy, Protos
<1>2. CASE p = "hdlc"
  <2>1. n \in 1 .. Len(s) /\ s[n].byte = 124  BY <1>1, <1>2, HdlcMarks
  <2> DEFINE w == Wrote(p, calls, s[n].call)
             k == s[n].pos
  <2>2. k <= Len(w) /\ s[n].byte = w[k]  BY <2>1 DEF Tidy, Tagged
  <2>3. k \in Nat /\ k >= 1 /\ calls[s[n].call].msg \in MessagesOf("hdlc")  BY <1>2, <2>1, TidyParts
  <2>4. Len(w) \in Nat /\ \A i \in 1 .. Len(w) : w[i] = 124 <=> i = 1
    BY <1>2, <2>3, HdlcWrote DEF Wrote
  <2> HIDE DEF w, k
  <2>5. k = 1  BY <2>1, <2>2, <2>3, <2>4
  <2> QED  BY <1>2, <2>1, <2>5 DEF k
<1>3. CASE p = "fffe"
  <2>1. n \in 1 .. Len(s) - 1 /\ s[n].byte = 255 /\ s[n + 1].byte = 254  BY <1>1, <1>3, FffeMarks
  <2>2. n + 1 \in 1 .. Len(s) /\ n \in 1 .. n + 1 /\ (n + 1) - n = 1 /\ n \in 1 .. Len(s)  BY <1>1, <2>1
  <2> DEFINE l == n + 1
             w == Wrote(p, calls, s[l].call)
             k == s[l].pos
  <2>3. ~calls[s[l].call].hit  BY <1>3, <2>2, TidyParts DEF Clean
  <2>4. k <= Len(w) /\ s[l].byte = w[k]  BY <2>2, <2>3 DEF Tidy, Tagged
  <2>5. k \in Nat /\ k >= 1 /\ calls[s[l].call].msg \in MessagesOf("fffe")  BY <1>3, <2>2, TidyParts
  <2>6. Len(w) \in Nat /\ w[1] = 255 /\ \A i \in 1 .. Len(w) - 1 : w[i] = 255 /\ w[i + 1] = 254 => i = 1
    BY <1>3, <2>5, FffeWrote DEF Wrote
  <2>7. k # 1  BY <2>1, <2>4, <2>6
  <2>8. s[n].pos = k - 1 /\ s[n].byte = w[k - 1]
    <3>1. (n + 1) - n < s[n + 1].pos
      <4> HIDE DEF w
      <4> QED  BY <2>2, <2>5, <2>7
    <3>2. s[n].pos = s[l].pos - ((n + 1) - n) /\ s[n].byte = w[s[n].pos]
      BY <2>2, <2>3, <3>1, SameCall
    <3> QED  BY <2>2, <3>2
  <2> HIDE DEF w, k, l
  <2>9. k - 1 = 1
    <3>1. k - 1 \in 1 .. Len(w) - 1 /\ (k - 1) + 1 = k  BY <2>4, <2>5, <2>6, <2>7
    <3>2. w[(k - 1) + 1] = 254  BY <2>1, <2>4, <3>1 DEF l
    <3> QED  BY <2>1, <2>6, <2>8, <3>1, <3>2, SMTT(30)
  <2> QED  BY <2>2, <2>8, <2>9
<1> QED  BY <1>1, <1>2, <1>3

LEMMA StartIn ==
    ASSUME NEW p, NEW calls, NEW s, Tidy(p, calls, s), Clean(p, calls),
           NEW n \in 1 .. Len(s), ~calls[s[n].call].hit, s[n].pos = 1,
           p = "fffe" => n + 1 <= Len(s) /\ s[n + 1].pos = 2
    PROVE  n \in At(s, StartMark(p))
<1>1. s \in Seq(SentOf(calls)) /\ p \in {"hdlc", "fffe"} /\ Len(s) \in Nat  BY DEF Tidy, Protos
<1>2. CASE p = "hdlc"
  <2> DEFINE w == Wrote(p, calls, s[n].call)
  <2>1. calls[s[n].call].msg \in MessagesOf("hdlc")  BY <1>2, TidyParts
  <2>2. 1 <= Len(w) /\ s[n].byte = w[1]  BY DEF Tidy, Tagged
  <2>3. Len(w) \in Nat /\ \A i \in 1 .. Len(w) : w[i] = 124 <=> i = 1
    BY <1>2, <2>1, HdlcWrote DEF Wrote
  <2> HIDE DEF w
  <2>4. s[n].byte = 124  BY <2>2, <2>3
  <2> QED  BY <1>1, <1>2, <2>4, HdlcMarks
<1>3. CASE p = "fffe"
  <2> DEFINE l == n + 1
             w == Wrote(p, calls, s[l].call)
  <2>1. l \in 1 .. Len(s) /\ n \in 1 .. l /\ l - n = 1 /\ n \in 1 .. Len(s) - 1 /\ s[l].pos = 2
    <3>1. n \in Nat /\ 1 <= n /\ Len(s) \in Nat  BY <1>1
    <3>2. l <= Len(s) /\ s[l].pos = 2  BY <1>3
    <3>3. l \in Nat /\ n < l /\ l - n = 1  BY <3>1
    <3> HIDE DEF l
    <3> QED  BY <3>1, <3>2, <3>3
  <2>2. ~calls[s[l].call].hit  BY <1>3, <2>1, TidyParts DEF Clean
  <2>3. calls[s[l].call].msg \in MessagesOf("fffe")  BY <1>3, <2>1, TidyParts
  <2>4. s[l].byte = w[2]  BY <2>1, <2>2 DEF Tidy, Tagged
  <2>5. s[n].byte = w[1]
    <3>1. l - n < s[l].pos  BY <2>1
    <3>2. s[n].byte = w[s[n].pos]  BY <2>1, <2>2, <3>1, SameCall
    <3> QED  BY <3>2
  <2>6. w[1] = 255 /\ w[2] = 254  BY <1>3, <2>3, FffeWrote DEF Wrote
  <2> HIDE DEF w
  <2>7. s[n].byte = 255 /\ s[n + 1].byte = 254  BY <2>4, <2>5, <2>6
  <2>8. At(s, StartMark("fffe")) = {i \in 1 .. Len(s) - 1 : s[i].byte = 255 /\ s[i + 1].byte = 254}
    BY <1>1, FffeMarks
  <2> HIDE DEF l
  <2>9. n \in At(s, StartMark("fffe"))  BY <2>1, <2>7, <2>8
  <2> QED  BY <1>3, <2>9
<1> QED  BY <1>1, <1>2, <1>3

\* The call whose end marker stands at e, which is e + MarkLen(p) - 1 at its last byte.
EndOf(p, calls, s, e) ==
    LET c == s[e].call l == e + MarkLen(p) - 1 IN
    /\ e \in 1 .. l /\ l \in 1 .. Len(s) /\ s[l].call = c /\ ~calls[c].hit
    /\ s[l].pos = Len(Wrote(p, calls, c)) /\ s[e].pos = s[l].pos - MarkLen(p) + 1
    /\ Whole(p, calls[c].msg) /\ calls[c].ok

LEMMA EndIs ==
    ASSUME NEW p, NEW calls, NEW s, Tidy(p, calls, s), Clean(p, calls),
           NEW e \in At(s, EndMark(p)), ~calls[s[e].call].hit
    PROVE  EndOf(p, calls, s, e)
<1>1. s \in Seq(SentOf(calls)) /\ p \in {"hdlc", "fffe"} /\ Len(s) \in Nat  BY DEF Tidy, Protos
<1> DEFINE c == s[e].call
<1>2. CASE p = "hdlc"
  <2>1. e \in 1 .. Len(s) /\ s[e].byte = 126  BY <1>1, <1>2, HdlcMarks
  <2> DEFINE w == Wrote(p, calls, c)
             k == s[e].pos
  <2>2. k <= Len(w) /\ s[e].byte = w[k] /\ (k = Len(w) => calls[c].ok)  BY <2>1 DEF Tidy, Tagged
  <2>3. k \in Nat /\ k >= 1 /\ calls[c].msg \in MessagesOf("hdlc")  BY <1>2, <2>1, TidyParts
  <2>4. Len(w) \in Nat /\ \A i \in 1 .. Len(w) : w[i] = 126 => i = Len(w) /\ Whole("hdlc", calls[c].msg)
    BY <1>2, <2>3, HdlcWrote DEF Wrote
  <2>5. MarkLen(p) = 1  BY <1>2 DEF MarkLen
  <2> HIDE DEF w, k, c
  <2>6. k = Len(w) /\ Whole(p, calls[c].msg) /\ calls[c].ok  BY <1>2, <2>1, <2>2, <2>3, <2>4
  <2>7. e + MarkLen(p) - 1 = e /\ k = k - MarkLen(p) + 1  BY <2>1, <2>3, <2>5
  <2> QED  BY <2>1, <2>6, <2>7 DEF EndOf, w, k, c
<1>3. CASE p = "fffe"
  <2>1. e \in 1 .. Len(s) - 1 /\ s[e].byte = 255 /\ s[e + 1].byte = 253  BY <1>1, <1>3, FffeMarks
  <2> DEFINE l == e + 1
             w == Wrote(p, calls, s[l].call)
             k == s[l].pos
  <2>2. l \in 1 .. Len(s) /\ e \in 1 .. l /\ l - e = 1  BY <1>1, <2>1
  <2>3. ~calls[s[l].call].hit  BY <1>3, <2>2, TidyParts DEF Clean
  <2>4. k <= Len(w) /\ s[l].byte = w[k] /\ (k = Len(w) => calls[s[l].call].ok)
    BY <2>2, <2>3 DEF Tidy, Tagged
  <2>5. k \in Nat /\ k >= 1 /\ calls[s[l].call].msg \in MessagesOf("fffe")  BY <1>3, <2>2, TidyParts
  <2>6. /\ Len(w) \in Nat /\ w[1] = 255
        /\ \A i \in 1 .. Len(w) - 1 : w[i] = 255 /\ w[i + 1] = 253 => i = Len(w) - 1
    BY <1>3, <2>5, FffeWrote DEF Wrote
  <2>7. k # 1  BY <2>1, <2>4, <2>6
  <2>8. s[e].pos = k - 1 /\ s[e].byte = w[k - 1] /\ s[e].call = s[l].call
    <3>1. l - e < s[l].pos
      <4> HIDE DEF w
      <4> QED  BY <2>2, <2>5, <2>7
    <3>0. s[l].pos = k  OBVIOUS
    <3> HIDE DEF l, c, k
    <3>2. /\ s[e].call = s[l].call /\ s[e].pos = s[l].pos - (l - e)
          /\ s[e].byte = w[s[e].pos]
      BY <2>2, <2>3, <3>1, SameCall, SMTT(30)
    <3> HIDE DEF w
    <3> QED  BY <2>2, <3>0, <3>2
  <2>9. Whole(p, calls[c].msg)  BY <1>3 DEF Whole
  <2>10. MarkLen(p) = 2  BY <1>3 DEF MarkLen
  <2>11. s[l].call = c /\ w = Wrote(p, calls, c)  BY <2>8
  <2> HIDE DEF w, k, c
  <2>12. k = Len(w) /\ calls[c].ok
    <3>1. k - 1 \in 1 .. Len(w) - 1 /\ (k - 1) + 1 = k  BY <2>4, <2>5, <2>6, <2>7
    <3>2. w[(k - 1) + 1] = 253  BY <2>1, <2>4, <3>1
    <3>3. k - 1 = Len(w) - 1  BY <2>1, <2>6, <2>8, <3>1, <3>2
    <3>4. k = Len(w)  BY <2>5, <2>6, <3>3
    <3> QED  BY <2>4, <2>11, <3>4
  <2>13. e + MarkLen(p) - 1 = l /\ k - MarkLen(p) + 1 = k - 1  BY <2>2, <2>5, <2>10
  <2> QED
    <3>1. s[e].call = c  BY DEF c
    <3>2. ~calls[c].hit  BY DEF c
    <3> HIDE DEF l
    <3>3. s[l].pos = Len(Wrote(p, calls, c))  BY <2>11, <2>12 DEF k
    <3>4. s[e].pos = s[l].pos - MarkLen(p) + 1  BY <2>8, <2>13 DEF k
    <3> QED  BY <2>2, <2>9, <2>11, <2>12, <2>13, <3>1, <3>2, <3>3, <3>4 DEF EndOf
<1> QED  BY <1>1, <1>2, <1>3

LEMMA EndIn ==
    ASSUME NEW p, NEW calls, NEW s, Tidy(p, calls, s), Clean(p, calls), NEW e, EndOf(p, calls, s, e)
    PROVE  e \in At(s, EndMark(p))
<1>1. s \in Seq(SentOf(calls)) /\ p \in {"hdlc", "fffe"} /\ Len(s) \in Nat  BY DEF Tidy, Protos
<1> DEFINE c == s[e].call
           l == e + MarkLen(p) - 1
           w == Wrote(p, calls, c)
<1>2. /\ e \in 1 .. l /\ l \in 1 .. Len(s) /\ s[l].call = c /\ ~calls[c].hit
      /\ s[l].pos = Len(w) /\ s[e].pos = s[l].pos - MarkLen(p) + 1 /\ Whole(p, calls[c].msg)
  BY DEF EndOf
<1>3. e \in 1 .. Len(s)  BY <1>1, <1>2
<1>4. s[l].byte = w[s[l].pos] /\ s[e].byte = w[s[e].pos]
  BY <1>2, <1>3 DEF Tidy, Tagged
<1>5. calls[c].msg \in MessagesOf(p)  BY <1>3, TidyParts
<1> HIDE DEF l, w, c
<1>6. CASE p = "hdlc"
  <2>1. l = e  BY <1>3, <1>6 DEF MarkLen, l
  <2>2. w[Len(w)] = 126  BY <1>2, <1>5, <1>6, HdlcWrote DEF Wrote, w
  <2>3. s[e].byte = 126  BY <1>2, <1>4, <2>1, <2>2
  <2> QED  BY <1>1, <1>3, <1>6, <2>3, HdlcMarks
<1>7. CASE p = "fffe"
  <2>1. l = e + 1 /\ e \in 1 .. Len(s) - 1 /\ MarkLen(p) = 2
    <3>1. MarkLen(p) = 2  BY <1>7 DEF MarkLen
    <3>2. l = e + 1  BY <1>3, <3>1 DEF l
    <3> QED  BY <1>1, <1>2, <1>3, <3>1, <3>2
  <2>2. Len(w) \in Nat /\ w[Len(w) - 1] = 255 /\ w[Len(w)] = 253  BY <1>5, <1>7, FffeWrote DEF Wrote, w
  <2>3. s[e].pos = Len(w) - 1  BY <1>2, <2>1, <2>2
  <2>4. s[e].byte = 255 /\ s[e + 1].byte = 253  BY <1>2, <1>4, <2>1, <2>2, <2>3
  <2>5. At(s, EndMark("fffe")) = {i \in 1 .. Len(s) - 1 : s[i].byte = 255 /\ s[i + 1].byte = 253}
    BY <1>1, FffeMarks
  <2>6. e \in At(s, EndMark("fffe"))  BY <2>1, <2>4, <2>5
  <2> QED  BY <1>7, <2>6
<1> QED  BY <1>1, <1>6, <1>7

LEMMA WroteIs ==
    ASSUME NEW p \in Protos, NEW msg \in MessagesOf(p)
    PROVE  LET w == Written(p, OtherAddr, msg) IN
           /\ w \in Seq(Byte) /\ Len(w) \in Nat
           /\ Whole(p, msg) => /\ MinLen(p) <= Len(w) /\ 8 <= Len(w)
                               /\ Accepts(p, w, Addr) <=> msg.dst = Addr
                               /\ Message(p, w, Addr) = msg
<1>1. CASE p = "hdlc"
  <2>1. MinLen(p) = 8  BY <1>1 DEF MinLen
  <2> QED  BY <1>1, <2>1, HdlcWrote
<1>2. CASE p = "fffe"
  <2>1. MinLen(p) = 14  BY <1>2 DEF MinLen
  <2>2. LET w == Written("fffe", OtherAddr, msg) IN
        /\ w \in Seq(Byte) /\ Len(w) \in Nat /\ 14 <= Len(w)
        /\ msg.dst = Addr /\ Accepts("fffe", w, Addr) /\ Message("fffe", w, Addr) = msg
    BY <1>2, FffeWrote
  <2> DEFINE w == Written("fffe", OtherAddr, msg)
  <2> HIDE DEF w
  <2>3. /\ w \in Seq(Byte) /\ Len(w) \in Nat /\ 14 <= Len(w)
        /\ msg.dst = Addr /\ Accepts("fffe", w, Addr) /\ Message("fffe", w, Addr) = msg
    BY <2>2 DEF w
  <2>4. 8 <= Len(w)  BY <2>3
  <2> QED  BY <1>2, <2>1, <2>3, <2>4 DEF w
<1> QED  BY <1>1, <1>2 DEF Protos

LEMMA MarkLens ==
    ASSUME NEW p \in Protos
    PROVE  /\ Len(StartMark(p)) = MarkLen(p) /\ Len(EndMark(p)) = MarkLen(p)
           /\ MarkLen(p) \in {1, 2} /\ (p = "fffe" <=> MarkLen(p) = 2)
BY DEF Protos, StartMark, EndMark, MarkLen

(***************************************************************************)
(* The frame that accept cuts out in front of the end marker of an unhit   *)
(* call is what that call wrote, and it wrote all of its frame.            *)
(***************************************************************************)
LEMMA FrameIs ==
    ASSUME NEW calls, NEW s, Tidy(proto, calls, s), Clean(proto, calls),
           NEW e \in Ends(s), ~calls[s[e].call].hit
    PROVE  EndOf(proto, calls, s, e) /\ FrameTo(s, e) = Wrote(proto, calls, s[e].call)
<1> DEFINE starts == At(s, StartMark(proto))
           ends == At(s, EndMark(proto))
           c == s[e].call
           w == Wrote(proto, calls, c)
           m == s[e].pos
           L == MarkLen(proto)
           l == e + L - 1
<1>1. proto \in Protos /\ s \in Seq(SentOf(calls)) /\ Len(s) \in Nat  BY DEF Tidy
<1>2. e \in ends  BY DEF Ends
<1>3. PICK b \in starts : b < e /\ \A n \in b + 1 .. e - 1 : n \notin starts \cup ends  BY DEF Ends
<1>4. EndOf(proto, calls, s, e)  BY <1>2, EndIs
<1>5. /\ e \in 1 .. l /\ l \in 1 .. Len(s) /\ s[l].call = c /\ ~calls[c].hit
      /\ s[l].pos = Len(w) /\ m = s[l].pos - L + 1 /\ Whole(proto, calls[c].msg)
  BY <1>4 DEF EndOf
<1>6. e \in 1 .. Len(s)  BY <1>1, <1>5
<1>7. w \in Seq(Byte) /\ Len(w) \in Nat /\ 8 <= Len(w)
  <2>1. calls[c].msg \in MessagesOf(proto)  BY <1>6, TidyParts
  <2> QED  BY <1>1, <1>5, <2>1, WroteIs DEF Wrote
<1>8. L \in {1, 2} /\ Len(EndMark(proto)) = L /\ (proto = "fffe" <=> L = 2)  BY <1>1, MarkLens
<1>9. \A n \in starts : n \in 1 .. Len(s)
  <2>1. DOMAIN s = 1 .. Len(s)  BY <1>1
  <2> QED  BY <2>1 DEF At
<1>10. /\ b \in Nat /\ e \in Nat /\ 1 <= b /\ b < e /\ e <= Len(s)
       /\ b \in 1 .. e /\ b \in 1 .. Len(s)
  BY <1>1, <1>3, <1>6, <1>9
<1> HIDE DEF starts, ends, w, L
<1>11. m \in Nat /\ m >= 2 /\ m = Len(w) - L + 1  BY <1>5, <1>7, <1>8
<1>12. e - b < m
  <2> HIDE DEF m
  <2> SUFFICES ASSUME e - b >= m  PROVE FALSE
    BY <1>10, <1>11
  <2> DEFINE f == e - m + 1
             g == f + 1
  <2>1. f \in b + 1 .. e - 1 /\ f \in 1 .. e /\ e - f = m - 1 /\ f \in 1 .. Len(s)
        /\ g \in 1 .. e /\ e - g = m - 2 /\ g <= Len(s) /\ g \in 1 .. Len(s)
    <3>1. e - b >= m  OBVIOUS
    <3>2. f \in Nat /\ b + 1 <= f /\ f <= e - 1 /\ e - f = m - 1  BY <1>10, <1>11, <3>1
    <3> HIDE DEF f
    <3>3. g \in Nat /\ g <= e /\ e - g = m - 2 /\ 1 <= g /\ 1 <= f  BY <1>10, <1>11, <3>2
    <3> HIDE DEF g
    <3> QED  BY <1>1, <1>10, <3>2, <3>3
  <2> HIDE DEF f, c
  <2>2. s[f].call = c /\ s[f].pos = 1
    <3>1. e - f < m  BY <1>11, <2>1
    <3>2. s[f].call = s[e].call /\ s[f].pos = s[e].pos - (e - f)
      BY <1>5, <1>6, <2>1, <3>1, SameCall DEF m, c
    <3>3. m - (e - f) = 1  BY <1>11, <2>1
    <3> QED  BY <3>2, <3>3 DEF m, c
  <2> HIDE DEF g
  <2>3. s[g].pos = 2
    <3>1. e - g < m  BY <1>11, <2>1
    <3>2. s[g].pos = s[e].pos - (e - g)
      BY <1>5, <1>6, <2>1, <3>1, SameCall DEF m, c
    <3>3. m - (e - g) = 2  BY <1>11, <2>1
    <3> QED  BY <3>2, <3>3 DEF m
  <2>4. ~calls[s[f].call].hit  BY <1>5, <2>2
  <2>5. f + 1 <= Len(s) /\ s[f + 1].pos = 2  BY <2>1, <2>3 DEF g
  <2>6. f \in starts  BY <2>1, <2>2, <2>4, <2>5, StartIn DEF starts
  <2> QED  BY <1>3, <2>1, <2>6
<1>13. s[b].call = c /\ s[b].pos = m - (e - b)
  BY <1>5, <1>6, <1>10, <1>12, SameCall
<1>14. b = e - m + 1
  <2>1. ~calls[s[b].call].hit  BY <1>5, <1>13
  <2>2. s[b].pos = 1  BY <1>3, <2>1, StartIs DEF starts
  <2>3. m - (e - b) = 1  BY <1>13, <2>2
  <2> HIDE DEF m
  <2> QED  BY <1>10, <1>11, <2>3
<1>15. Max({n \in starts : n < e}) = b
  <2> DEFINE S == {n \in starts : n < e}
             M == Max(S)
  <2>1. S \subseteq 1 .. Len(s) /\ S # {} /\ b \in S  BY <1>3, <1>9
  <2>2. M \in S /\ \A k \in S : k <= M  BY <1>1, <2>1, MaxOf
  <2>3. M \in starts /\ M < e /\ b <= M /\ M \in 1 .. Len(s)  BY <1>9, <2>1, <2>2
  <2> HIDE DEF M, S
  <2>4. ~ (M \in b + 1 .. e - 1)  BY <1>3, <2>3
  <2>5. M = b  BY <1>10, <2>3, <2>4
  <2> QED  BY <2>5 DEF M, S
<1>16. FrameTo(s, e) = [i \in 1 .. e + L - b |-> s[b + i - 1].byte]
  BY <1>8, <1>15 DEF FrameTo, starts
<1>17. e + L - b = Len(w)
  <2> HIDE DEF m, c
  <2>1. L \in Nat  BY <1>8
  <2> QED  BY <1>7, <1>10, <1>11, <1>14, <2>1
<1>18. ASSUME NEW i \in 1 .. Len(w)  PROVE s[b + i - 1].byte = w[i]
  <2> DEFINE j == b + i - 1
  <2> HIDE DEF m, c
  <2>1. j \in 1 .. l /\ l - j = Len(w) - i
    <3>1. L \in Nat  BY <1>8
    <3> QED  BY <1>7, <1>10, <1>17, <3>1
  <2> HIDE DEF j, l
  <2>2. l - j < s[l].pos /\ ~calls[s[l].call].hit /\ l \in 1 .. Len(s)  BY <1>5, <1>7, <2>1
  <2>3. s[j].pos = s[l].pos - (l - j)  BY <2>1, <2>2, SameCall, SMTT(30)
  <2>4. s[j].byte = Wrote(proto, calls, s[l].call)[s[j].pos]  BY <2>1, <2>2, SameCall, SMTT(30)
  <2>5. s[l].pos - (l - j) = i  BY <1>5, <1>7, <2>1
  <2>6. s[j].byte = w[i]  BY <1>5, <2>3, <2>4, <2>5 DEF w
  <2> QED  BY <2>6 DEF j
<1>19. w = [i \in 1 .. Len(w) |-> w[i]]  BY <1>7
<1>20. FrameTo(s, e) = w  BY <1>16, <1>17, <1>18, <1>19
<1> QED  BY <1>4, <1>20 DEF w
---------------------------------------------------------------------------
(***************************************************************************)
(* What rx_indicate is called with on the way through s: the frames that   *)
(* pass the checks, in the order of their ends.                            *)
(***************************************************************************)
Good(s) == {n \in Ends(s) : Accepts(proto, FrameTo(s, n), Addr)}

Entry(s, n) == [msg |-> Message(proto, FrameTo(s, n), Addr), call |-> s[n].call]

Picks(s, i, x, k, e) ==
    /\ k \in Nat /\ e \in [1 .. k -> Good(s)]
    /\ x = [j \in 1 .. k |-> Entry(s, e[j])]
    /\ \A j \in 1 .. k : e[j] <= i
    /\ \A h, j \in 1 .. k : h < j => e[h] < e[j]
    /\ \A g \in Good(s) : g <= i => \E j \in 1 .. k : e[j] = g

LEMMA GoodType ==
    ASSUME NEW X, NEW s \in Seq(X)
    PROVE  Good(s) \subseteq 1 .. Len(s) /\ Ends(s) \subseteq 1 .. Len(s)
<1>1. DOMAIN s = 1 .. Len(s)  OBVIOUS
<1>2. At(s, EndMark(proto)) \subseteq 1 .. Len(s)  BY <1>1 DEF At
<1> QED  BY <1>2 DEF Good, Ends

Another(e, k, i) == [j \in 1 .. k + 1 |-> IF j = k + 1 THEN i ELSE e[j]]

LEMMA PicksMore ==
    ASSUME NEW s, NEW i \in Nat, i # 0, NEW x, NEW k, NEW e, Picks(s, i - 1, x, k, e),
           Good(s) \subseteq Nat, i \in Good(s)
    PROVE  Picks(s, i, Append(x, Entry(s, i)), k + 1, Another(e, k, i))
<1> DEFINE d == Another(e, k, i)
           y == Append(x, Entry(s, i))
           G == Good(s)
<1>1. /\ k \in Nat /\ e \in [1 .. k -> G]
      /\ x = [j \in 1 .. k |-> Entry(s, e[j])]
      /\ \A j \in 1 .. k : e[j] <= i - 1
      /\ \A h, j \in 1 .. k : h < j => e[h] < e[j]
      /\ \A g \in G : g <= i - 1 => \E j \in 1 .. k : e[j] = g
  BY DEF Picks
<1> HIDE DEF G
<1>2. d \in [1 .. k + 1 -> G] /\ d[k + 1] = i /\ \A j \in 1 .. k : d[j] = e[j] /\ j # k + 1
  <2>1. i \in G /\ k + 1 \in 1 .. k + 1  BY <1>1 DEF G
  <2> QED  BY <1>1, <2>1 DEF Another
<1>3. \A j \in 1 .. k + 1 : j = k + 1 \/ j \in 1 .. k  BY <1>1
<1> HIDE DEF d
<1>4. G \subseteq Nat  BY DEF G
<1>5. y = [j \in 1 .. k + 1 |-> Entry(s, d[j])]
  <2> DEFINE z == [j \in 1 .. k + 1 |-> Entry(s, d[j])]
             V == {Entry(s, n) : n \in G}
  <2>1. x \in Seq(V) /\ Len(x) = k  BY <1>1
  <2>2. y \in Seq(V) /\ Len(y) = k + 1 /\ y[k + 1] = Entry(s, i) /\ \A j \in 1 .. k : y[j] = x[j]
    <3>1. Entry(s, i) \in V  BY DEF G
    <3> DEFINE v == Entry(s, i)
    <3> HIDE DEF V, v
    <3>2. Append(x, v) \in Seq(V) /\ Len(Append(x, v)) = k + 1 /\ Append(x, v)[k + 1] = v
          /\ \A j \in 1 .. k : Append(x, v)[j] = x[j]
      BY <1>1, <2>1, <3>1 DEF v
    <3> QED  BY <3>2 DEF v
  <2>3. z \in Seq(V) /\ Len(z) = k + 1  BY <1>1, <1>2
  <2>4. ASSUME NEW j \in 1 .. k + 1  PROVE y[j] = z[j]
    <3>1. z[j] = Entry(s, d[j])  OBVIOUS
    <3>2. CASE j = k + 1  BY <1>2, <2>2, <3>1, <3>2
    <3>3. CASE j \in 1 .. k
      <4>1. x[j] = Entry(s, e[j])  BY <1>1, <3>3
      <4> QED  BY <1>2, <2>2, <3>1, <3>3, <4>1
    <3> QED  BY <1>3, <3>2, <3>3
  <2> HIDE DEF y, z, V
  <2>5. y = z  BY <1>1, <2>2, <2>3, <2>4
  <2> QED  BY <2>5 DEF z
<1>6. \A j \in 1 .. k + 1 : d[j] <= i
  <2> TAKE j \in 1 .. k + 1
  <2>1. CASE j = k + 1  BY <1>2, <2>1
  <2>2. CASE j \in 1 .. k
    <3>1. e[j] <= i - 1 /\ e[j] \in Nat  BY <1>1, <1>4, <2>2
    <3>2. d[j] = e[j]  BY <1>2, <2>2
    <3> QED  BY <3>1, <3>2
  <2> QED  BY <1>3, <2>1, <2>2
<1>7. \A h, j \in 1 .. k + 1 : h < j => d[h] < d[j]
  <2> TAKE h, j \in 1 .. k + 1
  <2> HAVE h < j
  <2>1. h \in 1 .. k  BY <1>1
  <2>2. d[h] = e[h] /\ e[h] <= i - 1 /\ e[h] \in Nat  BY <1>1, <1>2, <1>4, <2>1
  <2>3. CASE j = k + 1  BY <1>2, <2>2, <2>3
  <2>4. CASE j \in 1 .. k  BY <1>1, <1>2, <2>1, <2>2, <2>4
  <2> QED  BY <1>3, <2>3, <2>4
<1>8. ASSUME NEW g \in G, g <= i  PROVE \E j \in 1 .. k + 1 : d[j] = g
  <2>1. CASE g = i
    <3>1. k + 1 \in 1 .. k + 1  BY <1>1
    <3> QED  BY <1>2, <2>1, <3>1
  <2>2. CASE g # i
    <3>1. g <= i - 1  BY <1>4, <1>8, <2>2
    <3>2. PICK j \in 1 .. k : e[j] = g  BY <1>1, <3>1
    <3>3. j \in 1 .. k + 1 /\ d[j] = g  BY <1>1, <1>2, <3>2
    <3> QED  BY <3>3
  <2> QED  BY <2>1, <2>2
<1>9. k + 1 \in Nat  BY <1>1
<1> QED  BY <1>2, <1>5, <1>6, <1>7, <1>8, <1>9 DEF Picks, G, d, y

LEMMA IndicatedIs ==
    ASSUME NEW X, NEW s \in Seq(X)
    PROVE  \E k, e : Picks(s, Len(s), Indicated(s), k, e)
<1> DEFINE n == Len(s)
           V == {Entry(s, j) : j \in 1 .. n}
           S == Seq(V)
           E(x, i) == IF i \in Ends(s) /\ Accepts(proto, FrameTo(s, i), Addr)
                      THEN Append(x, [msg |-> Message(proto, FrameTo(s, i), Addr), call |-> s[i].call])
                      ELSE x
           base == << >>
           Eqn(c) == c = [i \in 0 .. n |-> IF i = 0 THEN base ELSE E(c[i - 1], i)]
           step == [i \in 1 .. n |-> [x \in S |-> E(x, i)]]
           g == CHOOSE c : Eqn(c)
<1>1. n \in Nat /\ base \in S
  OBVIOUS
<1>2. \A x \in S, i \in 1 .. n : E(x, i) \in S
  <2> TAKE x \in S, i \in 1 .. n
  <2>1. Entry(s, i) \in V  OBVIOUS
  <2> DEFINE v == Entry(s, i)
  <2> HIDE DEF V, v
  <2>2. Append(x, v) \in Seq(V)  BY <2>1 DEF v
  <2>3. E(x, i) = IF i \in Ends(s) /\ Accepts(proto, FrameTo(s, i), Addr) THEN Append(x, v) ELSE x
    BY DEF v, Entry
  <2> QED  BY <2>2, <2>3
<1>3. Indicated(s) = g[n]
  BY DEF Indicated
<1>4. \A x, i : E(x, i) = IF i \in Good(s) THEN Append(x, Entry(s, i)) ELSE x
  BY DEF Good, Entry
<1> HIDE DEF E, S, base
<1>5. PICK f : IsLoop(f, n, S, base, step)
  <2>1. step \in Passes(n, S)  BY <1>2 DEF Passes
  <2> HIDE DEF step, n
  <2> QED  BY <1>1, <2>1, Recursion
<1>6. \A i \in 1 .. n : f[i] = E(f[i - 1], i)
  <2> TAKE i \in 1 .. n
  <2> HIDE DEF n
  <2>1. f[i - 1] \in S /\ f[i] = step[i][f[i - 1]]  BY <1>1, <1>5 DEF IsLoop
  <2>2. step[i][f[i - 1]] = E(f[i - 1], i)  BY <2>1
  <2> QED  BY <2>1, <2>2
<1>7. Eqn(g)
  <2>1. Eqn(f)
    <3> HIDE DEF n
    <3> QED  BY <1>5, <1>6 DEF IsLoop
  <2> QED  BY <2>1
<1> HIDE DEF g, step, n
<1>8. g[0] = f[0] /\ \A i \in 1 .. n : g[i - 1] = f[i - 1] => g[i] = f[i]
  BY <1>1, <1>5, <1>6, <1>7 DEF IsLoop
<1>9. \A i \in 0 .. n : g[i] = f[i]  BY <1>1, <1>8, SameLoop, ZenonT(60)
<1>10. f[0] = base  BY <1>5 DEF IsLoop
<1>11. Indicated(s) = f[n]  BY <1>1, <1>3, <1>9
<1> DEFINE T == {i \in 0 .. n : \E k, e : Picks(s, i, f[i], k, e)}
<1>12. Good(s) \subseteq 1 .. n  BY GoodType DEF n
<1>13. 0 \in T
  <2> DEFINE e == [j \in 1 .. 0 |-> 0]
  <2>1. Picks(s, 0, f[0], 0, e)
    <3>1. 0 \in Nat /\ e \in [1 .. 0 -> Good(s)]  OBVIOUS
    <3>2. f[0] = [j \in 1 .. 0 |-> Entry(s, e[j])]  BY <1>10 DEF base
    <3>3. \A y \in Good(s) : ~ (y <= 0)  BY <1>1, <1>12
    <3>4. \A j \in 1 .. 0 : FALSE  OBVIOUS
    <3> HIDE DEF e
    <3> QED  BY <3>1, <3>2, <3>3, <3>4 DEF Picks
  <2>2. 0 \in 0 .. n  BY <1>1
  <2> QED  BY <2>1, <2>2
<1>14. ASSUME NEW i \in 1 .. n, i - 1 \in T  PROVE i \in T
  <2>1. PICK k, e : Picks(s, i - 1, f[i - 1], k, e)  BY <1>14
  <2>2. f[i] = IF i \in Good(s) THEN Append(f[i - 1], Entry(s, i)) ELSE f[i - 1]  BY <1>4, <1>6
  <2>3. i \in 0 .. n /\ i \in Nat /\ i # 0 /\ Good(s) \subseteq Nat  BY <1>1, <1>12
  <2>4. CASE i \in Good(s)
    <3>1. Picks(s, i, f[i], k + 1, Another(e, k, i))
      BY <2>1, <2>2, <2>3, <2>4, PicksMore
    <3> QED  BY <2>3, <3>1
  <2>5. CASE i \notin Good(s)
    <3>1. \A y \in Good(s) : y <= i => y <= i - 1
      <4> TAKE y \in Good(s)
      <4>1. y \in Nat /\ y # i  BY <2>3, <2>5
      <4> QED  BY <2>3, <4>1
    <3>2. \A j \in 1 .. k : e[j] \in Nat  BY <2>1, <2>3 DEF Picks
    <3>3. \A j \in 1 .. k : e[j] <= i
      <4> TAKE j \in 1 .. k
      <4>1. e[j] \in Nat /\ e[j] <= i - 1  BY <2>1, <3>2 DEF Picks
      <4> QED  BY <2>3, <4>1
    <3>4. Picks(s, i, f[i], k, e)  BY <2>1, <2>2, <2>5, <3>1, <3>3 DEF Picks
    <3> QED  BY <2>3, <3>4
  <2> QED  BY <2>4, <2>5
<1> HIDE DEF T
<1>15. 0 .. n \subseteq T  BY <1>1, <1>13, <1>14, Climb
<1>16. n \in T
  <2>1. n \in 0 .. n  BY <1>1
  <2> QED  BY <1>15, <2>1
<1> QED  BY <1>11, <1>16 DEF T, n
---------------------------------------------------------------------------
(***************************************************************************)
(* What stays in the buffer.                                               *)
(***************************************************************************)
RestFrom(s) ==
    IF At(s, StartMark(proto)) = {} THEN Len(s) + 1
    ELSE LET b == Max(At(s, StartMark(proto))) IN
         IF Ends(s) # {} /\ Max(Ends(s)) > b THEN Max(Ends(s)) + MarkLen(proto) ELSE b

\* An end marker and a start marker after it do not share a byte.
LEMMA Apart ==
    ASSUME NEW p \in Protos, NEW X, NEW s \in Seq(X),
           NEW e \in At(s, EndMark(p)), NEW b \in At(s, StartMark(p)), e <= b
    PROVE  e + MarkLen(p) <= b /\ e \in Nat /\ b \in 1 .. Len(s)
<1>1. CASE p = "hdlc"
  <2>1. e \in 1 .. Len(s) /\ s[e].byte = 126 /\ b \in 1 .. Len(s) /\ s[b].byte = 124  BY <1>1, HdlcMarks
  <2>2. e # b  BY <2>1
  <2>3. MarkLen(p) = 1  BY <1>1 DEF MarkLen
  <2> QED  BY <2>1, <2>2, <2>3
<1>2. CASE p = "fffe"
  <2>1. /\ e \in 1 .. Len(s) - 1 /\ s[e].byte = 255 /\ s[e + 1].byte = 253
        /\ b \in 1 .. Len(s) - 1 /\ s[b].byte = 255 /\ s[b + 1].byte = 254
    BY <1>2, FffeMarks
  <2>2. e # b /\ e + 1 # b  BY <2>1
  <2>3. MarkLen(p) = 2 /\ Len(s) \in Nat  BY <1>2 DEF MarkLen
  <2> QED  BY <2>1, <2>2, <2>3
<1> QED  BY <1>1, <1>2 DEF Protos

LEMMA RestIs ==
    ASSUME proto \in Protos, NEW X, NEW s \in Seq(X)
    PROVE  /\ RestFrom(s) \in 1 .. Len(s) + 1 /\ Rest(s) = SubSeq(s, RestFrom(s), Len(s))
           /\ \A e \in Ends(s) : e \in Nat /\ e + MarkLen(proto) <= RestFrom(s)
<1> DEFINE starts == At(s, StartMark(proto))
           ends == Ends(s)
           L == MarkLen(proto)
           q == RestFrom(s)
           n == Len(s)
           b == Max(starts)
           z == Max(ends)
<1>1. n \in Nat /\ DOMAIN s = 1 .. n  OBVIOUS
<1>2. starts \subseteq 1 .. n  BY <1>1 DEF At
<1>3. L \in {1, 2} /\ Len(EndMark(proto)) = L  BY MarkLens
<1>4. ends \subseteq 1 .. n /\ ends \subseteq At(s, EndMark(proto)) /\ \A e \in ends : e + L - 1 <= n
  <2>1. ends \subseteq At(s, EndMark(proto))  BY DEF Ends
  <2>2. \A e \in At(s, EndMark(proto)) : e \in 1 .. n /\ e + L - 1 <= n  BY <1>1, <1>3 DEF At
  <2> HIDE DEF ends
  <2> QED  BY <2>1, <2>2
<1>5. ends # {} => starts # {}  BY DEF Ends
<1>6. starts # {} => b \in starts /\ \A k \in starts : k <= b  BY <1>1, <1>2, MaxOf
<1>7. ends # {} => z \in ends /\ \A k \in ends : k <= z  BY <1>1, <1>4, MaxOf
<1>8. Rest(s) = IF starts = {} THEN << >>
                ELSE IF ends # {} /\ z > b THEN SubSeq(s, z + L, n) ELSE SubSeq(s, b, n)
  BY <1>3 DEF Rest
<1>9. q = IF starts = {} THEN n + 1 ELSE IF ends # {} /\ z > b THEN z + L ELSE b
  BY DEF RestFrom
<1>10. \A e \in ends : \A k \in starts : e <= k => e + L <= k
  BY <1>4, Apart
<1> HIDE DEF starts, ends, L, q, n, b, z
<1>11. CASE starts = {}
  <2>1. q = n + 1 /\ ends = {}  BY <1>5, <1>9, <1>11
  <2>2. SubSeq(s, n + 1, n) = << >>  BY <1>1 DEF n
  <2> QED  BY <1>1, <1>8, <1>11, <2>1, <2>2 DEF starts, ends, L, q, n
<1>12. CASE starts # {} /\ ends # {} /\ z > b
  <2>1. q = z + L /\ Rest(s) = SubSeq(s, q, n)  BY <1>8, <1>9, <1>12
  <2>2. z \in 1 .. n /\ z + L - 1 <= n /\ \A k \in ends : k <= z  BY <1>4, <1>7, <1>12
  <2>3. q \in 1 .. n + 1  BY <1>1, <1>3, <2>1, <2>2
  <2>4. \A e \in ends : e \in Nat /\ e + L <= q
    <3> TAKE e \in ends
    <3>1. e \in Nat /\ e <= z  BY <1>4, <2>2
    <3> QED  BY <1>3, <2>1, <2>2, <3>1
  <2> QED  BY <2>1, <2>3, <2>4 DEF ends, L, q, n
<1>13. CASE starts # {} /\ ~ (ends # {} /\ z > b)
  <2>1. q = b /\ Rest(s) = SubSeq(s, q, n)  BY <1>8, <1>9, <1>13
  <2>2. b \in starts /\ b \in 1 .. n  BY <1>2, <1>6, <1>13
  <2>3. q \in 1 .. n + 1  BY <1>1, <2>1, <2>2
  <2>4. \A e \in ends : e \in Nat /\ e + L <= q
    <3> TAKE e \in ends
    <3>1. e \in 1 .. n /\ e <= z /\ z \in 1 .. n  BY <1>4, <1>7
    <3>2. ~ (z > b)  BY <1>13
    <3>3. e <= b  BY <1>1, <2>2, <3>1, <3>2
    <3> QED  BY <1>10, <2>1, <2>2, <3>1, <3>3
  <2> QED  BY <2>1, <2>3, <2>4 DEF ends, L, q, n
<1> QED  BY <1>11, <1>12, <1>13
---------------------------------------------------------------------------
(***************************************************************************)
(* What a pass of accept delivers.                                         *)
(***************************************************************************)
AtEnd(p, calls, x) ==
    ~calls[x.call].hit /\ x.pos = Len(Wrote(p, calls, x.call)) - MarkLen(p) + 1

LEMMA AfterEnd ==
    ASSUME NEW p, NEW calls, NEW s, Tidy(p, calls, s), NEW e \in 1 .. Len(s), NEW k \in 1 .. Len(s), e < k,
           AtEnd(p, calls, s[e]), e + MarkLen(p) <= k \/ AtEnd(p, calls, s[k])
    PROVE  s[e].call < s[k].call
<1> DEFINE c == s[e].call
           w == Wrote(p, calls, c)
           L == MarkLen(p)
<1>1. p \in Protos /\ Tagged(p, calls, s[k]) /\ Before(calls, s[e], s[k], k - e)  BY DEF Tidy
<1>2. L \in {1, 2}  BY <1>1, MarkLens
<1>3. /\ calls[c].msg \in MessagesOf(p) /\ c \in Nat /\ s[k].call \in Nat
      /\ s[e].pos \in Nat /\ s[k].pos \in Nat
  BY TidyParts
<1>4. Len(w) \in Nat  BY <1>1, <1>3, WroteIs DEF Wrote
<1>5. s[e].pos = Len(w) - L + 1 /\ ~calls[c].hit  BY DEF AtEnd
<1>6. c <= s[k].call  BY <1>1 DEF Before
<1> SUFFICES ASSUME c = s[k].call  PROVE FALSE
  BY <1>3, <1>6
<1>7. k - e < s[k].pos /\ s[e].pos = s[k].pos - (k - e)
  <2>1. k - e < s[k].pos
    <3>1. ~ (c < s[k].call)  BY <1>3
    <3> QED  BY <1>1, <1>5, <3>1 DEF Before
  <2> QED  BY <1>1, <1>5, <2>1 DEF Before
<1>8. s[k].pos <= Len(w)  BY <1>1, <1>5 DEF Tagged
<1> DEFINE m == s[e].pos
           l == s[k].pos
<1>9. m \in Nat /\ l \in Nat /\ m = l - (k - e) /\ m = Len(w) - L + 1 /\ l <= Len(w) /\ e \in Nat /\ k \in Nat
  <2>1. Len(s) \in Nat  BY DEF Tidy
  <2> QED  BY <1>3, <1>5, <1>7, <1>8, <2>1
<1>10. AtEnd(p, calls, s[k]) => l = Len(w) - L + 1  BY DEF AtEnd
<1> HIDE DEF m, l, w, L, c
<1>11. ~ (e + L <= k)  BY <1>2, <1>4, <1>9
<1>12. l # Len(w) - L + 1  BY <1>2, <1>4, <1>9
<1> QED  BY <1>10, <1>11, <1>12 DEF L

\* x is a message that a call, where noise has not hit it, has sent to this end.
Faithful(calls, x) ==
    ~calls[x.call].hit =>
      calls[x.call].ok /\ calls[x.call].msg.dst = Addr /\ x.msg = calls[x.call].msg

LEMMA GoodIs ==
    ASSUME NEW calls, NEW s, Tidy(proto, calls, s), Clean(proto, calls), NEW e \in Good(s)
    PROVE  /\ Faithful(calls, Entry(s, e)) /\ Entry(s, e).call = s[e].call /\ e \in 1 .. Len(s)
           /\ ~calls[s[e].call].hit => AtEnd(proto, calls, s[e])
           /\ e \in Nat /\ e + MarkLen(proto) <= RestFrom(s)
<1> DEFINE c == s[e].call
           w == Wrote(proto, calls, c)
<1>1. proto \in Protos /\ s \in Seq(SentOf(calls))  BY DEF Tidy
<1>2. e \in Ends(s) /\ Accepts(proto, FrameTo(s, e), Addr) /\ e \in 1 .. Len(s)  BY <1>1, GoodType DEF Good
<1>3. Entry(s, e).call = c /\ Entry(s, e).msg = Message(proto, FrameTo(s, e), Addr)  BY DEF Entry
<1>4. ASSUME ~calls[c].hit
      PROVE  /\ calls[c].ok /\ calls[c].msg.dst = Addr /\ Entry(s, e).msg = calls[c].msg
             /\ AtEnd(proto, calls, s[e])
  <2>1. EndOf(proto, calls, s, e) /\ FrameTo(s, e) = w  BY <1>2, <1>4, FrameIs
  <2>2. Whole(proto, calls[c].msg) /\ calls[c].ok  BY <2>1 DEF EndOf
  <2>3. calls[c].msg \in MessagesOf(proto)  BY <1>2, TidyParts
  <2>4. (Accepts(proto, w, Addr) <=> calls[c].msg.dst = Addr) /\ Message(proto, w, Addr) = calls[c].msg
    BY <1>1, <2>2, <2>3, WroteIs DEF Wrote
  <2>5. AtEnd(proto, calls, s[e])
    <3> DEFINE l == e + MarkLen(proto) - 1
    <3>1. s[l].pos = Len(w) /\ s[e].pos = s[l].pos - MarkLen(proto) + 1  BY <2>1 DEF EndOf
    <3> QED  BY <1>4, <3>1 DEF AtEnd
  <2> QED  BY <1>2, <1>3, <2>1, <2>2, <2>4, <2>5
<1>5. Faithful(calls, Entry(s, e))  BY <1>3, <1>4 DEF Faithful
<1>6. e \in Nat /\ e + MarkLen(proto) <= RestFrom(s)  BY <1>1, <1>2, RestIs
<1> QED  BY <1>2, <1>3, <1>4, <1>5, <1>6

\* Calls come in the order of the sequence, those that noise has spared once.
InOrder(calls, a, b) == a <= b /\ (~calls[a].hit => a < b)

LEMMA DeliveredIs ==
    ASSUME NEW calls, NEW s, Tidy(proto, calls, s), Clean(proto, calls)
    PROVE  LET d == Indicated(s) IN
           /\ Len(d) \in Nat /\ d \in Seq({Entry(s, e) : e \in Good(s)})
           /\ \A i \in 1 .. Len(d) : d[i].call \in DOMAIN calls /\ Faithful(calls, d[i])
           /\ \A i, j \in 1 .. Len(d) : i < j => InOrder(calls, d[i].call, d[j].call)
           /\ \A e \in Good(s) : \E i \in 1 .. Len(d) : d[i] = Entry(s, e)
<1> DEFINE d == Indicated(s)
           V == {Entry(s, e) : e \in Good(s)}
<1>1. proto \in Protos /\ s \in Seq(SentOf(calls))  BY DEF Tidy
<1>2. PICK k, e : Picks(s, Len(s), d, k, e)  BY <1>1, IndicatedIs
<1>3. /\ k \in Nat /\ e \in [1 .. k -> Good(s)]
      /\ d = [j \in 1 .. k |-> Entry(s, e[j])]
      /\ \A h, j \in 1 .. k : h < j => e[h] < e[j]
      /\ \A g \in Good(s) : g <= Len(s) => \E j \in 1 .. k : e[j] = g
  BY <1>2 DEF Picks
<1>4. d \in Seq(V) /\ Len(d) = k
  BY <1>3
<1>5. \A i \in 1 .. k : d[i] = Entry(s, e[i]) /\ e[i] \in Good(s)  BY <1>3
<1> HIDE DEF d, V
<1>6. ASSUME NEW i \in 1 .. k
      PROVE  /\ d[i].call = s[e[i]].call /\ d[i].call \in DOMAIN calls /\ Faithful(calls, d[i])
             /\ e[i] \in 1 .. Len(s) /\ (~calls[d[i].call].hit => AtEnd(proto, calls, s[e[i]]))
  <2>1. e[i] \in Good(s) /\ d[i] = Entry(s, e[i])  BY <1>5
  <2>2. /\ Faithful(calls, Entry(s, e[i])) /\ Entry(s, e[i]).call = s[e[i]].call /\ e[i] \in 1 .. Len(s)
        /\ ~calls[s[e[i]].call].hit => AtEnd(proto, calls, s[e[i]])
    BY <2>1, GoodIs
  <2>3. s[e[i]].call \in DOMAIN calls  BY <2>2, TidyParts
  <2> QED  BY <2>1, <2>2, <2>3
<1>7. ASSUME NEW i \in 1 .. k, NEW j \in 1 .. k, i < j
      PROVE  InOrder(calls, d[i].call, d[j].call)
  <2> DEFINE a == e[i]
             b == e[j]
  <2>1. a \in 1 .. Len(s) /\ b \in 1 .. Len(s) /\ d[i].call = s[a].call /\ d[j].call = s[b].call  BY <1>6
  <2>2. a < b  BY <1>3, <1>7
  <2>3. s[a].call \in Nat /\ s[b].call \in Nat  BY <2>1, TidyParts
  <2>4. ~calls[s[a].call].hit => AtEnd(proto, calls, s[a])  BY <1>6
  <2>5. ~calls[s[b].call].hit => AtEnd(proto, calls, s[b])  BY <1>6
  <2> HIDE DEF a, b
  <2>6. s[a].call <= s[b].call  BY <2>1, <2>2 DEF Tidy, Before
  <2>7. ASSUME ~calls[s[a].call].hit  PROVE s[a].call < s[b].call
    <3>1. CASE calls[s[b].call].hit
      <4>1. s[a].call # s[b].call  BY <2>7, <3>1
      <4> QED  BY <2>3, <2>6, <4>1
    <3>2. CASE ~calls[s[b].call].hit
      <4>1. AtEnd(proto, calls, s[a]) /\ AtEnd(proto, calls, s[b])  BY <2>4, <2>5, <2>7, <3>2
      <4> QED  BY <2>1, <2>2, <4>1, AfterEnd
    <3> QED  BY <3>1, <3>2
  <2> QED  BY <2>1, <2>6, <2>7 DEF InOrder
<1>8. ASSUME NEW g \in Good(s)  PROVE \E i \in 1 .. Len(d) : d[i] = Entry(s, g)
  <2>1. g <= Len(s)
    <3>1. g \in 1 .. Len(s)  BY <1>1, GoodType
    <3> QED  BY <3>1
  <2>2. PICK i \in 1 .. k : e[i] = g  BY <1>3, <2>1
  <2> QED  BY <1>4, <1>5, <2>2
<1> QED  BY <1>3, <1>4, <1>6, <1>7, <1>8 DEF d, V
---------------------------------------------------------------------------
(***************************************************************************)
(* A block of accept, in terms of the bytes that it finds.                 *)
(***************************************************************************)
LEMMA Joined ==
    ASSUME NEW X, NEW s \in Seq(X), NEW t \in Seq(X)
    PROVE  /\ Len(s) \in Nat /\ Len(t) \in Nat
           /\ s \o t \in Seq(X) /\ Len(s \o t) = Len(s) + Len(t)
           /\ \A i \in 1 .. Len(s) : (s \o t)[i] = s[i]
           /\ \A i \in 1 .. Len(t) : (s \o t)[Len(s) + i] = t[i]
<1>1. Len(s) \in Nat /\ Len(t) \in Nat  OBVIOUS
<1>2. /\ s \o t \in Seq(X) /\ Len(s \o t) = Len(s) + Len(t)
      /\ \A i \in 1 .. Len(s) + Len(t) : (s \o t)[i] = IF i <= Len(s) THEN s[i] ELSE t[i - Len(s)]
  BY ConcatProperties, Zenon
<1> QED  BY <1>1, <1>2

All == rx_buffer \o line

Taken(n) == Min({n, Len(line)})

\* What the block has before it, and what it would have with all of the line.
Got(n) == Kept(n) \o SubSeq(line, 1, Taken(n))
Stream(n) == Kept(n) \o line

\* Where what stays of it begins.
From(n) == IF Len(Got(n)) < MinLen(proto) THEN 1 ELSE RestFrom(Got(n))

LEMMA GotIs ==
    ASSUME NEW X, rx_buffer \in Seq(X), line \in Seq(X), proto \in Protos,
           NEW n \in Nat, Taken(n) > 0
    PROVE  /\ Taken(n) \in 1 .. Len(line) /\ Taken(n) <= n
           /\ Got(n) \in Seq(X) /\ Stream(n) \in Seq(X)
           /\ Len(Got(n)) = Len(Kept(n)) + Taken(n) /\ Len(Stream(n)) = Len(Kept(n)) + Len(line)
           /\ Len(Got(n)) \in Nat /\ Len(Stream(n)) \in Nat /\ Len(Got(n)) <= Len(Stream(n))
           /\ Got(n) = SubSeq(Stream(n), 1, Len(Got(n)))
           /\ From(n) \in 1 .. Len(Got(n)) + 1
           /\ \E q \in 1 .. Len(All) + 1 : Stream(n) = SubSeq(All, q, Len(All))
<1> DEFINE r == Taken(n)
           k == Kept(n)
           g == Got(n)
           t == Stream(n)
           h == SubSeq(line, 1, r)
<1>1. r \in 1 .. Len(line) /\ r <= n
  <2>1. Len(line) \in Nat  OBVIOUS
  <2>2. r \in Nat /\ r <= n /\ r <= Len(line)  BY <2>1, MinOf DEF Taken
  <2> HIDE DEF r
  <2>3. r > 0  BY DEF r
  <2> QED  BY <2>1, <2>2, <2>3
<1>2. k \in Seq(X) /\ (k = <<>> \/ k = rx_buffer)  BY DEF Kept
<1>3. h \in Seq(X) /\ Len(h) = r /\ (\A i \in 1 .. r : h[i] = line[i]) /\ Len(line) \in Nat
  <2> HIDE DEF r
  <2> QED  BY <1>1
<1>4. g = k \o h /\ t = k \o line  BY DEF Got, Stream
<1> HIDE DEF r, k, h, g, t
<1>5. /\ g \in Seq(X) /\ Len(g) = Len(k) + r /\ Len(k) \in Nat
      /\ \A i \in 1 .. Len(k) : g[i] = k[i]
      /\ \A i \in 1 .. r : g[Len(k) + i] = h[i]
  <2>1. Len(k) \in Nat  BY <1>2
  <2>2. /\ k \o h \in Seq(X) /\ Len(k \o h) = Len(k) + Len(h)
        /\ \A i \in 1 .. Len(k) : (k \o h)[i] = k[i]
        /\ \A i \in 1 .. Len(h) : (k \o h)[Len(k) + i] = h[i]
    <3>1. k \in Seq(X)  BY <1>2
    <3>2. h \in Seq(X)  BY <1>3
    <3> QED  BY <3>1, <3>2, Joined
  <2> QED  BY <1>3, <1>4, <2>1, <2>2
<1>6. /\ t \in Seq(X) /\ Len(t) = Len(k) + Len(line)
      /\ \A i \in 1 .. Len(k) : t[i] = k[i]
      /\ \A i \in 1 .. Len(line) : t[Len(k) + i] = line[i]
  BY <1>2, <1>3, <1>4, ConcatProperties, LenProperties
<1>7. Len(g) \in Nat /\ Len(t) \in Nat /\ Len(g) <= Len(t)  BY <1>1, <1>3, <1>5, <1>6
<1>8. g = SubSeq(t, 1, Len(g))
  <2> DEFINE u == SubSeq(t, 1, Len(g))
  <2>1. u \in Seq(X) /\ Len(u) = Len(g) /\ \A i \in 1 .. Len(g) : u[i] = t[i]  BY <1>6, <1>7
  <2>2. ASSUME NEW i \in 1 .. Len(g)  PROVE g[i] = t[i]
    <3>1. CASE i \in 1 .. Len(k)  BY <1>5, <1>6, <3>1
    <3>2. CASE i \notin 1 .. Len(k)
      <4> DEFINE j == i - Len(k)
      <4>1. j \in 1 .. r /\ j \in 1 .. Len(line) /\ i = Len(k) + j  BY <1>1, <1>3, <1>5, <3>2
      <4> HIDE DEF j
      <4> QED  BY <1>3, <1>5, <1>6, <4>1
    <3> QED  BY <3>1, <3>2
  <2> HIDE DEF u
  <2>3. g = u  BY <1>5, <2>1, <2>2
  <2> QED  BY <2>3 DEF u
<1>9. From(n) \in 1 .. Len(g) + 1
  <2>1. RestFrom(g) \in 1 .. Len(g) + 1  BY <1>5, RestIs
  <2>2. From(n) = 1 \/ From(n) = RestFrom(g)  BY DEF From, g
  <2> QED  BY <1>7, <2>1, <2>2
<1>10. PICK q \in 1 .. Len(All) + 1 : t = SubSeq(All, q, Len(All))
  <2> DEFINE a == All
  <2>0. a = rx_buffer \o line  BY DEF All
  <2> HIDE DEF a
  <2>1. /\ a \in Seq(X) /\ Len(rx_buffer) \in Nat /\ Len(a) = Len(rx_buffer) + Len(line)
        /\ \A i \in 1 .. Len(line) : a[Len(rx_buffer) + i] = line[i]
    BY <2>0, ConcatProperties, LenProperties
  <2>2. CASE k = rx_buffer
    <3>1. t = a  BY <1>4, <2>0, <2>2
    <3>2. a = SubSeq(a, 1, Len(a)) /\ 1 \in 1 .. Len(a) + 1  BY <1>3, <2>1
    <3> QED  BY <3>1, <3>2 DEF a
  <2>3. CASE k = <<>>
    <3>1. t = line
      <4>1. Len(t) = Len(line) /\ \A i \in 1 .. Len(line) : t[i] = line[i]  BY <1>3, <1>6, <2>3
      <4> QED  BY <1>6, <4>1
    <3> DEFINE q == Len(rx_buffer) + 1
               u == SubSeq(a, q, Len(a))
    <3>2. q \in 1 .. Len(a) + 1  BY <1>3, <2>1
    <3> HIDE DEF q
    <3>3. /\ u \in Seq(X) /\ Len(u) = Len(a) - q + 1 /\ \A i \in 1 .. Len(u) : u[i] = a[i + q - 1]
      BY <2>1, <3>2, SuffixIs
    <3> HIDE DEF u
    <3>4. Len(u) = Len(line)  BY <1>3, <2>1, <3>3 DEF q
    <3>5. ASSUME NEW i \in 1 .. Len(line)  PROVE u[i] = line[i]
      <4>1. i + q - 1 = Len(rx_buffer) + i  BY <2>1 DEF q
      <4> QED  BY <2>1, <3>3, <3>4, <4>1
    <3>6. u = line  BY <3>3, <3>4, <3>5
    <3> QED  BY <3>1, <3>2, <3>6 DEF a, u
  <2> QED  BY <1>2, <2>2, <2>3
<1>11. r = Taken(n) /\ k = Kept(n) /\ g = Got(n) /\ t = Stream(n)  BY DEF r, k, g, t
<1> QED  BY <1>1, <1>5, <1>6, <1>7, <1>8, <1>9, <1>10, <1>11

LEMMA AcceptIs ==
    ASSUME NEW X, rx_buffer \in Seq(X), line \in Seq(X), proto \in Protos,
           NEW n \in Nat, Accept(n)
    PROVE  /\ Taken(n) > 0
           /\ rx_buffer' = SubSeq(Got(n), From(n), Len(Got(n)))
           /\ rx_buffer' \in Seq(X) /\ line' \in Seq(X)
           /\ Len(rx_buffer') = Len(Got(n)) - From(n) + 1
           /\ All' = SubSeq(Stream(n), From(n), Len(Stream(n)))
           /\ delivered' = delivered \/ delivered' = delivered \o Indicated(Got(n))
           /\ Len(Got(n)) >= MinLen(proto) => delivered' = delivered \o Indicated(Got(n))
           /\ UNCHANGED <<proto, maxlen, id_count, sent, noise>>
<1> DEFINE r == Taken(n)
           k == Kept(n)
           g == Got(n)
           t == Stream(n)
           q == From(n)
<1>1. /\ r > 0 /\ line' = SubSeq(line, r + 1, Len(line))
      /\ IF Len(g) < MinLen(proto)
         THEN rx_buffer' = g /\ UNCHANGED delivered
         ELSE rx_buffer' = Rest(g) /\ delivered' = delivered \o Indicated(g)
      /\ UNCHANGED <<proto, maxlen, id_count, sent, noise>>
  BY DEF Accept, Taken, Got
<1>2. /\ r \in 1 .. Len(line) /\ g \in Seq(X) /\ t \in Seq(X)
      /\ Len(g) = Len(k) + r /\ Len(t) = Len(k) + Len(line)
      /\ Len(g) \in Nat /\ Len(t) \in Nat /\ Len(g) <= Len(t)
      /\ g = SubSeq(t, 1, Len(g)) /\ q \in 1 .. Len(g) + 1
  BY <1>1, GotIs
<1>3. k \in Seq(X) /\ Len(k) \in Nat /\ t = k \o line /\ g = k \o SubSeq(line, 1, r) /\ Len(line) \in Nat
  BY DEF Kept, Stream, Got
<1>4. rx_buffer' = SubSeq(g, q, Len(g))
  <2>1. CASE Len(g) < MinLen(proto)
    <3>1. q = 1  BY <2>1 DEF From
    <3>2. g = SubSeq(g, 1, Len(g))
      <4> HIDE DEF g
      <4> QED  BY <1>2
    <3> QED  BY <1>1, <2>1, <3>1, <3>2
  <2>2. CASE ~ (Len(g) < MinLen(proto))
    <3>1. q = RestFrom(g)  BY <2>2 DEF From
    <3>2. Rest(g) = SubSeq(g, RestFrom(g), Len(g))  BY <1>2, RestIs
    <3> QED  BY <1>1, <2>2, <3>1, <3>2
  <2> QED  BY <2>1, <2>2
<1>5. Len(g) >= MinLen(proto) => delivered' = delivered \o Indicated(g)
  <2>1. MinLen(proto) \in Nat  BY DEF MinLen
  <2>2. Len(g) >= MinLen(proto) => ~ (Len(g) < MinLen(proto))
    <3> HIDE DEF g
    <3> QED  BY <1>2, <2>1
  <2> QED  BY <1>1, <2>2
<1>6. delivered' = delivered \/ delivered' = delivered \o Indicated(g)  BY <1>1
<1>7. UNCHANGED <<proto, maxlen, id_count, sent, noise>> /\ r > 0 /\ line' = SubSeq(line, r + 1, Len(line))  BY <1>1
<1> HIDE DEF r, k, g, t, q
<1> DEFINE b == SubSeq(g, q, Len(g))
           m == SubSeq(line, r + 1, Len(line))
           v == SubSeq(t, q, Len(t))
<1>8. /\ b \in Seq(X) /\ Len(b) = Len(g) - q + 1
      /\ \A i \in 1 .. Len(b) : b[i] = g[i + q - 1] /\ i + q - 1 \in 1 .. Len(g)
  BY <1>2, SuffixIs
<1>9. /\ m \in Seq(X) /\ Len(m) = Len(line) - r /\ \A i \in 1 .. Len(m) : m[i] = line[i + r]
  <2> DEFINE z == r + 1
  <2>1. z \in 1 .. Len(line) + 1  BY <1>2, <1>3
  <2> HIDE DEF z
  <2>2. /\ SubSeq(line, z, Len(line)) \in Seq(X) /\ Len(SubSeq(line, z, Len(line))) = Len(line) - z + 1
        /\ \A i \in 1 .. Len(SubSeq(line, z, Len(line))) : SubSeq(line, z, Len(line))[i] = line[i + z - 1]
    BY <2>1, SuffixIs
  <2>3. m = SubSeq(line, z, Len(line))  BY DEF z
  <2> HIDE DEF m
  <2>4. Len(m) = Len(line) - r  BY <1>2, <1>3, <2>2, <2>3 DEF z
  <2>5. ASSUME NEW i \in 1 .. Len(m)  PROVE m[i] = line[i + r]
    <3>1. i + z - 1 = i + r  BY <1>2 DEF z
    <3> QED  BY <2>2, <2>3, <3>1
  <2> QED  BY <2>2, <2>3, <2>4, <2>5
<1>10. /\ v \in Seq(X) /\ Len(v) = Len(t) - q + 1 /\ \A i \in 1 .. Len(v) : v[i] = t[i + q - 1]
  <2>1. q \in 1 .. Len(t) + 1  BY <1>2
  <2> QED  BY <1>2, <2>1, SuffixIs
<1> HIDE DEF b, m, v
<1>11. /\ b \o m \in Seq(X) /\ Len(b \o m) = Len(b) + Len(m) /\ Len(b) \in Nat /\ Len(m) \in Nat
       /\ \A i \in 1 .. Len(b) : (b \o m)[i] = b[i]
       /\ \A i \in 1 .. Len(m) : (b \o m)[Len(b) + i] = m[i]
  <2>1. Len(b) \in Nat /\ Len(m) \in Nat  BY <1>8, <1>9
  <2>2. b \in Seq(X) /\ m \in Seq(X)  BY <1>8, <1>9
  <2>3. /\ b \o m \in Seq(X) /\ Len(b \o m) = Len(b) + Len(m)
        /\ \A i \in 1 .. Len(b) : (b \o m)[i] = b[i]
        /\ \A i \in 1 .. Len(m) : (b \o m)[Len(b) + i] = m[i]
    <3>1. b \in Seq(X)  BY <2>2
    <3>2. m \in Seq(X)  BY <2>2
    <3> QED  BY <3>1, <3>2, Joined
  <2> QED  BY <2>1, <2>3
<1>12. \A i \in 1 .. Len(g) : g[i] = t[i]
  BY <1>2
<1>13. \A i \in 1 .. Len(line) : t[Len(k) + i] = line[i]
  BY <1>3, ConcatProperties
<1>14. b \o m = v
  <2> DEFINE u == b \o m
  <2>1. Len(u) = Len(v)  BY <1>2, <1>3, <1>8, <1>9, <1>10, <1>11
  <2>2. u \in Seq(X)  BY <1>11
  <2>3. ASSUME NEW i \in 1 .. Len(v)  PROVE u[i] = v[i]
    <3>1. v[i] = t[i + q - 1]  BY <1>10
    <3>2. CASE i \in 1 .. Len(b)
      <4>1. u[i] = g[i + q - 1] /\ i + q - 1 \in 1 .. Len(g)  BY <1>8, <1>11, <3>2
      <4> QED  BY <1>12, <3>1, <4>1
    <3>3. CASE i \notin 1 .. Len(b)
      <4> DEFINE j == i - Len(b)
                 h == j + r
      <4>1. j \in 1 .. Len(m) /\ i = Len(b) + j  BY <1>11, <2>1, <3>3
      <4>2. h \in 1 .. Len(line) /\ i + q - 1 = Len(k) + h
        <5> HIDE DEF j
        <5>1. h \in 1 .. Len(line)  BY <1>2, <1>3, <1>9, <4>1
        <5>2. i + q - 1 = Len(k) + h  BY <1>2, <1>3, <1>8, <4>1
        <5> QED  BY <5>1, <5>2
      <4>3. u[i] = m[j] /\ m[j] = line[h]  BY <1>9, <1>11, <4>1
      <4> HIDE DEF h, j, u
      <4> QED  BY <1>13, <3>1, <4>2, <4>3
    <3> QED  BY <3>2, <3>3
  <2> HIDE DEF u
  <2>4. u = v  BY <1>10, <2>1, <2>2, <2>3
  <2> QED  BY <2>4 DEF u
<1>15. rx_buffer' = b /\ line' = m  BY <1>4, <1>7 DEF b, m
<1>16. All' = v  BY <1>14, <1>15 DEF All
<1>17. g = Got(n) /\ q = From(n) /\ t = Stream(n) /\ r = Taken(n)  BY DEF g, q, t, r
<1> QED  BY <1>5, <1>6, <1>7, <1>8, <1>9, <1>15, <1>16, <1>17 DEF b, v
---------------------------------------------------------------------------
(***************************************************************************)
(* Types.                                                                  *)
(***************************************************************************)
Typed == TypeOK /\ delivered \in Seq(Range(delivered))

LEMMA TypedParts ==
    ASSUME Typed
    PROVE  /\ proto \in UsedProtos /\ proto \in Protos /\ maxlen \in MaxLens /\ maxlen \in Nat
           /\ IdRange = RangeOf(proto) /\ id_count \in 0 .. RangeOf(proto) - 1
           /\ sent \in CallsOf(proto) /\ Len(sent) \in Nat /\ Len(sent) <= MaxSent
           /\ rx_buffer \in Seq(SentOf(sent)) /\ Len(rx_buffer) \in Nat /\ Len(rx_buffer) <= maxlen
           /\ line \in Seq(SentOf(sent)) /\ Len(line) \in Nat
           /\ delivered \in Seq(Range(delivered)) /\ Len(delivered) \in Nat
           /\ \A i \in 1 .. Len(delivered) : delivered[i].call \in DOMAIN sent
           /\ noise \in 0 .. MaxNoise
<1> USE DEF Typed, TypeOK
<1>1. proto \in UsedProtos /\ proto \in Protos /\ maxlen \in MaxLens /\ maxlen \in Nat
  BY FrameLinkAssumption
<1>2. IdRange = RangeOf(proto)  BY DEF IdRange, RangeOf
<1>3. Messages = MessagesOf(proto)  BY <1>2 DEF Messages, MessagesOf, Destinations
<1>4. Sent = SentOf(sent)  BY DEF Sent, SentOf
<1>5. sent \in CallsOf(proto) /\ Len(sent) <= MaxSent
  <2>1. sent \in Seq([msg : MessagesOf(proto), ok : BOOLEAN, hit : BOOLEAN])  BY <1>3
  <2> QED  BY <2>1 DEF CallsOf
<1>6. Len(sent) \in Nat
  <2> DEFINE R == [msg : MessagesOf(proto), ok : BOOLEAN, hit : BOOLEAN]
  <2>1. sent \in Seq(R)  BY <1>5 DEF CallsOf
  <2> HIDE DEF R
  <2> QED  BY <2>1
<1>7. rx_buffer \in Seq(SentOf(sent)) /\ line \in Seq(SentOf(sent)) /\ Len(rx_buffer) <= maxlen
  BY <1>4
<1>8. Len(rx_buffer) \in Nat /\ Len(line) \in Nat  BY <1>7
<1>9. /\ delivered \in Seq(Range(delivered)) /\ Len(delivered) \in Nat
      /\ \A i \in 1 .. Len(delivered) : delivered[i].call \in DOMAIN sent
  OBVIOUS
<1>10. id_count \in 0 .. RangeOf(proto) - 1
  <2>1. id_count \in 0 .. IdRange - 1  OBVIOUS
  <2> QED  BY <1>2, <2>1
<1> QED  BY <1>1, <1>2, <1>5, <1>6, <1>7, <1>8, <1>9, <1>10

\* The n bytes of w that call c puts on the line.
Put(w, c, n) == [i \in 1 .. n |-> [byte |-> w[i], call |-> c, pos |-> i]]

LEMMA PutIs ==
    ASSUME NEW calls, Len(calls) \in Nat, NEW c \in DOMAIN calls, NEW w \in Seq(Byte), NEW n \in 0 .. Len(w)
    PROVE  /\ Put(w, c, n) \in Seq(SentOf(calls)) /\ Len(Put(w, c, n)) = n
           /\ \A i \in 1 .. n : Put(w, c, n)[i] = [byte |-> w[i], call |-> c, pos |-> i]
<1> DEFINE S == SentOf(calls)
           x(i) == [byte |-> w[i], call |-> c, pos |-> i]
<1>1. n \in Nat /\ \A i \in 1 .. n : w[i] \in Byte /\ i \in Nat \ {0}  OBVIOUS
<1>2. \A i \in 1 .. n : x(i) \in S  BY <1>1 DEF SentOf
<1>3. Put(w, c, n) = [i \in 1 .. n |-> x(i)]  BY DEF Put
<1> HIDE DEF S, x
<1>4. /\ [i \in 1 .. n |-> x(i)] \in Seq(S) /\ Len([i \in 1 .. n |-> x(i)]) = n
      /\ \A i \in 1 .. n : [j \in 1 .. n |-> x(j)][i] = x(i)
  BY <1>1, <1>2
<1> QED  BY <1>3, <1>4 DEF S, x

\* What a call leaves behind: n bytes of what it writes, and its record.
Puts(msg, n, ok) ==
    LET w == Written(proto, OtherAddr, msg) IN
    /\ n \in 0 .. Len(w) /\ ok \in BOOLEAN /\ (ok => n = Len(w)) /\ Len(w) <= MaxFrame
    /\ n = Len(w) \/ (n \in Cuts /\ ~ok /\ n < Len(w))
    /\ n = Len(w) => (ok <=> w # <<>>)
    /\ line' = line \o Put(w, Len(sent) + 1, n)
    /\ sent' = Append(sent, [msg |-> msg, ok |-> ok, hit |-> FALSE])

LEMMA SendIs ==
    ASSUME Typed, NEW msg \in MessagesOf(proto), Send(msg)
    PROVE  /\ \E n, ok : Puts(msg, n, ok)
           /\ Len(sent) < MaxSent
           /\ UNCHANGED <<proto, maxlen, rx_buffer, delivered, noise>>
<1> DEFINE w == Written(proto, OtherAddr, msg)
           put(n, ok) ==
             /\ line' = line \o [i \in 1 .. n |-> [byte |-> w[i], call |-> Len(sent) + 1, pos |-> i]]
             /\ sent' = Append(sent, [msg |-> msg, ok |-> ok, hit |-> FALSE])
<1>1. /\ Len(sent) < MaxSent /\ Len(w) <= MaxFrame
      /\ put(Len(w), w # <<>>) \/ \E n \in Cuts : n < Len(w) /\ put(n, FALSE)
      /\ UNCHANGED <<proto, maxlen, rx_buffer, delivered, noise>>
  BY DEF Send
<1>2. w \in Seq(Byte) /\ Len(w) \in Nat  BY TypedParts, WroteIs
<1>3. \A n, ok : put(n, ok) <=> /\ line' = line \o Put(w, Len(sent) + 1, n)
                                /\ sent' = Append(sent, [msg |-> msg, ok |-> ok, hit |-> FALSE])
  BY DEF Put
<1>4. \A n, ok : Puts(msg, n, ok) <=>
        /\ n \in 0 .. Len(w) /\ ok \in BOOLEAN /\ (ok => n = Len(w)) /\ Len(w) <= MaxFrame
        /\ n = Len(w) \/ (n \in Cuts /\ ~ok /\ n < Len(w))
        /\ n = Len(w) => (ok <=> w # <<>>)
        /\ put(n, ok)
  BY <1>3 DEF Puts
<1>5. Cuts \subseteq Nat  BY FrameLinkAssumption
<1> HIDE DEF w, put
<1>6. CASE put(Len(w), w # <<>>)
  <2> DEFINE n == Len(w)
             ok == (w # <<>>)
  <2>1. n \in 0 .. Len(w) /\ ok \in BOOLEAN  BY <1>2
  <2>2. put(n, ok) /\ n = Len(w) /\ (ok <=> w # <<>>)  BY <1>6
  <2> HIDE DEF n, ok
  <2>3. Puts(msg, n, ok)  BY <1>1, <1>4, <2>1, <2>2
  <2> QED  BY <1>1, <2>3
<1>7. CASE \E n \in Cuts : n < Len(w) /\ put(n, FALSE)
  <2>1. PICK n \in Cuts : n < Len(w) /\ put(n, FALSE)  BY <1>7
  <2>2. n \in 0 .. Len(w) /\ n # Len(w)  BY <1>2, <1>5, <2>1
  <2>3. Puts(msg, n, FALSE)  BY <1>1, <1>4, <2>1, <2>2
  <2> QED  BY <1>1, <2>3
<1> QED  BY <1>1, <1>6, <1>7

\* One call more.
LEMMA MoreCalls ==
    ASSUME NEW p, NEW calls \in CallsOf(p), NEW call \in [msg : MessagesOf(p), ok : BOOLEAN, hit : BOOLEAN]
    PROVE  LET more == Append(calls, call) IN
           /\ more \in CallsOf(p) /\ Len(calls) \in Nat /\ Len(more) = Len(calls) + 1
           /\ DOMAIN calls = 1 .. Len(calls) /\ DOMAIN more = 1 .. Len(calls) + 1
           /\ \A c \in DOMAIN calls : more[c] = calls[c] /\ c \in DOMAIN more
           /\ more[Len(calls) + 1] = call /\ Len(calls) + 1 \in DOMAIN more
           /\ SentOf(calls) \subseteq SentOf(more)
<1> DEFINE R == [msg : MessagesOf(p), ok : BOOLEAN, hit : BOOLEAN]
           more == Append(calls, call)
<1>1. calls \in Seq(R) /\ call \in R  BY DEF CallsOf
<1> HIDE DEF R
<1>2. /\ more \in Seq(R) /\ Len(calls) \in Nat /\ Len(more) = Len(calls) + 1
      /\ DOMAIN calls = 1 .. Len(calls) /\ DOMAIN more = 1 .. Len(calls) + 1
      /\ \A c \in 1 .. Len(calls) : more[c] = calls[c]
      /\ more[Len(calls) + 1] = call
  BY <1>1
<1>3. more \in CallsOf(p)  BY <1>2 DEF CallsOf, R
<1> HIDE DEF more
<1>4. DOMAIN calls \subseteq DOMAIN more /\ Len(calls) + 1 \in DOMAIN more  BY <1>2
<1>5. SentOf(calls) \subseteq SentOf(more)
  <2> SUFFICES ASSUME NEW x \in SentOf(calls)  PROVE x \in SentOf(more)
    OBVIOUS
  <2>1. x.call \in DOMAIN more  BY <1>4 DEF SentOf
  <2> QED  BY <2>1 DEF SentOf
<1> QED  BY <1>2, <1>3, <1>4, <1>5 DEF more

\* Noise hits a call: its record, and nothing else of it, changes.
Hit(calls, c) == [calls EXCEPT ![c].hit = TRUE]

LEMMA HitCalls ==
    ASSUME NEW p, NEW calls \in CallsOf(p), NEW c \in DOMAIN calls
    PROVE  LET now == Hit(calls, c) IN
           /\ now \in CallsOf(p) /\ Len(now) = Len(calls) /\ DOMAIN now = DOMAIN calls
           /\ \A d \in DOMAIN calls : now[d].msg = calls[d].msg /\ now[d].ok = calls[d].ok
           /\ \A d \in DOMAIN calls : now[d].hit = (d = c \/ calls[d].hit)
           /\ SentOf(now) = SentOf(calls)
<1> DEFINE R == [msg : MessagesOf(p), ok : BOOLEAN, hit : BOOLEAN]
           now == Hit(calls, c)
           k == Len(calls)
<1>1. calls \in Seq(R) /\ k \in Nat /\ DOMAIN calls = 1 .. k /\ calls \in [1 .. k -> R]
  <2>1. calls \in Seq(R)  BY DEF CallsOf
  <2> HIDE DEF R
  <2> QED  BY <2>1
<1>2. \A d \in 1 .. k : calls[d] \in R  BY <1>1
<1>3. now = [d \in 1 .. k |-> IF d = c THEN [calls[d] EXCEPT !.hit = TRUE] ELSE calls[d]]
  BY <1>1 DEF Hit
<1>4. \A r \in R : [r EXCEPT !.hit = TRUE] \in R
  OBVIOUS
<1>5. \A r \in R : /\ [r EXCEPT !.hit = TRUE].msg = r.msg /\ [r EXCEPT !.hit = TRUE].ok = r.ok
                   /\ [r EXCEPT !.hit = TRUE].hit = TRUE /\ r.hit \in BOOLEAN
  OBVIOUS
<1>6. \A d \in 1 .. k : now[d] = IF d = c THEN [calls[d] EXCEPT !.hit = TRUE] ELSE calls[d]  BY <1>3
<1>7. \A d \in 1 .. k : /\ now[d] \in R /\ now[d].msg = calls[d].msg /\ now[d].ok = calls[d].ok
                        /\ now[d].hit = (d = c \/ calls[d].hit)
  <2> TAKE d \in 1 .. k
  <2> DEFINE r == calls[d]
             x == [r EXCEPT !.hit = TRUE]
  <2>1. r \in R  BY <1>2
  <2>2. /\ x \in R /\ x.msg = r.msg /\ x.ok = r.ok /\ x.hit = TRUE /\ r.hit \in BOOLEAN  BY <1>4, <1>5, <2>1
  <2>3. now[d] = IF d = c THEN x ELSE r  BY <1>6
  <2> HIDE DEF now, x, r, R
  <2>4. CASE d = c  BY <2>2, <2>3, <2>4 DEF r
  <2>5. CASE d # c
    <3>1. now[d] = r  BY <2>3, <2>5
    <3> QED  BY <2>1, <2>2, <2>5, <3>1 DEF r
  <2> QED  BY <2>4, <2>5
<1>8. DOMAIN now = 1 .. k /\ now = [d \in 1 .. k |-> now[d]]  BY <1>3
<1> HIDE DEF R, now
<1>9. now \in Seq(R) /\ Len(now) = k  BY <1>1, <1>7, <1>8
<1>10. SentOf(now) = SentOf(calls)  BY <1>1, <1>8 DEF SentOf
<1>11. now \in CallsOf(p)  BY <1>9 DEF CallsOf, R
<1> QED  BY <1>1, <1>7, <1>8, <1>9, <1>10, <1>11 DEF now

\* Noise changes the byte at i.
Altered(s, i, b) == [s EXCEPT ![i].byte = b]

LEMMA NoiseIs ==
    ASSUME Typed, Noise
    PROVE  /\ \E i \in 1 .. Len(line) :
                /\ line[i].call \in DOMAIN sent /\ sent' = Hit(sent, line[i].call)
                /\ \/ \E b \in Byte : line' = Altered(line, i, b)
                   \/ line' = SubSeq(line, 1, i - 1) \o SubSeq(line, i + 1, Len(line))
           /\ noise' = noise + 1 /\ noise' \in 0 .. MaxNoise /\ noise' # 0
           /\ UNCHANGED <<proto, maxlen, id_count, rx_buffer, delivered>>
<1>1. PICK i \in DOMAIN line :
        /\ sent' = Hit(sent, line[i].call)
        /\ \/ \E b \in NoiseBytes \ {line[i].byte} : line' = Altered(line, i, b)
           \/ line' = RemoveAt(line, i)
  BY DEF Noise, Hit, Altered
<1>2. noise < MaxNoise /\ noise' = noise + 1 /\ UNCHANGED <<proto, maxlen, id_count, rx_buffer, delivered>>
  BY DEF Noise
<1>3. i \in 1 .. Len(line) /\ line \in Seq(SentOf(sent))  BY TypedParts
<1>4. line[i].call \in DOMAIN sent
  <2>1. line[i] \in SentOf(sent)  BY <1>3
  <2> QED  BY <2>1 DEF SentOf
<1>5. RemoveAt(line, i) = SubSeq(line, 1, i - 1) \o SubSeq(line, i + 1, Len(line))
  BY DEF RemoveAt
<1>6. NoiseBytes \subseteq Byte /\ MaxNoise \in Nat  BY FrameLinkAssumption
<1>7. noise \in 0 .. MaxNoise  BY TypedParts
<1>8. noise' \in 0 .. MaxNoise /\ noise' # 0  BY <1>2, <1>6, <1>7
<1> QED  BY <1>1, <1>2, <1>3, <1>4, <1>5, <1>6, <1>8

LEMMA LineIs ==
    ASSUME NEW calls, NEW s \in Seq(SentOf(calls)), NEW i \in 1 .. Len(s)
    PROVE  /\ LET t == SubSeq(s, 1, i - 1) \o SubSeq(s, i + 1, Len(s)) IN
              /\ t \in Seq(SentOf(calls)) /\ Len(t) = Len(s) - 1
              /\ \A k \in 1 .. Len(s) - 1 : t[k] = s[IF k < i THEN k ELSE k + 1]
           /\ \A b \in Byte : LET t == Altered(s, i, b) IN
              /\ t \in Seq(SentOf(calls)) /\ Len(t) = Len(s)
              /\ \A k \in 1 .. Len(s) : /\ t[k].call = s[k].call /\ t[k].pos = s[k].pos
                                        /\ k # i => t[k] = s[k]
<1> DEFINE S == SentOf(calls)
           n == Len(s)
<1>1. s \in Seq(S) /\ n \in Nat /\ DOMAIN s = 1 .. n /\ \A k \in 1 .. n : s[k] \in S
  <2>1. s \in Seq(S)  OBVIOUS
  <2> HIDE DEF S
  <2> QED  BY <2>1
<1> DEFINE a == SubSeq(s, 1, i - 1)
           z == SubSeq(s, i + 1, n)
           u == a \o z
<1>2. /\ u \in Seq(S) /\ Len(u) = n - 1
      /\ \A k \in 1 .. n - 1 : u[k] = s[IF k < i THEN k ELSE k + 1]
  <2> HIDE DEF S, n
  <2>1. a \in Seq(S) /\ Len(a) = i - 1 /\ \A k \in 1 .. i - 1 : a[k] = s[k]
    BY <1>1 DEF n
  <2>2. z \in Seq(S) /\ Len(z) = n - i /\ \A k \in 1 .. n - i : z[k] = s[k + i]
    <3> DEFINE q == i + 1
    <3>1. q \in 1 .. n + 1 /\ n = Len(s)  BY <1>1 DEF n
    <3> HIDE DEF q
    <3>2. /\ SubSeq(s, q, n) \in Seq(S) /\ Len(SubSeq(s, q, n)) = n - q + 1
          /\ \A k \in 1 .. Len(SubSeq(s, q, n)) : SubSeq(s, q, n)[k] = s[k + q - 1]
      BY <1>1, <3>1, SuffixIs
    <3>3. z = SubSeq(s, q, n)  BY DEF q
    <3>4. Len(z) = n - i
      <4>1. i \in 1 .. n  BY DEF n
      <4>2. n - q + 1 = n - i  BY <1>1, <4>1 DEF q
      <4> QED  BY <3>2, <3>3, <4>2
    <3>5. ASSUME NEW k \in 1 .. n - i  PROVE z[k] = s[k + i]
      <4>1. k + q - 1 = k + i  BY DEF q, n
      <4> QED  BY <3>2, <3>3, <3>4, <4>1
    <3> QED  BY <3>2, <3>3, <3>4, <3>5
  <2> HIDE DEF a, z
  <2>3. /\ u \in Seq(S) /\ Len(u) = Len(a) + Len(z)
        /\ \A k \in 1 .. Len(a) : u[k] = a[k]
        /\ \A k \in 1 .. Len(z) : u[Len(a) + k] = z[k]
    <3>1. a \in Seq(S)  BY <2>1
    <3>2. z \in Seq(S)  BY <2>2
    <3> QED  BY <3>1, <3>2, Joined
  <2> HIDE DEF u
  <2>4. Len(u) = n - 1  BY <1>1, <2>1, <2>2, <2>3 DEF n
  <2>5. ASSUME NEW k \in 1 .. n - 1  PROVE u[k] = s[IF k < i THEN k ELSE k + 1]
    <3>1. CASE k < i
      <4>1. k \in 1 .. i - 1  BY <3>1
      <4> QED  BY <2>1, <2>3, <3>1, <4>1
    <3>2. CASE ~ (k < i)
      <4> DEFINE j == k - (i - 1)
      <4>1. j \in 1 .. n - i /\ Len(a) + j = k /\ j + i = k + 1  BY <1>1, <2>1, <3>2 DEF n
      <4> HIDE DEF j
      <4>2. u[k] = s[k + 1]  BY <2>2, <2>3, <4>1
      <4> QED  BY <3>2, <4>2
    <3> QED  BY <3>1, <3>2
  <2> QED  BY <2>3, <2>4, <2>5
<1>3. ASSUME NEW b \in Byte
      PROVE  LET t == Altered(s, i, b) IN
             /\ t \in Seq(S) /\ Len(t) = n
             /\ \A k \in 1 .. n : /\ t[k].call = s[k].call /\ t[k].pos = s[k].pos
                                  /\ k # i => t[k] = s[k]
  <2> DEFINE t == Altered(s, i, b)
             x == [s[i] EXCEPT !.byte = b]
  <2>1. t = [k \in 1 .. n |-> IF k = i THEN x ELSE s[k]]  BY <1>1 DEF Altered
  <2>2. s[i] \in SentOf(calls)  BY <1>1
  <2>3. x \in S /\ x.call = s[i].call /\ x.pos = s[i].pos
    <3> DEFINE r == s[i]
    <3>1. r \in [byte : Byte, call : DOMAIN calls, pos : Nat \ {0}]  BY <2>2 DEF SentOf
    <3> HIDE DEF r
    <3>2. /\ [r EXCEPT !.byte = b] \in [byte : Byte, call : DOMAIN calls, pos : Nat \ {0}]
          /\ [r EXCEPT !.byte = b].call = r.call /\ [r EXCEPT !.byte = b].pos = r.pos
      BY <3>1
    <3> QED  BY <3>2 DEF SentOf, r
  <2> HIDE DEF S, x, n, t
  <2>4. \A k \in 1 .. n : t[k] = IF k = i THEN x ELSE s[k]  BY <2>1
  <2>5. t \in Seq(S) /\ Len(t) = n
    <3>1. \A k \in 1 .. n : t[k] \in S  BY <1>1, <2>3, <2>4
    <3>2. t \in [1 .. n -> S]  BY <2>1, <3>1
    <3> QED  BY <1>1, <3>2
  <2> QED  BY <2>3, <2>4, <2>5 DEF t
<1> HIDE DEF S, n, u
<1> QED  BY <1>2, <1>3 DEF S, n, u

LEMMA TypedWhen ==
    ASSUME proto' \in UsedProtos, maxlen' \in MaxLens, id_count' \in 0 .. RangeOf(proto') - 1,
           sent' \in CallsOf(proto'), Len(sent') <= MaxSent,
           rx_buffer' \in Seq(SentOf(sent')), Len(rx_buffer') <= maxlen', line' \in Seq(SentOf(sent')),
           delivered' \in Seq(Range(delivered')), noise' \in 0 .. MaxNoise,
           \A i \in 1 .. Len(delivered') : delivered'[i].call \in DOMAIN sent'
    PROVE  Typed'
<1>1. IdRange' = RangeOf(proto')  BY DEF IdRange, RangeOf
<1>2. Messages' = MessagesOf(proto')  BY <1>1 DEF Messages, MessagesOf, Destinations
<1>3. Sent' = SentOf(sent')  BY DEF Sent, SentOf
<1>4. sent' \in Seq([msg : Messages', ok : BOOLEAN, hit : BOOLEAN])  BY <1>2 DEF CallsOf
<1>5. id_count' \in 0 .. IdRange' - 1  BY <1>1
<1>6. \A i \in DOMAIN delivered' : delivered'[i].call \in DOMAIN sent'
  <2>1. DOMAIN delivered' = 1 .. Len(delivered')  OBVIOUS
  <2> QED  BY <2>1
<1> QED  BY <1>3, <1>4, <1>5, <1>6 DEF Typed, TypeOK

LEMMA InitTyped == Init => Typed
<1> SUFFICES ASSUME Init  PROVE Typed
  OBVIOUS
<1>1. id_count \in 0 .. IdRange - 1
  <2>1. IdRange \in Nat  BY DEF IdRange
  <2>2. id_count \in Nat /\ id_count < IdRange  BY FrameLinkAssumption DEF Init
  <2> QED  BY <2>1, <2>2
<1>2. proto \in UsedProtos /\ maxlen \in MaxLens /\ maxlen \in Nat /\ noise = 0 /\ MaxNoise \in Nat /\ MaxSent \in Nat
  BY FrameLinkAssumption DEF Init
<1>3. rx_buffer = <<>> /\ line = <<>> /\ sent = <<>> /\ delivered = <<>>  BY DEF Init
<1>4. \A S : <<>> \in Seq(S)  OBVIOUS
<1>5. Len(<<>>) = 0 /\ DOMAIN <<>> = {}  OBVIOUS
<1> QED  BY <1>1, <1>2, <1>3, <1>4, <1>5 DEF Typed, TypeOK

LEMMA TypedSend ==
    ASSUME Typed, NEW msg \in MessagesOf(proto), Send(msg), id_count' \in 0 .. RangeOf(proto) - 1
    PROVE  Typed'
<1> USE TypedParts
<1>1. PICK n, ok : Puts(msg, n, ok)  BY SendIs
<1>2. Len(sent) < MaxSent /\ UNCHANGED <<proto, maxlen, rx_buffer, delivered, noise>>  BY SendIs
<1> DEFINE w == Written(proto, OtherAddr, msg)
           call == [msg |-> msg, ok |-> ok, hit |-> FALSE]
           more == Append(sent, call)
           put == Put(w, Len(sent) + 1, n)
<1>3. w \in Seq(Byte)  BY WroteIs
<1>4. n \in 0 .. Len(w) /\ ok \in BOOLEAN /\ line' = line \o put /\ sent' = more  BY <1>1 DEF Puts
<1>5. call \in [msg : MessagesOf(proto), ok : BOOLEAN, hit : BOOLEAN]  BY <1>4
<1> HIDE DEF w, call
<1>6. /\ more \in CallsOf(proto) /\ Len(more) = Len(sent) + 1
      /\ \A c \in DOMAIN sent : c \in DOMAIN more
      /\ Len(sent) + 1 \in DOMAIN more /\ SentOf(sent) \subseteq SentOf(more)
  BY <1>5, MoreCalls, SMTT(30)
<1> HIDE DEF more
<1>7. Len(more) <= MaxSent /\ Len(more) \in Nat  BY <1>2, <1>6, FrameLinkAssumption
<1> DEFINE c == Len(sent) + 1
           S == SentOf(more)
<1>8. put \in Seq(S)
  <2>1. c \in DOMAIN more  BY <1>6
  <2>2. put = Put(w, c, n)  OBVIOUS
  <2> HIDE DEF c, put
  <2> QED  BY <1>3, <1>4, <1>7, <2>1, <2>2, PutIs
<1>9. rx_buffer \in Seq(S) /\ line \in Seq(S)
  <2>1. rx_buffer \in Seq(SentOf(sent)) /\ line \in Seq(SentOf(sent)) /\ SentOf(sent) \subseteq S  BY <1>6
  <2> HIDE DEF S
  <2> QED  BY <2>1
<1>10. line \o put \in Seq(S)
  <2> HIDE DEF S, put
  <2> QED  BY <1>8, <1>9
<1>11. \A i \in 1 .. Len(delivered) : delivered[i].call \in DOMAIN more  BY <1>6
<1> HIDE DEF put
<1> QED  BY <1>2, <1>4, <1>6, <1>7, <1>9, <1>10, <1>11, TypedWhen

LEMMA CmdIs ==
    ASSUME Typed, Cmd
    PROVE  /\ \E msg \in MessagesOf(proto) : Send(msg)
           /\ id_count' \in 0 .. RangeOf(proto) - 1
<1>1. PICK dst \in Destinations, t \in Types, b \in Bodies :
        Send([dst |-> dst, type |-> t, id |-> id_count, body |-> b])
  BY DEF Cmd
<1>2. id_count' = (id_count + 1) % IdRange  BY DEF Cmd
<1> DEFINE r == RangeOf(proto)
<1>3. r \in Nat /\ r >= 256 /\ id_count \in 0 .. r - 1 /\ IdRange = r  BY TypedParts DEF RangeOf
<1>4. MessagesOf(proto) = [dst : Destinations, type : 0 .. r - 1, id : 0 .. r - 1, body : Bodies]
  BY DEF MessagesOf, Destinations
<1>5. t \in Nat /\ t <= (IF proto = "hdlc" THEN 63 ELSE 16383)
  <2> DEFINE m == IF proto = "hdlc" THEN 63 ELSE 16383
  <2>1. Types \subseteq 0 .. m  BY TypedParts, FrameLinkAssumption
  <2>2. m \in Nat  OBVIOUS
  <2> HIDE DEF m
  <2>3. t \in Nat /\ t <= m  BY <2>1, <2>2
  <2> QED  BY <2>3 DEF m
<1>6. t <= r - 1  BY <1>5 DEF RangeOf
<1> HIDE DEF r
<1>7. t \in 0 .. r - 1  BY <1>3, <1>5, <1>6
<1>8. [dst |-> dst, type |-> t, id |-> id_count, body |-> b] \in MessagesOf(proto)
  BY <1>3, <1>4, <1>7
<1>9. id_count' \in 0 .. r - 1  BY <1>2, <1>3
<1> QED  BY <1>1, <1>8, <1>9 DEF r

LEMMA AckIs ==
    ASSUME Typed, Ack
    PROVE  /\ \E msg \in MessagesOf(proto) : Send(msg)
           /\ id_count' \in 0 .. RangeOf(proto) - 1
<1>1. PICK t \in Types, a \in Acks, b \in Bodies, id \in AckIds :
         /\ id < IdRange
         /\ Send([dst |-> Addr, type |-> t + AckBit(a), id |-> id, body |-> b])
  BY DEF Ack
<1>2. id_count' = id_count  BY DEF Ack
<1> DEFINE r == RangeOf(proto)
           type == t + AckBit(a)
<1>3. r \in Nat /\ r >= 256 /\ id_count \in 0 .. r - 1 /\ IdRange = r  BY TypedParts DEF RangeOf
<1>4. MessagesOf(proto) = [dst : Destinations, type : 0 .. r - 1, id : 0 .. r - 1, body : Bodies]
  BY DEF MessagesOf, Destinations
<1>5. t \in Nat /\ t <= (IF proto = "hdlc" THEN 63 ELSE 16383)
  <2> DEFINE m == IF proto = "hdlc" THEN 63 ELSE 16383
  <2>1. Types \subseteq 0 .. m  BY TypedParts, FrameLinkAssumption
  <2>2. m \in Nat  OBVIOUS
  <2> HIDE DEF m
  <2>3. t \in Nat /\ t <= m  BY <2>1, <2>2
  <2> QED  BY <2>3 DEF m
<1>6. a = 1 \/ a = 2  BY FrameLinkAssumption
<1>7. type \in Nat /\ type <= r - 1  BY <1>5, <1>6 DEF AckBit, RangeOf
<1> HIDE DEF r, type
<1>8. type \in 0 .. r - 1  BY <1>3, <1>7
<1>9. id \in 0 .. r - 1
  <2>1. id \in Nat  BY FrameLinkAssumption
  <2> QED  BY <1>1, <1>3, <2>1
<1>10. Addr \in Destinations  BY DEF Destinations
<1>11. [dst |-> Addr, type |-> type, id |-> id, body |-> b] \in MessagesOf(proto)
  BY <1>4, <1>8, <1>9, <1>10
<1>12. Send([dst |-> Addr, type |-> type, id |-> id, body |-> b])  BY <1>1 DEF type
<1> QED  BY <1>2, <1>3, <1>11, <1>12 DEF r

\* What is delivered, with what a pass adds to it.
LEMMA MoreDelivered ==
    ASSUME NEW d, d \in Seq(Range(d)), NEW V, NEW t \in Seq(V)
    PROVE  LET u == d \o t IN
           /\ Len(d) \in Nat /\ Len(t) \in Nat
           /\ u \in Seq(Range(u)) /\ Len(u) = Len(d) + Len(t)
           /\ \A i \in 1 .. Len(d) : u[i] = d[i] /\ i \in 1 .. Len(u)
           /\ \A i \in 1 .. Len(t) : u[Len(d) + i] = t[i] /\ Len(d) + i \in 1 .. Len(u)
           /\ \A i \in 1 .. Len(u) : i \in 1 .. Len(d) \/ i - Len(d) \in 1 .. Len(t)
<1> DEFINE X == Range(d) \cup V
           u == d \o t
<1>1. d \in Seq(X) /\ t \in Seq(X)  OBVIOUS
<1> HIDE DEF X
<1>2. /\ Len(d) \in Nat /\ Len(t) \in Nat
      /\ u \in Seq(X) /\ Len(u) = Len(d) + Len(t)
      /\ \A i \in 1 .. Len(d) : u[i] = d[i]
      /\ \A i \in 1 .. Len(t) : u[Len(d) + i] = t[i]
  <2>1. d \in Seq(X)  BY <1>1
  <2>2. t \in Seq(X)  BY <1>1
  <2> QED  BY <2>1, <2>2, Joined
<1> HIDE DEF u
<1>3. u \in Seq(Range(u))
  <2>1. DOMAIN u = 1 .. Len(u) /\ u = [i \in 1 .. Len(u) |-> u[i]] /\ Len(u) \in Nat  BY <1>2
  <2>2. \A i \in 1 .. Len(u) : u[i] \in Range(u)  BY <2>1 DEF Range
  <2>3. u \in [1 .. Len(u) -> Range(u)]  BY <2>1, <2>2
  <2> QED  BY <2>1, <2>3
<1>4. \A i \in 1 .. Len(d) : i \in 1 .. Len(u)  BY <1>2
<1>5. \A i \in 1 .. Len(t) : Len(d) + i \in 1 .. Len(u)  BY <1>2
<1>6. \A i \in 1 .. Len(u) : i \in 1 .. Len(d) \/ i - Len(d) \in 1 .. Len(t)  BY <1>2
<1> QED  BY <1>2, <1>3, <1>4, <1>5, <1>6 DEF u

LEMMA IndicatedCalls ==
    ASSUME NEW calls, NEW s \in Seq(SentOf(calls))
    PROVE  /\ Indicated(s) \in Seq({Entry(s, e) : e \in Good(s)}) /\ Len(Indicated(s)) \in Nat
           /\ \A i \in 1 .. Len(Indicated(s)) : Indicated(s)[i].call \in DOMAIN calls
<1> DEFINE d == Indicated(s)
           V == {Entry(s, e) : e \in Good(s)}
<1>1. PICK k, e : Picks(s, Len(s), d, k, e)  BY IndicatedIs
<1>2. k \in Nat /\ e \in [1 .. k -> Good(s)] /\ d = [j \in 1 .. k |-> Entry(s, e[j])]
  BY <1>1 DEF Picks
<1>3. d \in Seq(V) /\ Len(d) = k  BY <1>2
<1>4. ASSUME NEW i \in 1 .. k  PROVE d[i].call \in DOMAIN calls
  <2>1. e[i] \in Good(s) /\ d[i] = Entry(s, e[i])  BY <1>2
  <2>2. e[i] \in 1 .. Len(s)  BY <2>1, GoodType
  <2>3. s[e[i]] \in SentOf(calls)  BY <2>2
  <2>4. s[e[i]].call \in DOMAIN calls  BY <2>3 DEF SentOf
  <2>5. Entry(s, e[i]).call = s[e[i]].call  BY DEF Entry
  <2> QED  BY <2>1, <2>4, <2>5
<1> HIDE DEF d, V
<1> QED  BY <1>2, <1>3, <1>4 DEF d, V

LEMMA TypedNoise ==
    ASSUME Typed, Noise
    PROVE  Typed'
<1> USE TypedParts
<1>1. /\ noise' \in 0 .. MaxNoise
      /\ UNCHANGED <<proto, maxlen, id_count, rx_buffer, delivered>>
  BY NoiseIs
<1>2. PICK i \in 1 .. Len(line) :
        /\ line[i].call \in DOMAIN sent /\ sent' = Hit(sent, line[i].call)
        /\ \/ \E b \in Byte : line' = Altered(line, i, b)
           \/ line' = SubSeq(line, 1, i - 1) \o SubSeq(line, i + 1, Len(line))
  BY NoiseIs
<1>3. sent' \in CallsOf(proto) /\ Len(sent') = Len(sent) /\ DOMAIN sent' = DOMAIN sent /\ SentOf(sent') = SentOf(sent)
  BY <1>2, HitCalls
<1>4. line' \in Seq(SentOf(sent))
  <2>1. CASE \E b \in Byte : line' = Altered(line, i, b)  BY <2>1, LineIs
  <2>2. CASE line' = SubSeq(line, 1, i - 1) \o SubSeq(line, i + 1, Len(line))
    <3> DEFINE t == SubSeq(line, 1, i - 1) \o SubSeq(line, i + 1, Len(line))
    <3>1. t \in Seq(SentOf(sent))  BY LineIs
    <3> HIDE DEF t
    <3>2. line' = t  BY <2>2 DEF t
    <3> QED  BY <3>1, <3>2
  <2> QED  BY <1>2, <2>1, <2>2
<1> QED  BY <1>1, <1>3, <1>4, TypedWhen

LEMMA TypedAccept ==
    ASSUME Typed, NEW n \in Chunks, Accept(n)
    PROVE  Typed'
<1> USE TypedParts
<1> DEFINE S == SentOf(sent)
           g == Got(n)
<1>1. n \in Nat /\ n <= maxlen  BY FrameLinkAssumption
<1>2. /\ rx_buffer' \in Seq(S) /\ line' \in Seq(S) /\ Len(rx_buffer') = Len(g) - From(n) + 1
      /\ delivered' = delivered \/ delivered' = delivered \o Indicated(g)
      /\ UNCHANGED <<proto, maxlen, id_count, sent, noise>> /\ Taken(n) > 0
  BY <1>1, AcceptIs
<1>3. /\ Len(g) = Len(Kept(n)) + Taken(n) /\ Taken(n) \in 1 .. Len(line) /\ Taken(n) <= n /\ Len(g) \in Nat
      /\ From(n) \in 1 .. Len(g) + 1 /\ g \in Seq(S)
  BY <1>1, <1>2, GotIs
<1>4. Len(g) <= maxlen
  <2>1. Len(Kept(n)) = 0 \/ (Kept(n) = rx_buffer /\ ~ (Len(rx_buffer) + n > maxlen))  BY DEF Kept
  <2> HIDE DEF g
  <2>2. maxlen \in Nat /\ Len(rx_buffer) \in Nat  OBVIOUS
  <2>3. Taken(n) \in Nat /\ Len(g) = Len(Kept(n)) + Taken(n) /\ Taken(n) <= n  BY <1>3
  <2>4. CASE Len(Kept(n)) = 0  BY <1>1, <2>2, <2>3, <2>4
  <2>5. CASE Kept(n) = rx_buffer /\ ~ (Len(rx_buffer) + n > maxlen)
    BY <1>1, <2>2, <2>3, <2>5
  <2> QED  BY <2>1, <2>4, <2>5
<1>5. Len(rx_buffer') <= maxlen
  <2> HIDE DEF g
  <2> QED  BY <1>2, <1>3, <1>4, SMTT(30)
<1> DEFINE d == Indicated(g)
           V == {Entry(g, e) : e \in Good(g)}
<1>6. d \in Seq(V) /\ Len(d) \in Nat /\ \A i \in 1 .. Len(d) : d[i].call \in DOMAIN sent
  BY <1>3, IndicatedCalls
<1>7. /\ delivered' \in Seq(Range(delivered'))
      /\ \A i \in 1 .. Len(delivered') : delivered'[i].call \in DOMAIN sent
  <2> HIDE DEF d, V
  <2>1. CASE delivered' = delivered  BY <2>1
  <2>2. CASE delivered' = delivered \o d
    <3> DEFINE u == delivered \o d
    <3>1. /\ u \in Seq(Range(u)) /\ Len(u) = Len(delivered) + Len(d)
          /\ \A i \in 1 .. Len(delivered) : u[i] = delivered[i] /\ i \in 1 .. Len(u)
          /\ \A i \in 1 .. Len(d) : u[Len(delivered) + i] = d[i] /\ Len(delivered) + i \in 1 .. Len(u)
          /\ \A i \in 1 .. Len(u) : i \in 1 .. Len(delivered) \/ i - Len(delivered) \in 1 .. Len(d)
      BY <1>6, MoreDelivered
    <3> HIDE DEF u
    <3>2. ASSUME NEW i \in 1 .. Len(u)  PROVE u[i].call \in DOMAIN sent
      <4>1. CASE i \in 1 .. Len(delivered)  BY <3>1, <4>1
      <4>2. CASE i - Len(delivered) \in 1 .. Len(d)
        <5> DEFINE j == i - Len(delivered)
        <5>1. Len(delivered) + j = i /\ j \in 1 .. Len(d)  BY <3>1, <4>2
        <5> HIDE DEF j
        <5>2. u[i] = d[j]  BY <3>1, <5>1
        <5> QED  BY <1>6, <5>1, <5>2
      <4> QED  BY <3>1, <4>1, <4>2
    <3> QED  BY <2>2, <3>1, <3>2 DEF u
  <2> QED  BY <1>2, <2>1, <2>2 DEF d
<1> HIDE DEF g, d, V
<1> QED  BY <1>2, <1>5, <1>7, TypedWhen

LEMMA NextTyped ==
    ASSUME Typed, [Next]_vars
    PROVE  Typed'
<1>1. CASE Cmd  BY <1>1, CmdIs, TypedSend
<1>2. CASE Ack  BY <1>2, AckIs, TypedSend
<1>3. CASE Noise  BY <1>3, TypedNoise
<1>4. CASE \E n \in Chunks : Accept(n)  BY <1>4, TypedAccept
<1>5. CASE UNCHANGED vars
  <2>1. Typed' <=> Typed
    BY <1>5 DEF vars, Typed, TypeOK, Sent, Messages, Destinations, IdRange
  <2> QED  BY <2>1
<1> QED  BY <1>1, <1>2, <1>3, <1>4, <1>5 DEF Next

LEMMA AlwaysTyped == Spec => []Typed
<1>1. Init => Typed  BY InitTyped
<1>2. Typed /\ [Next]_vars => Typed'  BY NextTyped
<1> QED  BY <1>1, <1>2, PTL DEF Spec

(***************************************************************************)
(* Ids and types stay in their fields, the buffer never overflows, and     *)
(* rx_indicate is called for bytes of calls that were made, for every      *)
(* noise, every set of bodies and every size of the buffer.                *)
(***************************************************************************)
THEOREM TypeCorrect == Spec => []TypeOK
<1>1. Typed => TypeOK  BY DEF Typed
<1> QED  BY <1>1, AlwaysTyped, PTL
---------------------------------------------------------------------------
(***************************************************************************)
(* The bytes between the two ends are tidy, whatever noise does.           *)
(***************************************************************************)
LEMMA TidyPrefix ==
    ASSUME NEW p, NEW calls, NEW s, Tidy(p, calls, s), NEW n \in 0 .. Len(s)
    PROVE  Tidy(p, calls, SubSeq(s, 1, n))
<1> DEFINE t == SubSeq(s, 1, n)
<1>1. /\ p \in Protos /\ calls \in CallsOf(p) /\ s \in Seq(SentOf(calls))
      /\ \A k \in 1 .. Len(s) : Tagged(p, calls, s[k])
      /\ \A k, l \in 1 .. Len(s) : k < l => Before(calls, s[k], s[l], l - k)
  BY DEF Tidy
<1>2. /\ t \in Seq(SentOf(calls)) /\ Len(t) = n
      /\ \A k \in 1 .. n : t[k] = s[k] /\ k \in 1 .. Len(s)
  <2> DEFINE S == SentOf(calls)
  <2>1. s \in Seq(S)  BY <1>1
  <2> HIDE DEF S
  <2>2. t \in Seq(S) /\ Len(t) = n /\ \A k \in 1 .. n : t[k] = s[k] /\ k \in 1 .. Len(s)  BY <2>1
  <2> QED  BY <2>2 DEF S
<1> HIDE DEF t
<1>3. Tidy(p, calls, t)  BY <1>1, <1>2 DEF Tidy
<1> QED  BY <1>3 DEF t

LEMMA TidyPut ==
    ASSUME NEW p, NEW calls, NEW s, Tidy(p, calls, s),
           NEW call \in [msg : MessagesOf(p), ok : BOOLEAN, hit : BOOLEAN], ~call.hit,
           NEW w, w = Written(p, OtherAddr, call.msg), NEW n \in 0 .. Len(w),
           n = Len(w) /\ n # 0 => call.ok
    PROVE  Tidy(p, Append(calls, call), s \o Put(w, Len(calls) + 1, n))
<1> DEFINE more == Append(calls, call)
           c == Len(calls) + 1
           t == Put(w, c, n)
           u == s \o t
           m == Len(s)
<1>1. /\ p \in Protos /\ calls \in CallsOf(p) /\ s \in Seq(SentOf(calls))
      /\ \A k \in 1 .. Len(s) : Tagged(p, calls, s[k])
      /\ \A k, l \in 1 .. Len(s) : k < l => Before(calls, s[k], s[l], l - k)
  BY DEF Tidy
<1>2. call.msg \in MessagesOf(p)  OBVIOUS
<1>3. w \in Seq(Byte) /\ Len(w) \in Nat  BY <1>1, <1>2, WroteIs
<1>4. /\ more \in CallsOf(p) /\ Len(calls) \in Nat /\ Len(more) = Len(calls) + 1
      /\ DOMAIN calls = 1 .. Len(calls) /\ DOMAIN more = 1 .. Len(calls) + 1
      /\ \A d \in DOMAIN calls : more[d] = calls[d] /\ d \in DOMAIN more
      /\ more[Len(calls) + 1] = call /\ Len(calls) + 1 \in DOMAIN more
      /\ SentOf(calls) \subseteq SentOf(more)
  BY <1>1, MoreCalls
<1> HIDE DEF more
<1>5. c \in DOMAIN more /\ Len(more) \in Nat /\ more[c] = call  BY <1>4
<1> DEFINE S == SentOf(more)
<1>6. t \in Seq(S) /\ Len(t) = n /\ \A i \in 1 .. n : t[i] = [byte |-> w[i], call |-> c, pos |-> i]
  <2>1. t = Put(w, c, n)  OBVIOUS
  <2> HIDE DEF c, t
  <2> QED  BY <1>3, <1>5, <2>1, PutIs, SMTT(30)
<1>7. s \in Seq(S)
  <2> DEFINE R == SentOf(calls)
  <2>1. s \in Seq(R) /\ R \subseteq S  BY <1>1, <1>4
  <2> HIDE DEF R, S
  <2> QED  BY <2>1
<1> HIDE DEF t, S
<1>8. /\ m \in Nat /\ n \in Nat
      /\ u \in Seq(S) /\ Len(u) = m + n
      /\ \A k \in 1 .. m : u[k] = s[k]
      /\ \A i \in 1 .. n : u[m + i] = t[i]
  <2>1. t \in Seq(S)  BY <1>6
  <2>2. /\ Len(s) \in Nat /\ Len(t) \in Nat
        /\ s \o t \in Seq(S) /\ Len(s \o t) = Len(s) + Len(t)
        /\ \A i \in 1 .. Len(s) : (s \o t)[i] = s[i]
        /\ \A i \in 1 .. Len(t) : (s \o t)[Len(s) + i] = t[i]
    BY <1>7, <2>1, Joined
  <2> QED  BY <1>6, <2>2
<1>9. Wrote(p, more, c) = w /\ \A d \in DOMAIN calls : Wrote(p, more, d) = Wrote(p, calls, d)
  BY <1>4, <1>5 DEF Wrote
<1>10. \A k \in 1 .. m : s[k].call \in DOMAIN calls /\ s[k].call \in Nat /\ s[k].call < c
  <2> TAKE k \in 1 .. m
  <2>1. s[k].call \in DOMAIN calls  BY TidyParts
  <2> QED  BY <1>4, <2>1
<1> HIDE DEF u, m
<1>11. \A k \in 1 .. m + n : k \in 1 .. m \/ \E i \in 1 .. n : k = m + i
  <2> TAKE k \in 1 .. m + n
  <2> DEFINE i == k - m
  <2>1. k \in 1 .. m \/ (i \in 1 .. n /\ k = m + i)  BY <1>8
  <2> QED  BY <2>1
<1>12. c \in Nat  BY <1>4
<1> HIDE DEF c
<1>13. \A i \in 1 .. n : u[m + i].byte = w[i] /\ u[m + i].call = c /\ u[m + i].pos = i
  BY <1>6, <1>8
<1>14. ASSUME NEW k \in 1 .. m + n  PROVE Tagged(p, more, u[k])
  <2>1. CASE k \in 1 .. m
    <3>1. u[k] = s[k] /\ Tagged(p, calls, s[k])  BY <1>1, <1>8, <2>1 DEF m
    <3>2. more[s[k].call] = calls[s[k].call] /\ Wrote(p, more, s[k].call) = Wrote(p, calls, s[k].call)
      BY <1>4, <1>9, <1>10, <2>1
    <3> QED  BY <3>1, <3>2 DEF Tagged
  <2>2. ASSUME NEW i \in 1 .. n, k = m + i  PROVE Tagged(p, more, u[k])
    <3>1. u[k].byte = w[i] /\ u[k].call = c /\ u[k].pos = i  BY <1>13, <2>2
    <3>2. i <= Len(w) /\ (i = Len(w) => call.ok)  BY <1>3, <1>8
    <3> QED  BY <1>5, <1>9, <3>1, <3>2 DEF Tagged
  <2> QED  BY <1>11, <2>1, <2>2
<1>15. ASSUME NEW k \in 1 .. m + n, NEW l \in 1 .. m + n, k < l
       PROVE  Before(more, u[k], u[l], l - k)
  <2>1. CASE l \in 1 .. m
    <3>1. k \in 1 .. m  BY <1>8, <1>15, <2>1
    <3>2. u[k] = s[k] /\ u[l] = s[l] /\ Before(calls, s[k], s[l], l - k)
      BY <1>1, <1>8, <1>15, <2>1, <3>1 DEF m
    <3>3. more[s[l].call] = calls[s[l].call]  BY <1>4, <1>10, <2>1
    <3> QED  BY <3>2, <3>3 DEF Before
  <2>2. ASSUME NEW j \in 1 .. n, l = m + j  PROVE Before(more, u[k], u[l], l - k)
    <3>1. u[l].call = c /\ u[l].pos = j /\ j \in Nat  BY <1>13, <2>2
    <3>2. CASE k \in 1 .. m
      <4>1. u[k].call < c /\ u[k].call \in Nat  BY <1>8, <1>10, <3>2
      <4>2. ~ (l - k < j)  BY <1>8, <2>2, <3>2
      <4> QED  BY <1>12, <3>1, <4>1, <4>2 DEF Before
    <3>3. ASSUME NEW i \in 1 .. n, k = m + i  PROVE Before(more, u[k], u[l], l - k)
      <4>1. u[k].call = c /\ u[k].pos = i  BY <1>13, <3>3
      <4>2. l - k = j - i /\ l - k < j /\ i = j - (l - k)  BY <1>8, <2>2, <3>3
      <4> QED  BY <1>12, <3>1, <4>1, <4>2 DEF Before
    <3> QED  BY <1>11, <3>2, <3>3
  <2> QED  BY <1>11, <2>1, <2>2
<1>16. Tidy(p, more, u)  BY <1>1, <1>4, <1>8, <1>14, <1>15 DEF Tidy, S
<1> QED  BY <1>16 DEF u, t, c, more

\* A byte of the call at m changes, or is lost.
LEMMA TidyHit ==
    ASSUME NEW p, NEW calls, NEW s, Tidy(p, calls, s), NEW m \in 1 .. Len(s),
           NEW t \in Seq(SentOf(calls)),
           \/ /\ Len(t) = Len(s)
              /\ \A k \in 1 .. Len(s) : /\ t[k].call = s[k].call /\ t[k].pos = s[k].pos
                                        /\ k # m => t[k] = s[k]
           \/ /\ Len(t) = Len(s) - 1
              /\ \A k \in 1 .. Len(s) - 1 : t[k] = s[IF k < m THEN k ELSE k + 1]
    PROVE  Tidy(p, Hit(calls, s[m].call), t)
<1> DEFINE c == s[m].call
           now == Hit(calls, c)
           n == Len(s)
<1>1. /\ p \in Protos /\ calls \in CallsOf(p) /\ s \in Seq(SentOf(calls)) /\ n \in Nat
      /\ \A k \in 1 .. Len(s) : Tagged(p, calls, s[k])
      /\ \A k, l \in 1 .. Len(s) : k < l => Before(calls, s[k], s[l], l - k)
  BY DEF Tidy
<1>2. c \in DOMAIN calls  BY TidyParts
<1> HIDE DEF c
<1>3. /\ now \in CallsOf(p) /\ DOMAIN now = DOMAIN calls
      /\ \A d \in DOMAIN calls : now[d].msg = calls[d].msg /\ now[d].ok = calls[d].ok
      /\ \A d \in DOMAIN calls : now[d].hit = (d = c \/ calls[d].hit)
      /\ SentOf(now) = SentOf(calls)
  BY <1>1, <1>2, HitCalls
<1> HIDE DEF now
<1>4. ASSUME NEW k \in 1 .. n
      PROVE  /\ s[k].call \in DOMAIN calls /\ s[k].call \in Nat /\ s[k].pos \in Nat
             /\ now[s[k].call].hit = (s[k].call = c \/ calls[s[k].call].hit)
             /\ Tagged(p, now, s[k])
  <2>1. s[k].call \in DOMAIN calls /\ s[k].call \in Nat /\ s[k].pos \in Nat  BY TidyParts
  <2>2. now[s[k].call].hit = (s[k].call = c \/ calls[s[k].call].hit)  BY <1>3, <2>1
  <2>3. Tagged(p, calls, s[k])  BY <1>1
  <2>4. Wrote(p, now, s[k].call) = Wrote(p, calls, s[k].call) /\ now[s[k].call].ok = calls[s[k].call].ok
    BY <1>3, <2>1 DEF Wrote
  <2>5. Tagged(p, now, s[k])  BY <2>2, <2>3, <2>4 DEF Tagged
  <2> QED  BY <2>1, <2>2, <2>5
<1>5. ASSUME NEW k \in 1 .. n, NEW l \in 1 .. n, k < l  PROVE Before(now, s[k], s[l], l - k)
  <2>1. Before(calls, s[k], s[l], l - k)  BY <1>1, <1>5
  <2>2. ~now[s[l].call].hit => ~calls[s[l].call].hit  BY <1>4
  <2> QED  BY <2>1, <2>2 DEF Before
<1>6. CASE /\ Len(t) = Len(s)
           /\ \A k \in 1 .. Len(s) : /\ t[k].call = s[k].call /\ t[k].pos = s[k].pos
                                     /\ k # m => t[k] = s[k]
  <2>1. ASSUME NEW k \in 1 .. n  PROVE Tagged(p, now, t[k])
    <3>1. CASE k = m
      <4>1. t[k].call = c  BY <1>6, <3>1 DEF c
      <4>2. now[c].hit  BY <1>2, <1>3
      <4> QED  BY <4>1, <4>2 DEF Tagged
    <3>2. CASE k # m
      <4>1. t[k] = s[k]  BY <1>6, <3>2
      <4> QED  BY <1>4, <4>1
    <3> QED  BY <3>1, <3>2
  <2>2. ASSUME NEW k \in 1 .. n, NEW l \in 1 .. n, k < l  PROVE Before(now, t[k], t[l], l - k)
    <3>1. t[k].call = s[k].call /\ t[k].pos = s[k].pos /\ t[l].call = s[l].call /\ t[l].pos = s[l].pos
      BY <1>6
    <3>2. Before(now, s[k], s[l], l - k)  BY <1>5, <2>2
    <3> QED  BY <3>1, <3>2 DEF Before
  <2>3. Tidy(p, now, t)  BY <1>1, <1>3, <1>6, <2>1, <2>2 DEF Tidy
  <2> QED  BY <2>3 DEF now, c
<1>7. CASE /\ Len(t) = Len(s) - 1
           /\ \A k \in 1 .. Len(s) - 1 : t[k] = s[IF k < m THEN k ELSE k + 1]
  <2> DEFINE f(k) == IF k < m THEN k ELSE k + 1
  <2>1. \A k \in 1 .. n - 1 : f(k) \in 1 .. n /\ t[k] = s[f(k)]
    <3>1. \A k \in 1 .. n - 1 : f(k) \in 1 .. n  BY <1>1
    <3> QED  BY <1>7, <3>1
  <2>2. \A k, l \in 1 .. n - 1 : k < l => f(k) < f(l) /\ (f(l) - f(k) = l - k \/ (f(k) = k /\ k < m /\ f(l) = l + 1 /\ m < l + 1))
    BY <1>1
  <2> HIDE DEF f, n
  <2>3. ASSUME NEW k \in 1 .. n - 1  PROVE Tagged(p, now, t[k])  BY <1>4, <2>1
  <2>4. ASSUME NEW k \in 1 .. n - 1, NEW l \in 1 .. n - 1, k < l  PROVE Before(now, t[k], t[l], l - k)
    <3>1. /\ f(k) \in 1 .. n /\ f(l) \in 1 .. n /\ t[k] = s[f(k)] /\ t[l] = s[f(l)]
          /\ f(k) < f(l)
      BY <2>1, <2>2, <2>4
    <3>2. Before(now, s[f(k)], s[f(l)], f(l) - f(k))  BY <1>5, <3>1
    <3>3. CASE f(l) - f(k) = l - k  BY <3>1, <3>2, <3>3
    <3>4. CASE f(k) = k /\ k < m /\ f(l) = l + 1 /\ m < l + 1
      <4> DEFINE y == s[f(l)]
                 j == f(l)
      <4>1. s[f(k)].call <= y.call /\ y.call \in Nat /\ y.pos \in Nat /\ s[f(k)].call \in Nat
        BY <1>4, <3>1, <3>2 DEF Before
      <4>2. ASSUME ~now[y.call].hit  PROVE s[f(k)].call < y.call /\ ~ (l - k < y.pos)
        <5>1. y.call # c  BY <1>4, <2>4, <3>1, <4>2
        <5>2. Before(now, s[m], s[j], j - m)
          <6>1. m \in 1 .. n /\ j \in 1 .. n /\ m < j  BY <3>1, <3>4 DEF n
          <6> HIDE DEF j
          <6> QED  BY <1>5, <6>1
        <5>3. ~ (j - m < y.pos)  BY <4>2, <5>1, <5>2 DEF Before, c
        <5> HIDE DEF y
        <5>4. ~ (l - k < y.pos) /\ ~ (j - k < y.pos)  BY <3>4, <4>1, <5>3
        <5>5. s[f(k)].call < y.call  BY <3>2, <3>4, <4>2, <5>4 DEF Before, y
        <5> QED  BY <5>4, <5>5
      <4> QED  BY <3>1, <4>1, <4>2 DEF Before
    <3> QED  BY <2>2, <2>4, <3>3, <3>4
  <2>5. Len(t) = n - 1  BY <1>7 DEF n
  <2>6. Tidy(p, now, t)  BY <1>1, <1>3, <2>3, <2>4, <2>5 DEF Tidy
  <2> QED  BY <2>6 DEF now, c
<1> QED  BY <1>6, <1>7
---------------------------------------------------------------------------
(***************************************************************************)
(* What is delivered, against what is still on its way.                    *)
(***************************************************************************)
Unhit == noise = 0 => \A c \in DOMAIN sent : ~sent[c].hit

\* Where calls that noise has spared are safe: see Clean.
Sound == proto = "hdlc" \/ noise = 0

Exact(calls, d) ==
    /\ \A i \in 1 .. Len(d) : Faithful(calls, d[i])
    /\ \A i, j \in 1 .. Len(d) : i < j => InOrder(calls, d[i].call, d[j].call)

Passed(calls, d, s) ==
    \A i \in 1 .. Len(d), k \in 1 .. Len(s) : InOrder(calls, d[i].call, s[k].call)

Flow ==
    /\ Typed /\ Tidy(proto, sent, All) /\ Unhit
    /\ Sound => Exact(sent, delivered) /\ Passed(sent, delivered, All)

LEMMA AllIs ==
    ASSUME Typed
    PROVE  /\ All \in Seq(SentOf(sent)) /\ Len(All) = Len(rx_buffer) + Len(line)
           /\ \A k \in 1 .. Len(rx_buffer) : All[k] = rx_buffer[k]
           /\ \A k \in 1 .. Len(line) : All[Len(rx_buffer) + k] = line[k]
<1> DEFINE S == SentOf(sent)
<1>1. rx_buffer \in Seq(S)  BY TypedParts
<1>2. line \in Seq(S)  BY TypedParts
<1> HIDE DEF S
<1>3. /\ rx_buffer \o line \in Seq(S) /\ Len(rx_buffer \o line) = Len(rx_buffer) + Len(line)
      /\ \A i \in 1 .. Len(rx_buffer) : (rx_buffer \o line)[i] = rx_buffer[i]
      /\ \A i \in 1 .. Len(line) : (rx_buffer \o line)[Len(rx_buffer) + i] = line[i]
  BY <1>1, <1>2, Joined
<1> QED  BY <1>3 DEF All, S

\* After a call: its record, and the n bytes of it that write has taken.
SentNow(msg, n, ok) ==
    LET w == Written(proto, OtherAddr, msg)
        c == Len(sent) + 1
    IN  /\ w \in Seq(Byte) /\ Len(w) \in Nat /\ Len(w) <= MaxFrame
        /\ n \in 0 .. Len(w) /\ ok \in BOOLEAN /\ (n # Len(w) => n \in Cuts)
        /\ (ok => n = Len(w)) /\ (n = Len(w) /\ n # 0 => ok)
        /\ sent' = Append(sent, [msg |-> msg, ok |-> ok, hit |-> FALSE])
        /\ sent' \in CallsOf(proto) /\ Len(sent) \in Nat
        /\ DOMAIN sent = 1 .. Len(sent) /\ DOMAIN sent' = 1 .. c
        /\ \A d \in DOMAIN sent : sent'[d] = sent[d]
        /\ sent'[c] = [msg |-> msg, ok |-> ok, hit |-> FALSE]
        /\ All' = All \o Put(w, c, n) /\ Len(All) \in Nat /\ Len(All') = Len(All) + n
        /\ \A k \in 1 .. Len(All) : All'[k] = All[k]
        /\ \A i \in 1 .. n : All'[Len(All) + i] = [byte |-> w[i], call |-> c, pos |-> i]

LEMMA SentIs ==
    ASSUME Typed, NEW msg \in MessagesOf(proto), Send(msg)
    PROVE  /\ \E n, ok : SentNow(msg, n, ok)
           /\ UNCHANGED <<proto, maxlen, rx_buffer, delivered, noise>>
<1>1. PICK n, ok : Puts(msg, n, ok)  BY SendIs
<1>2. UNCHANGED <<proto, maxlen, rx_buffer, delivered, noise>>  BY SendIs
<1> DEFINE w == Written(proto, OtherAddr, msg)
           call == [msg |-> msg, ok |-> ok, hit |-> FALSE]
           more == Append(sent, call)
           c == Len(sent) + 1
           put == Put(w, c, n)
           S == SentOf(more)
           a == All
           u == a \o put
<1>3. /\ n \in 0 .. Len(w) /\ ok \in BOOLEAN /\ line' = line \o put /\ sent' = more
      /\ Len(w) <= MaxFrame /\ (ok => n = Len(w)) /\ (n # Len(w) => n \in Cuts)
      /\ n = Len(w) => (ok <=> w # <<>>)
  BY <1>1 DEF Puts
<1>4. call \in [msg : MessagesOf(proto), ok : BOOLEAN, hit : BOOLEAN]  BY <1>3
<1>5. sent \in CallsOf(proto) /\ proto \in Protos  BY TypedParts
<1>6. w \in Seq(Byte) /\ Len(w) \in Nat  BY <1>5, WroteIs
<1>7. n = Len(w) /\ n # 0 => ok
  <2> SUFFICES ASSUME n = Len(w), n # 0  PROVE ok
    OBVIOUS
  <2>1. w # <<>>  OBVIOUS
  <2> QED  BY <1>3, <2>1
<1> HIDE DEF w, call
<1>8. /\ more \in CallsOf(proto) /\ Len(sent) \in Nat /\ DOMAIN sent = 1 .. Len(sent)
      /\ Len(more) = Len(sent) + 1 /\ DOMAIN more = 1 .. Len(sent) + 1
      /\ \A d \in DOMAIN sent : more[d] = sent[d] /\ d \in DOMAIN more
      /\ more[Len(sent) + 1] = call /\ Len(sent) + 1 \in DOMAIN more
      /\ SentOf(sent) \subseteq SentOf(more)
  BY <1>4, <1>5, MoreCalls
<1>9. rx_buffer \in Seq(SentOf(sent)) /\ line \in Seq(SentOf(sent)) /\ a \in Seq(SentOf(sent))
  BY AllIs, TypedParts
<1>10. \A x \in Seq(SentOf(sent)) : x \in Seq(S)
  <2> DEFINE R == SentOf(sent)
  <2>1. R \subseteq S  BY <1>8
  <2> HIDE DEF R, S
  <2>2. \A x \in Seq(R) : x \in Seq(S)  BY <2>1
  <2> QED  BY <2>2 DEF R
<1>11. put \in Seq(S) /\ Len(put) = n /\ \A i \in 1 .. n : put[i] = [byte |-> w[i], call |-> c, pos |-> i]
  <2>1. c \in DOMAIN more /\ Len(more) \in Nat  BY <1>8
  <2> HIDE DEF c, more
  <2> QED  BY <1>3, <1>6, <2>1, PutIs
<1>12. All' = u
  <2>1. rx_buffer \in Seq(S)  BY <1>9, <1>10
  <2>2. line \in Seq(S)  BY <1>9, <1>10
  <2>3. put \in Seq(S)  BY <1>11
  <2> HIDE DEF S, put
  <2>4. (rx_buffer \o line) \o put = rx_buffer \o (line \o put)
    BY <2>1, <2>2, <2>3, ConcatAssociative
  <2> QED  BY <1>2, <1>3, <2>4 DEF All
<1>13. /\ Len(a) \in Nat /\ Len(u) = Len(a) + Len(put)
       /\ \A k \in 1 .. Len(a) : u[k] = a[k]
       /\ \A i \in 1 .. Len(put) : u[Len(a) + i] = put[i]
  <2>1. put \in Seq(S)  BY <1>11
  <2>2. a \in Seq(S)  BY <1>9, <1>10
  <2> HIDE DEF S, put, a
  <2> QED  BY <2>1, <2>2, Joined
<1> HIDE DEF more, put, S, u
<1>14. SentNow(msg, n, ok)
  BY <1>3, <1>6, <1>7, <1>8, <1>11, <1>12, <1>13 DEF SentNow, w, call, more, u, put
<1> QED  BY <1>2, <1>14

LEMMA FlowSend ==
    ASSUME Flow, NEW msg \in MessagesOf(proto), Send(msg), Typed'
    PROVE  Flow'
<1>0. Typed  BY DEF Flow
<1> USE <1>0
<1>1. PICK n, ok : SentNow(msg, n, ok)  BY SentIs
<1>2. UNCHANGED <<proto, maxlen, rx_buffer, delivered, noise>>  BY SentIs
<1> DEFINE w == Written(proto, OtherAddr, msg)
           call == [msg |-> msg, ok |-> ok, hit |-> FALSE]
           c == Len(sent) + 1
<1>3. /\ n \in 0 .. Len(w) /\ ok \in BOOLEAN /\ (n = Len(w) /\ n # 0 => ok)
      /\ sent' = Append(sent, call)
      /\ sent' \in CallsOf(proto) /\ Len(sent) \in Nat
      /\ DOMAIN sent = 1 .. Len(sent) /\ DOMAIN sent' = 1 .. c
      /\ \A d \in DOMAIN sent : sent'[d] = sent[d]
      /\ sent'[c] = call
      /\ All' = All \o Put(w, c, n) /\ Len(All) \in Nat /\ Len(All') = Len(All) + n
      /\ \A k \in 1 .. Len(All) : All'[k] = All[k]
      /\ \A i \in 1 .. n : All'[Len(All) + i] = [byte |-> w[i], call |-> c, pos |-> i]
  BY <1>1 DEF SentNow
<1>4. call \in [msg : MessagesOf(proto), ok : BOOLEAN, hit : BOOLEAN] /\ ~call.hit /\ call.ok = ok /\ call.msg = msg
  BY <1>3
<1>5. Tidy(proto, sent', All')
  <2>1. Tidy(proto, sent, All) /\ w = Written(proto, OtherAddr, call.msg)  BY <1>4 DEF Flow
  <2> HIDE DEF w, call
  <2> QED  BY <1>3, <1>4, <2>1, TidyPut
<1> HIDE DEF call
<1>6. Unhit'
  <2> SUFFICES ASSUME noise = 0, NEW d \in DOMAIN sent'  PROVE ~sent'[d].hit
    BY <1>2 DEF Unhit
  <2>1. \A b \in DOMAIN sent : ~sent[b].hit  BY DEF Flow, Unhit
  <2>2. CASE d \in DOMAIN sent  BY <1>3, <2>1, <2>2
  <2>3. CASE d = c  BY <1>3, <1>4, <2>3
  <2> QED  BY <1>3, <2>2, <2>3
<1>7. ASSUME Sound'  PROVE Exact(sent', delivered) /\ Passed(sent', delivered, All')
  <2>1. Sound  BY <1>2, <1>7 DEF Sound
  <2>2. Exact(sent, delivered) /\ Passed(sent, delivered, All)  BY <2>1 DEF Flow
  <2>3. \A i \in 1 .. Len(delivered) : /\ delivered[i].call \in DOMAIN sent
                                       /\ sent'[delivered[i].call] = sent[delivered[i].call]
    BY <1>3, TypedParts
  <2>4. Exact(sent', delivered)
    <3>1. \A i \in 1 .. Len(delivered) : Faithful(sent', delivered[i])
      BY <2>2, <2>3 DEF Exact, Faithful
    <3>2. \A i, j \in 1 .. Len(delivered) : i < j => InOrder(sent', delivered[i].call, delivered[j].call)
      BY <2>2, <2>3 DEF Exact, InOrder
    <3> QED  BY <3>1, <3>2 DEF Exact
  <2>5. ASSUME NEW i \in 1 .. Len(delivered), NEW k \in 1 .. Len(All')
        PROVE  InOrder(sent', delivered[i].call, All'[k].call)
    <3>1. CASE k \in 1 .. Len(All)
      <4>1. InOrder(sent, delivered[i].call, All[k].call)  BY <2>2, <3>1 DEF Passed
      <4> QED  BY <1>3, <2>3, <3>1, <4>1 DEF InOrder
    <3>2. CASE k \notin 1 .. Len(All)
      <4> DEFINE j == k - Len(All)
      <4>1. j \in 1 .. n /\ k = Len(All) + j  BY <1>3, <3>2
      <4> HIDE DEF j
      <4>2. All'[k].call = c
        <5>1. All'[k] = [byte |-> w[j], call |-> c, pos |-> j]  BY <1>3, <4>1
        <5> QED  BY <5>1
      <4>3. delivered[i].call \in 1 .. Len(sent)  BY <1>3, <2>3
      <4>4. c \in Nat /\ delivered[i].call \in Nat /\ delivered[i].call < c  BY <1>3, <4>3
      <4> HIDE DEF c
      <4> QED  BY <4>2, <4>4 DEF InOrder
    <3> QED  BY <3>1, <3>2
  <2>6. Passed(sent', delivered, All')  BY <2>5 DEF Passed
  <2> QED  BY <2>4, <2>6
<1>8. Sound' => Exact(sent', delivered') /\ Passed(sent', delivered', All')  BY <1>2, <1>7
<1>9. Tidy(proto', sent', All')  BY <1>2, <1>5
<1> QED  BY <1>6, <1>8, <1>9 DEF Flow

\* After noise at m: All has another byte there, or one less.
Damaged(m) ==
    /\ m \in 1 .. Len(All) /\ Len(rx_buffer) < m
    /\ All[m].call \in DOMAIN sent /\ sent' = Hit(sent, All[m].call) /\ All' \in Seq(SentOf(sent))
    /\ \/ /\ Len(All') = Len(All)
          /\ \A k \in 1 .. Len(All) : /\ All'[k].call = All[k].call /\ All'[k].pos = All[k].pos
                                      /\ k # m => All'[k] = All[k]
       \/ /\ Len(All') = Len(All) - 1
          /\ \A k \in 1 .. Len(All) - 1 : All'[k] = All[IF k < m THEN k ELSE k + 1]
    /\ sent' \in CallsOf(proto) /\ DOMAIN sent' = DOMAIN sent
    /\ \A d \in DOMAIN sent : /\ sent'[d].msg = sent[d].msg /\ sent'[d].ok = sent[d].ok
                              /\ sent'[d].hit = (d = All[m].call \/ sent[d].hit)

LEMMA DamageIs ==
    ASSUME Typed, Noise
    PROVE  /\ \E m : Damaged(m)
           /\ noise' # 0 /\ noise' = noise + 1 /\ noise \in Nat
           /\ UNCHANGED <<proto, maxlen, id_count, rx_buffer, delivered>>
<1>1. noise' # 0 /\ noise' = noise + 1 /\ noise \in Nat /\ UNCHANGED <<proto, maxlen, id_count, rx_buffer, delivered>>
  BY NoiseIs, TypedParts
<1>2. PICK i \in 1 .. Len(line) :
        /\ line[i].call \in DOMAIN sent /\ sent' = Hit(sent, line[i].call)
        /\ \/ \E b \in Byte : line' = Altered(line, i, b)
           \/ line' = SubSeq(line, 1, i - 1) \o SubSeq(line, i + 1, Len(line))
  BY NoiseIs
<1> DEFINE R == SentOf(sent)
           a == All
           t == All'
           m == Len(rx_buffer) + i
           lx == Len(rx_buffer)
           ln == Len(line)
<1>3. /\ a \in Seq(R) /\ Len(a) = lx + ln /\ lx \in Nat /\ ln \in Nat
      /\ \A k \in 1 .. lx : a[k] = rx_buffer[k]
      /\ \A k \in 1 .. ln : a[lx + k] = line[k]
      /\ line \in Seq(R) /\ rx_buffer \in Seq(R)
  BY AllIs, TypedParts, SMTT(30)
<1>4. sent' \in CallsOf(proto) /\ DOMAIN sent' = DOMAIN sent /\ SentOf(sent') = R
      /\ \A d \in DOMAIN sent : /\ sent'[d].msg = sent[d].msg /\ sent'[d].ok = sent[d].ok
                                /\ sent'[d].hit = (d = line[i].call \/ sent[d].hit)
  BY <1>2, HitCalls, TypedParts
<1>5. /\ t \in Seq(R)
      /\ \/ /\ Len(t) = Len(a)
            /\ \A k \in 1 .. Len(a) : /\ t[k].call = a[k].call /\ t[k].pos = a[k].pos
                                      /\ k # m => t[k] = a[k]
         \/ /\ Len(t) = Len(a) - 1
            /\ \A k \in 1 .. Len(a) - 1 : t[k] = a[IF k < m THEN k ELSE k + 1]
  <2> DEFINE v == line'
  <2>1. \/ /\ v \in Seq(R) /\ Len(v) = ln
           /\ \A k \in 1 .. ln : /\ v[k].call = line[k].call /\ v[k].pos = line[k].pos
                                 /\ k # i => v[k] = line[k]
        \/ /\ v \in Seq(R) /\ Len(v) = ln - 1
           /\ \A k \in 1 .. ln - 1 : v[k] = line[IF k < i THEN k ELSE k + 1]
    <3>1. CASE \E b \in Byte : line' = Altered(line, i, b)
      <4>1. PICK b \in Byte : line' = Altered(line, i, b)  BY <3>1
      <4> DEFINE x == Altered(line, i, b)
      <4>2. /\ x \in Seq(R) /\ Len(x) = ln
            /\ \A k \in 1 .. ln : /\ x[k].call = line[k].call /\ x[k].pos = line[k].pos
                                  /\ k # i => x[k] = line[k]
        BY <1>3, LineIs
      <4>3. v = x  BY <4>1
      <4> HIDE DEF x, R, v, ln
      <4> QED  BY <4>2, <4>3
    <3>2. CASE line' = SubSeq(line, 1, i - 1) \o SubSeq(line, i + 1, Len(line))
      <4> DEFINE x == SubSeq(line, 1, i - 1) \o SubSeq(line, i + 1, Len(line))
      <4>1. /\ x \in Seq(R) /\ Len(x) = ln - 1
            /\ \A k \in 1 .. ln - 1 : x[k] = line[IF k < i THEN k ELSE k + 1]
        BY <1>3, LineIs
      <4>2. v = x  BY <3>2
      <4> HIDE DEF x, R, v, ln
      <4> QED  BY <4>1, <4>2
    <3> QED  BY <1>2, <3>1, <3>2
  <2>2. t = rx_buffer \o v  BY <1>1 DEF All
  <2> HIDE DEF v, t, a, R
  <2>3. v \in Seq(R)  BY <2>1
  <2>4. rx_buffer \in Seq(R)  BY <1>3
  <2>5. /\ Len(v) \in Nat /\ t \in Seq(R) /\ Len(t) = lx + Len(v)
        /\ \A k \in 1 .. lx : t[k] = rx_buffer[k]
        /\ \A k \in 1 .. Len(v) : t[lx + k] = v[k]
    <3>1. /\ Len(v) \in Nat /\ rx_buffer \o v \in Seq(R) /\ Len(rx_buffer \o v) = Len(rx_buffer) + Len(v)
          /\ \A k \in 1 .. Len(rx_buffer) : (rx_buffer \o v)[k] = rx_buffer[k]
          /\ \A k \in 1 .. Len(v) : (rx_buffer \o v)[Len(rx_buffer) + k] = v[k]
      BY <2>3, <2>4, Joined
    <3> QED  BY <2>2, <3>1
  <2>6. \A k \in 1 .. lx : t[k] = a[k]  BY <1>3, <2>5
  <2>7. m \in Nat /\ m = lx + i /\ i \in 1 .. ln  BY <1>3
  <2> HIDE DEF lx, ln, m
  <2>8. CASE /\ Len(v) = ln
             /\ \A k \in 1 .. ln : /\ v[k].call = line[k].call /\ v[k].pos = line[k].pos
                                   /\ k # i => v[k] = line[k]
    <3>1. Len(t) = Len(a)  BY <1>3, <2>5, <2>8
    <3>2. ASSUME NEW k \in 1 .. Len(a)
          PROVE t[k].call = a[k].call /\ t[k].pos = a[k].pos /\ (k # m => t[k] = a[k])
      <4>1. CASE k \in 1 .. lx  BY <2>6, <4>1
      <4>2. CASE k \notin 1 .. lx
        <5> DEFINE j == k - lx
        <5>1. j \in 1 .. ln /\ k = lx + j /\ (k # m => j # i)  BY <1>3, <2>7, <4>2
        <5> HIDE DEF j
        <5>2. a[k] = line[j] /\ t[k] = v[j]  BY <1>3, <2>5, <2>8, <5>1
        <5> QED  BY <2>8, <5>1, <5>2
      <4> QED  BY <4>1, <4>2
    <3> QED  BY <2>5, <3>1, <3>2
  <2>9. CASE /\ Len(v) = ln - 1
             /\ \A k \in 1 .. ln - 1 : v[k] = line[IF k < i THEN k ELSE k + 1]
    <3>1. Len(t) = Len(a) - 1  BY <1>3, <2>5, <2>9
    <3>2. ASSUME NEW k \in 1 .. Len(a) - 1  PROVE t[k] = a[IF k < m THEN k ELSE k + 1]
      <4>1. CASE k \in 1 .. lx
        <5>1. k < m  BY <1>3, <2>7, <4>1
        <5> QED  BY <2>6, <4>1, <5>1
      <4>2. CASE k \notin 1 .. lx
        <5> DEFINE j == k - lx
        <5>1. j \in 1 .. ln - 1 /\ k = lx + j /\ (k < m <=> j < i)  BY <1>3, <2>7, <4>2
        <5> HIDE DEF j
        <5>2. t[k] = v[j]  BY <2>5, <2>9, <5>1
        <5>3. CASE j < i
          <6>1. v[j] = line[j] /\ j \in 1 .. ln  BY <1>3, <2>9, <5>1, <5>3
          <6> QED  BY <1>3, <5>1, <5>2, <5>3, <6>1
        <5>4. CASE ~ (j < i)
          <6>1. v[j] = line[j + 1] /\ j + 1 \in 1 .. ln /\ k + 1 = lx + (j + 1)  BY <1>3, <2>9, <5>1, <5>4
          <6>2. a[k + 1] = line[j + 1]  BY <1>3, <6>1
          <6> QED  BY <5>1, <5>2, <5>4, <6>1, <6>2
        <5> QED  BY <5>3, <5>4
      <4> QED  BY <4>1, <4>2
    <3> QED  BY <2>5, <3>1, <3>2
  <2> QED  BY <2>1, <2>8, <2>9
<1>6. m \in 1 .. Len(a) /\ a[m] = line[i]
  <2> HIDE DEF lx, ln, a
  <2>1. m = lx + i /\ i \in 1 .. ln  BY DEF lx, ln
  <2> QED  BY <1>3, <2>1
<1>7. m > lx
  <2> HIDE DEF lx
  <2>1. m = lx + i  BY DEF lx
  <2> QED  BY <1>3, <2>1
<1> HIDE DEF a, t, m
<1>8. Damaged(m)  BY <1>2, <1>4, <1>5, <1>6, <1>7 DEF Damaged, a, t
<1> QED  BY <1>1, <1>8

LEMMA FlowNoise ==
    ASSUME Flow, Noise, Typed'
    PROVE  Flow'
<1>0. Typed  BY DEF Flow
<1> USE <1>0
<1> DEFINE a == All
           t == All'
<1>1. noise' # 0 /\ noise' = noise + 1 /\ noise \in Nat /\ UNCHANGED <<proto, maxlen, id_count, rx_buffer, delivered>>
  BY DamageIs
<1>2. PICK m : Damaged(m)  BY DamageIs
<1>3. Len(a) \in Nat
  <2>1. a \in Seq(SentOf(sent))  BY AllIs
  <2> QED  BY <2>1
<1>4. \A d \in DOMAIN sent : /\ sent'[d].msg = sent[d].msg /\ sent'[d].ok = sent[d].ok
                             /\ sent'[d].hit = (d = a[m].call \/ sent[d].hit)
  BY <1>2 DEF Damaged
<1>5. \/ /\ Len(t) = Len(a)
         /\ \A k \in 1 .. Len(a) : t[k].call = a[k].call
      \/ /\ Len(t) = Len(a) - 1
         /\ \A k \in 1 .. Len(a) - 1 : t[k] = a[IF k < m THEN k ELSE k + 1]
  BY <1>2 DEF Damaged
<1>7. Tidy(proto, sent, a)  BY DEF Flow
<1>8. Tidy(proto, Hit(sent, a[m].call), t)
  <2>1. /\ m \in 1 .. Len(a) /\ t \in Seq(SentOf(sent))
        /\ \/ /\ Len(t) = Len(a)
              /\ \A k \in 1 .. Len(a) : /\ t[k].call = a[k].call /\ t[k].pos = a[k].pos
                                        /\ k # m => t[k] = a[k]
           \/ /\ Len(t) = Len(a) - 1
              /\ \A k \in 1 .. Len(a) - 1 : t[k] = a[IF k < m THEN k ELSE k + 1]
    BY <1>2 DEF Damaged
  <2> HIDE DEF a, t
  <2> QED  BY <1>7, <2>1, TidyHit
<1>9. Tidy(proto', sent', All')  BY <1>1, <1>2, <1>8 DEF Damaged
<1>10. Unhit'  BY <1>1 DEF Unhit
<1>11. ASSUME Sound'  PROVE Exact(sent', delivered) /\ Passed(sent', delivered, t)
  <2>1. Sound  BY <1>1, <1>11 DEF Sound
  <2>2. Exact(sent, delivered) /\ Passed(sent, delivered, a)  BY <2>1 DEF Flow
  <2>3. \A j \in 1 .. Len(delivered) : delivered[j].call \in DOMAIN sent  BY TypedParts
  <2> HIDE DEF a, t
  <2>4. \A j \in 1 .. Len(delivered) : \A x :
           InOrder(sent, delivered[j].call, x) => InOrder(sent', delivered[j].call, x)
    BY <1>4, <2>3 DEF InOrder
  <2>5. \A j \in 1 .. Len(delivered) : Faithful(sent', delivered[j])
    BY <1>4, <2>2, <2>3 DEF Exact, Faithful
  <2>6. Exact(sent', delivered)  BY <2>2, <2>4, <2>5 DEF Exact
  <2>7. \A k \in 1 .. Len(t) : \E h \in 1 .. Len(a) : t[k].call = a[h].call
    <3> TAKE k \in 1 .. Len(t)
    <3>1. Len(a) \in Nat  BY <1>3
    <3>2. CASE Len(t) = Len(a) /\ \A h \in 1 .. Len(a) : t[h].call = a[h].call  BY <3>2
    <3>3. CASE Len(t) = Len(a) - 1 /\ \A h \in 1 .. Len(a) - 1 : t[h] = a[IF h < m THEN h ELSE h + 1]
      <4>1. k \in 1 .. Len(a) /\ k + 1 \in 1 .. Len(a)  BY <3>1, <3>3
      <4>2. t[k] = a[k] \/ t[k] = a[k + 1]  BY <3>3
      <4> QED  BY <4>1, <4>2
    <3> QED  BY <1>5, <3>2, <3>3
  <2>8. Passed(sent', delivered, t)
    <3> SUFFICES ASSUME NEW j \in 1 .. Len(delivered), NEW k \in 1 .. Len(t)
                 PROVE  InOrder(sent', delivered[j].call, t[k].call)
      BY DEF Passed
    <3>1. PICK h \in 1 .. Len(a) : t[k].call = a[h].call  BY <2>7
    <3>2. InOrder(sent, delivered[j].call, a[h].call)  BY <2>2 DEF Passed
    <3> QED  BY <2>4, <3>1, <3>2
  <2> QED  BY <2>6, <2>8
<1>12. Sound' => Exact(sent', delivered') /\ Passed(sent', delivered', All')  BY <1>1, <1>11
<1> QED  BY <1>9, <1>10, <1>12 DEF Flow

LEMMA SoundClean == ASSUME Flow, Sound  PROVE Clean(proto, sent)
BY DEF Flow, Sound, Clean, Unhit, Protos

\* The bytes that a block of accept works on are tidy.
LEMMA StreamIs ==
    ASSUME Typed, Tidy(proto, sent, All), NEW n \in Chunks, Accept(n)
    PROVE  /\ Tidy(proto, sent, Stream(n)) /\ Tidy(proto, sent, Got(n))
           /\ \E q \in 1 .. Len(All) + 1 :
                /\ Len(Stream(n)) = Len(All) - q + 1
                /\ \A k \in 1 .. Len(Stream(n)) : Stream(n)[k] = All[k + q - 1] /\ k + q - 1 \in 1 .. Len(All)
           /\ Len(Got(n)) \in Nat /\ Len(Stream(n)) \in Nat /\ Len(Got(n)) <= Len(Stream(n))
           /\ \A k \in 1 .. Len(Got(n)) : Got(n)[k] = Stream(n)[k] /\ k \in 1 .. Len(Stream(n))
           /\ From(n) \in 1 .. Len(Got(n)) + 1
           /\ Len(All') = Len(Stream(n)) - From(n) + 1 /\ All' \in Seq(SentOf(sent))
           /\ Tidy(proto, sent, All')
           /\ \A k \in 1 .. Len(All') : /\ All'[k] = Stream(n)[k + From(n) - 1]
                                        /\ k + From(n) - 1 \in 1 .. Len(Stream(n))
<1> DEFINE R == SentOf(sent)
           g == Got(n)
           t == Stream(n)
           f == From(n)
           a == All
           v == All'
<1>1. n \in Nat /\ rx_buffer \in Seq(R) /\ line \in Seq(R) /\ proto \in Protos
  BY TypedParts, FrameLinkAssumption
<1>2. v = SubSeq(t, f, Len(t)) /\ Taken(n) > 0  BY <1>1, AcceptIs
<1>3. /\ g \in Seq(R) /\ t \in Seq(R) /\ Len(g) \in Nat /\ Len(t) \in Nat /\ Len(g) <= Len(t)
      /\ g = SubSeq(t, 1, Len(g)) /\ f \in 1 .. Len(g) + 1
      /\ \E q \in 1 .. Len(All) + 1 : t = SubSeq(All, q, Len(All))
  BY <1>1, <1>2, GotIs
<1>4. a \in Seq(R) /\ Tidy(proto, sent, a)  BY AllIs
<1>5. PICK q \in 1 .. Len(a) + 1 : t = SubSeq(a, q, Len(a))  BY <1>3
<1> HIDE DEF g, t, f, a, v
<1>6. Tidy(proto, sent, t)  BY <1>4, <1>5, TidySuffix
<1>7. Tidy(proto, sent, g)
  <2>1. Len(g) \in 0 .. Len(t)  BY <1>3
  <2> QED  BY <1>3, <1>6, <2>1, TidyPrefix
<1>8. Len(t) = Len(a) - q + 1 /\ \A k \in 1 .. Len(t) : t[k] = a[k + q - 1] /\ k + q - 1 \in 1 .. Len(a)
  BY <1>4, <1>5, SuffixIs
<1>9. f \in 1 .. Len(t) + 1  BY <1>3
<1>10. /\ v \in Seq(R) /\ Len(v) = Len(t) - f + 1
       /\ \A k \in 1 .. Len(v) : v[k] = t[k + f - 1] /\ k + f - 1 \in 1 .. Len(t)
  BY <1>2, <1>3, <1>9, SuffixIs
<1>11. Tidy(proto, sent, v)  BY <1>2, <1>6, <1>9, TidySuffix
<1>12. \A k \in 1 .. Len(g) : g[k] = t[k] /\ k \in 1 .. Len(t)
  <2> HIDE DEF R
  <2> QED  BY <1>3
<1> QED  BY <1>3, <1>6, <1>7, <1>8, <1>10, <1>11, <1>12 DEF g, t, f, a, v

LEMMA FlowAccept ==
    ASSUME Flow, NEW n \in Chunks, Accept(n), Typed'
    PROVE  Flow'
<1>0. Typed  BY DEF Flow
<1> USE <1>0
<1> DEFINE R == SentOf(sent)
           g == Got(n)
           t == Stream(n)
           f == From(n)
           d == Indicated(g)
           V == {Entry(g, e) : e \in Good(g)}
           v == All'
<1>1. n \in Nat /\ rx_buffer \in Seq(R) /\ line \in Seq(R) /\ proto \in Protos
  BY TypedParts, FrameLinkAssumption
<1>2. UNCHANGED <<proto, maxlen, id_count, sent, noise>>  BY <1>1, AcceptIs
<1>3. /\ Tidy(proto, sent, t) /\ Tidy(proto, sent, g)
      /\ Len(g) \in Nat /\ Len(t) \in Nat /\ Len(g) <= Len(t)
      /\ \A k \in 1 .. Len(g) : g[k] = t[k] /\ k \in 1 .. Len(t)
      /\ f \in 1 .. Len(g) + 1
      /\ Len(v) = Len(t) - f + 1
      /\ Tidy(proto, sent, v)
      /\ \A k \in 1 .. Len(v) : v[k] = t[k + f - 1] /\ k + f - 1 \in 1 .. Len(t)
  <2>1. Tidy(proto, sent, All)  BY DEF Flow
  <2> QED  BY <2>1, StreamIs
<1>4. PICK q \in 1 .. Len(All) + 1 :
        \A k \in 1 .. Len(t) : t[k] = All[k + q - 1] /\ k + q - 1 \in 1 .. Len(All)
  <2>1. Tidy(proto, sent, All)  BY DEF Flow
  <2> QED  BY <2>1, StreamIs
<1>5. Unhit'  BY <1>2 DEF Flow, Unhit
<1>6. ASSUME Sound'  PROVE Exact(sent, delivered') /\ Passed(sent, delivered', v)
  <2>1. Sound  BY <1>2, <1>6 DEF Sound
  <2>2. Exact(sent, delivered) /\ Passed(sent, delivered, All)  BY <2>1 DEF Flow
  <2>3. Clean(proto, sent)  BY <2>1, SoundClean
  <2>4. delivered \in Seq(Range(delivered)) /\ Len(delivered) \in Nat  BY TypedParts
  <2>5. Passed(sent, delivered, t)
    <3> SUFFICES ASSUME NEW i \in 1 .. Len(delivered), NEW k \in 1 .. Len(t)
                 PROVE  InOrder(sent, delivered[i].call, t[k].call)
      BY DEF Passed
    <3> DEFINE h == k + q - 1
    <3>1. t[k] = All[h] /\ h \in 1 .. Len(All)  BY <1>4
    <3> HIDE DEF h
    <3> QED  BY <2>2, <3>1 DEF Passed
  <2> HIDE DEF g, t, f, v, d
  <2>6. Passed(sent, delivered, v)
    <3> SUFFICES ASSUME NEW i \in 1 .. Len(delivered), NEW k \in 1 .. Len(v)
                 PROVE  InOrder(sent, delivered[i].call, v[k].call)
      BY DEF Passed
    <3> DEFINE h == k + f - 1
    <3>1. v[k] = t[h] /\ h \in 1 .. Len(t)  BY <1>3
    <3> HIDE DEF h
    <3> QED  BY <2>5, <3>1 DEF Passed
  <2>7. CASE delivered' = delivered  BY <2>2, <2>6, <2>7
  <2>8. CASE delivered' = delivered \o d /\ f = RestFrom(g)
    <3>1. /\ Len(d) \in Nat /\ d \in Seq(V)
          /\ \A i \in 1 .. Len(d) : d[i].call \in DOMAIN sent /\ Faithful(sent, d[i])
          /\ \A i, j \in 1 .. Len(d) : i < j => InOrder(sent, d[i].call, d[j].call)
      BY <1>3, <2>3, DeliveredIs DEF d
    <3>2. ASSUME NEW j \in 1 .. Len(d)
          PROVE  \E e \in 1 .. Len(g) : /\ d[j].call = g[e].call /\ e + MarkLen(proto) <= f
                                        /\ ~sent[g[e].call].hit => AtEnd(proto, sent, g[e])
      <4>1. d[j] \in V  BY <3>1
      <4>2. PICK e \in Good(g) : d[j] = Entry(g, e)  BY <4>1
      <4>3. /\ Entry(g, e).call = g[e].call /\ e \in 1 .. Len(g)
            /\ ~sent[g[e].call].hit => AtEnd(proto, sent, g[e])
            /\ e + MarkLen(proto) <= RestFrom(g)
        BY <1>3, <2>3, GoodIs
      <4> QED  BY <2>8, <4>2, <4>3
    <3> HIDE DEF V
    <3> DEFINE u == delivered \o d
               ld == Len(delivered)
    <3>3. /\ Len(u) = ld + Len(d)
          /\ \A i \in 1 .. ld : u[i] = delivered[i]
          /\ \A i \in 1 .. Len(d) : u[ld + i] = d[i]
          /\ \A i \in 1 .. Len(u) : i \in 1 .. ld \/ i - ld \in 1 .. Len(d)
      BY <2>4, <3>1, MoreDelivered
    <3> HIDE DEF u
    <3>4. ASSUME NEW i \in 1 .. Len(u)
          PROVE  i \in 1 .. ld \/ \E j \in 1 .. Len(d) : i = ld + j
      <4> DEFINE j == i - ld
      <4>1. i \in 1 .. ld \/ (j \in 1 .. Len(d) /\ i = ld + j)  BY <2>4, <3>1, <3>3
      <4> QED  BY <4>1
    <3>5. ASSUME NEW i \in 1 .. ld, NEW j \in 1 .. Len(d)
          PROVE  InOrder(sent, delivered[i].call, d[j].call)
      <4>1. PICK e \in 1 .. Len(g) : d[j].call = g[e].call  BY <3>2
      <4>2. g[e] = t[e] /\ e \in 1 .. Len(t)  BY <1>3
      <4>3. InOrder(sent, delivered[i].call, t[e].call)  BY <2>5, <4>2 DEF Passed
      <4> QED  BY <4>1, <4>2, <4>3
    <3>6. ASSUME NEW j \in 1 .. Len(d), NEW k \in 1 .. Len(v)
          PROVE  InOrder(sent, d[j].call, v[k].call)
      <4>1. PICK e \in 1 .. Len(g) : /\ d[j].call = g[e].call /\ e + MarkLen(proto) <= f
                                     /\ ~sent[g[e].call].hit => AtEnd(proto, sent, g[e])
        BY <3>2
      <4> DEFINE h == k + f - 1
      <4>2. /\ v[k] = t[h] /\ h \in 1 .. Len(t) /\ h >= f
            /\ g[e] = t[e] /\ e \in 1 .. Len(t)  BY <1>3
      <4>3. MarkLen(proto) \in {1, 2}  BY <1>1, MarkLens
      <4> HIDE DEF h
      <4>4. e + MarkLen(proto) <= h /\ e < h
        <5>1. e \in Nat /\ h \in Nat /\ f \in Nat /\ h >= f  BY <1>3, <4>2
        <5> QED  BY <4>1, <4>3, <5>1, SMTT(30)
      <4>5. t[e].call <= t[h].call  BY <1>3, <4>2, <4>4 DEF Tidy, Before
      <4>6. ASSUME ~sent[t[e].call].hit  PROVE t[e].call < t[h].call
        <5>1. AtEnd(proto, sent, t[e])  BY <4>1, <4>2, <4>6
        <5> QED  BY <1>3, <4>2, <4>4, <5>1, AfterEnd
      <4> QED  BY <4>1, <4>2, <4>5, <4>6 DEF InOrder
    <3>7. ASSUME NEW i \in 1 .. Len(u)  PROVE Faithful(sent, u[i])
      <4>1. CASE i \in 1 .. ld  BY <2>2, <3>3, <4>1 DEF Exact
      <4>2. ASSUME NEW j \in 1 .. Len(d), i = ld + j  PROVE Faithful(sent, u[i])  BY <3>1, <3>3, <4>2
      <4> QED  BY <3>4, <4>1, <4>2
    <3>8. ASSUME NEW i \in 1 .. Len(u), NEW k \in 1 .. Len(u), i < k
          PROVE  InOrder(sent, u[i].call, u[k].call)
      <4>1. CASE k \in 1 .. ld
        <5>1. i \in 1 .. ld  BY <2>4, <3>8, <4>1
        <5> QED  BY <2>2, <3>3, <3>8, <4>1, <5>1 DEF Exact
      <4>2. ASSUME NEW j \in 1 .. Len(d), k = ld + j  PROVE InOrder(sent, u[i].call, u[k].call)
        <5>1. CASE i \in 1 .. ld  BY <3>3, <3>5, <4>2, <5>1
        <5>2. ASSUME NEW h \in 1 .. Len(d), i = ld + h  PROVE InOrder(sent, u[i].call, u[k].call)
          <6>1. h < j  BY <2>4, <3>1, <3>8, <4>2, <5>2
          <6> QED  BY <3>1, <3>3, <4>2, <5>2, <6>1
        <5> QED  BY <3>4, <5>1, <5>2
      <4> QED  BY <3>4, <4>1, <4>2
    <3>9. Passed(sent, u, v)
      <4> SUFFICES ASSUME NEW i \in 1 .. Len(u), NEW k \in 1 .. Len(v)
                   PROVE  InOrder(sent, u[i].call, v[k].call)
        BY DEF Passed
      <4>1. CASE i \in 1 .. ld  BY <2>6, <3>3, <4>1 DEF Passed
      <4>2. ASSUME NEW j \in 1 .. Len(d), i = ld + j  PROVE InOrder(sent, u[i].call, v[k].call)
        BY <3>3, <3>6, <4>2
      <4> QED  BY <3>4, <4>1, <4>2
    <3>10. Exact(sent, u)  BY <3>7, <3>8 DEF Exact
    <3> QED  BY <2>8, <3>9, <3>10 DEF u
  <2>9. delivered' = delivered \/ (delivered' = delivered \o d /\ f = RestFrom(g))
    <3>1. Len(g) < MinLen(proto) => delivered' = delivered  BY DEF Accept, g, Got, Taken
    <3>2. ~ (Len(g) < MinLen(proto)) => delivered' = delivered \o d /\ f = RestFrom(g)
      BY DEF Accept, g, Got, Taken, f, From, d
    <3> QED  BY <3>1, <3>2
  <2> QED  BY <2>7, <2>8, <2>9
<1>7. Sound' => Exact(sent', delivered') /\ Passed(sent', delivered', All')  BY <1>2, <1>6
<1>8. Tidy(proto', sent', All')  BY <1>2, <1>3
<1> QED  BY <1>5, <1>7, <1>8 DEF Flow

LEMMA InitFlow == Init => Flow
<1> SUFFICES ASSUME Init  PROVE Flow
  OBVIOUS
<1>1. Typed  BY InitTyped
<1>2. rx_buffer = <<>> /\ line = <<>> /\ sent = <<>> /\ delivered = <<>>  BY DEF Init
<1>3. Len(All) = 0 /\ All \in Seq(SentOf(sent))
  <2>1. Len(All) = Len(rx_buffer) + Len(line)  BY <1>1, AllIs
  <2> QED  BY <1>1, <1>2, <2>1, AllIs
<1>4. Len(delivered) = 0 /\ DOMAIN sent = {}  BY <1>2
<1>5. Tidy(proto, sent, All)
  <2>1. proto \in Protos /\ sent \in CallsOf(proto)  BY <1>1, TypedParts
  <2>2. \A k \in 1 .. Len(All) : FALSE  BY <1>3
  <2> QED  BY <1>3, <2>1, <2>2 DEF Tidy
<1>6. \A i \in 1 .. Len(delivered) : FALSE  BY <1>4
<1>7. Exact(sent, delivered) /\ Passed(sent, delivered, All)  BY <1>6 DEF Exact, Passed
<1> QED  BY <1>1, <1>4, <1>5, <1>7 DEF Flow, Unhit

LEMMA NextFlow ==
    ASSUME Flow, [Next]_vars
    PROVE  Flow'
<1>1. Typed /\ Typed'  BY NextTyped DEF Flow
<1>2. CASE Cmd  BY <1>1, <1>2, CmdIs, FlowSend
<1>3. CASE Ack  BY <1>1, <1>3, AckIs, FlowSend
<1>4. CASE Noise  BY <1>1, <1>4, FlowNoise
<1>5. CASE \E n \in Chunks : Accept(n)  BY <1>1, <1>5, FlowAccept
<1>6. CASE UNCHANGED vars
  <2>1. UNCHANGED <<proto, sent, rx_buffer, line, delivered, noise>>  BY <1>6 DEF vars
  <2>2. All' = All  BY <2>1 DEF All
  <2> QED  BY <1>1, <2>1, <2>2 DEF Flow, Unhit, Sound
<1> QED  BY <1>2, <1>3, <1>4, <1>5, <1>6 DEF Next

LEMMA AlwaysFlow == Spec => []Flow
<1>1. Init => Flow  BY InitFlow
<1>2. Flow /\ [Next]_vars => Flow'  BY NextFlow
<1> QED  BY <1>1, <1>2, PTL DEF Spec

(***************************************************************************)
(* Whatever noise does to other calls and however the bytes are cut into   *)
(* blocks, what rx_indicate gets for the last byte of a call that noise    *)
(* has spared is the message of that call, which had succeeded and was for *)
(* this end; deliveries are in the order of the calls, and a spared call   *)
(* is delivered once.  In fffeFrame a damaged byte may reach into the next *)
(* frame: there, as long as nothing was damaged.                           *)
(***************************************************************************)
THEOREM SparedCallsAreExact == Spec => [](Sound => Exact(sent, delivered))
<1>1. Flow => (Sound => Exact(sent, delivered))  BY DEF Flow
<1> QED  BY <1>1, AlwaysFlow, PTL

(***************************************************************************)
(* On a line without noise nothing is invented, repeated or reordered, for *)
(* all bodies, all sizes of the buffer and of the blocks, and all short    *)
(* writes: no message is taken for another one's end or start marker.      *)
(***************************************************************************)
THEOREM NothingInventedWithoutNoise == Spec => [](noise = 0 => NothingInvented)
<1>1. ASSUME Flow, noise = 0  PROVE NothingInvented
  <2>1. Exact(sent, delivered)  BY <1>1 DEF Flow, Sound
  <2>2. /\ delivered \in Seq(Range(delivered)) /\ Len(delivered) \in Nat
        /\ \A i \in 1 .. Len(delivered) : delivered[i].call \in DOMAIN sent
    BY <1>1, TypedParts DEF Flow
  <2>3. DOMAIN delivered = 1 .. Len(delivered)  BY <2>2
  <2>4. \A i \in 1 .. Len(delivered) : ~sent[delivered[i].call].hit
    BY <1>1, <2>2 DEF Flow, Unhit
  <2> QED  BY <2>1, <2>3, <2>4 DEF NothingInvented, ForMe, Exact, Faithful, InOrder
<1>2. Flow => (noise = 0 => NothingInvented)  BY <1>1
<1> QED  BY <1>2, AlwaysFlow, PTL
---------------------------------------------------------------------------
(***************************************************************************)
(* A call that noise has spared, and all of whose bytes are there.         *)
(***************************************************************************)
\* l is its last byte, and its first is not cut off.
LastOf(p, calls, s, c, l) ==
    /\ l \in 1 .. Len(s) /\ s[l].call = c /\ c \in DOMAIN calls
    /\ s[l].pos = Len(Wrote(p, calls, c)) /\ s[l].pos <= l
    /\ ~calls[c].hit /\ calls[c].ok /\ calls[c].msg.dst = Addr /\ Whole(p, calls[c].msg)

LEMMA LastIs ==
    ASSUME NEW p, NEW calls, NEW s, Tidy(p, calls, s), NEW c, NEW l, LastOf(p, calls, s, c, l)
    PROVE  /\ Len(s) \in Nat /\ l \in Nat /\ l <= Len(s) /\ s[l].pos \in Nat
           /\ MinLen(p) <= s[l].pos /\ 8 <= s[l].pos /\ s[l].pos <= l
           /\ \A k \in 1 .. l : l - k < s[l].pos => s[k].call = c /\ s[k].pos = s[l].pos - (l - k)
<1>1. /\ l \in 1 .. Len(s) /\ s[l].call = c /\ ~calls[c].hit
      /\ s[l].pos = Len(Wrote(p, calls, c)) /\ s[l].pos <= l /\ Whole(p, calls[c].msg)
  BY DEF LastOf
<1>2. Len(s) \in Nat /\ s[l].pos \in Nat /\ calls[c].msg \in MessagesOf(p) /\ p \in Protos
  BY <1>1, TidyParts DEF Tidy
<1>3. MinLen(p) <= s[l].pos /\ 8 <= s[l].pos  BY <1>1, <1>2, WroteIs DEF Wrote
<1>4. ASSUME NEW k \in 1 .. l, l - k < s[l].pos
      PROVE  s[k].call = c /\ s[k].pos = s[l].pos - (l - k)
  <2>1. ~calls[s[l].call].hit  BY <1>1
  <2>0. l \in 1 .. Len(s)  BY <1>1
  <2>2. s[k].call = s[l].call  BY <1>4, <2>0, <2>1, SameCall, SMTT(30)
  <2>3. s[k].pos = s[l].pos - (l - k)  BY <1>4, <2>0, <2>1, SameCall, SMTT(30)
  <2> QED  BY <1>1, <2>2, <2>3
<1> QED  BY <1>1, <1>2, <1>3, <1>4

\* Its first byte is a start marker, where the second one has come, too.
LEMMA FirstIs ==
    ASSUME NEW p, NEW calls, NEW s, Tidy(p, calls, s), Clean(p, calls), NEW b \in 1 .. Len(s),
           ~calls[s[b].call].hit, s[b].pos = 1,
           p = "fffe" => b + 1 <= Len(s) /\ s[b + 1].pos = 2
    PROVE  b \in At(s, StartMark(p))
BY StartIn

LEMMA Between ==
    ASSUME NEW p, NEW calls, NEW s, Tidy(p, calls, s), Clean(p, calls),
           NEW k \in 1 .. Len(s), ~calls[s[k].call].hit
    PROVE  /\ k \in At(s, StartMark(p)) => s[k].pos = 1
           /\ k \in At(s, EndMark(p)) =>
                LET j == k + MarkLen(p) - 1 IN
                /\ j \in 1 .. Len(s) /\ s[j].pos = Len(Wrote(p, calls, s[k].call))
                /\ s[j].call = s[k].call
<1>1. k \in At(s, StartMark(p)) => s[k].pos = 1  BY StartIs
<1>2. ASSUME k \in At(s, EndMark(p))
      PROVE  LET j == k + MarkLen(p) - 1 IN
             /\ j \in 1 .. Len(s) /\ s[j].pos = Len(Wrote(p, calls, s[k].call))
             /\ s[j].call = s[k].call
  <2>1. EndOf(p, calls, s, k)  BY <1>2, EndIs
  <2> QED  BY <2>1 DEF EndOf
<1> QED  BY <1>1, <1>2

LEMMA Arrives ==
    ASSUME NEW calls, NEW s, Tidy(proto, calls, s), Clean(proto, calls),
           NEW c, NEW l, LastOf(proto, calls, s, c, l)
    PROVE  LET e == l - MarkLen(proto) + 1 IN
           e \in Good(s) /\ Entry(s, e) = [msg |-> calls[c].msg, call |-> c]
<1> DEFINE L == MarkLen(proto)
           m == s[l].pos
           b == l - m + 1
           e == l - L + 1
           h == b + 1
           starts == At(s, StartMark(proto))
           ends == At(s, EndMark(proto))
<1>1. /\ Len(s) \in Nat /\ l \in Nat /\ l <= Len(s) /\ m \in Nat /\ 8 <= m /\ m <= l
      /\ \A k \in 1 .. l : l - k < m => s[k].call = c /\ s[k].pos = m - (l - k)
  BY LastIs
<1>2. /\ l \in 1 .. Len(s) /\ s[l].call = c /\ ~calls[c].hit /\ calls[c].ok
      /\ calls[c].msg.dst = Addr /\ m = Len(Wrote(proto, calls, c)) /\ Whole(proto, calls[c].msg)
  BY DEF LastOf
<1>3. proto \in Protos /\ L \in {1, 2}  BY MarkLens DEF Tidy
<1> HIDE DEF m, L, starts, ends
<1>4. /\ b \in 1 .. l /\ e \in 1 .. l /\ h \in 1 .. l /\ b < e /\ l - b = m - 1 /\ l - e = L - 1 /\ l - h = m - 2
      /\ h = b + 1 /\ e + L - 1 = l
  BY <1>1, <1>3
<1> HIDE DEF b, e, h
<1>5. /\ s[b].call = c /\ s[b].pos = 1 /\ s[h].pos = 2 /\ s[e].call = c /\ s[e].pos = m - L + 1
      /\ b \in 1 .. Len(s) /\ e \in 1 .. Len(s) /\ h <= Len(s)
  <2>1. l - b < m /\ l - h < m /\ l - e < m  BY <1>1, <1>3, <1>4
  <2>2. s[b].call = c /\ s[b].pos = m - (l - b)  BY <1>1, <1>4, <2>1
  <2>3. s[h].pos = m - (l - h)  BY <1>1, <1>4, <2>1
  <2>4. s[e].call = c /\ s[e].pos = m - (l - e)  BY <1>1, <1>4, <2>1
  <2>5. m - (l - b) = 1 /\ m - (l - h) = 2 /\ m - (l - e) = m - L + 1  BY <1>1, <1>3, <1>4
  <2>6. b \in 1 .. Len(s) /\ e \in 1 .. Len(s) /\ h <= Len(s)  BY <1>1, <1>4
  <2> QED  BY <2>2, <2>3, <2>4, <2>5, <2>6
<1>6. b \in starts
  <2>1. b + 1 <= Len(s) /\ s[b + 1].pos = 2 /\ ~calls[s[b].call].hit  BY <1>2, <1>4, <1>5
  <2> QED  BY <1>5, <2>1, FirstIs DEF starts
<1>7. EndOf(proto, calls, s, e)
  BY <1>2, <1>4, <1>5 DEF EndOf, L, m
<1>8. e \in ends  BY <1>7, EndIn DEF ends
<1>9. ASSUME NEW k \in b + 1 .. e - 1  PROVE k \notin starts \cup ends
  <2>1. k \in 1 .. l /\ k \in 1 .. Len(s) /\ l - k < m /\ m - (l - k) # 1
        /\ k + L - 1 \in 1 .. l /\ l - (k + L - 1) < m /\ k + L - 1 # l
    BY <1>1, <1>3, <1>4
  <2>2. s[k].call = c /\ s[k].pos # 1  BY <1>1, <2>1
  <2> DEFINE j == k + L - 1
  <2>3. s[j].pos = m - (l - j)
    <3>1. j \in 1 .. l /\ l - j < m  BY <2>1
    <3> HIDE DEF j
    <3> QED  BY <1>1, <3>1
  <2>4. m - (l - j) # m
    <3>1. j \in Int /\ j # l  BY <2>1
    <3> HIDE DEF j
    <3> QED  BY <1>1, <3>1
  <2>5. k \in ends => s[j].pos = m  BY <1>2, <2>1, <2>2, Between DEF ends, L
  <2>6. k \in starts => s[k].pos = 1  BY <1>2, <2>1, <2>2, Between DEF starts
  <2> QED  BY <2>2, <2>3, <2>4, <2>5, <2>6
<1>10. e \in Ends(s)  BY <1>4, <1>6, <1>8, <1>9 DEF Ends, starts, ends
<1>11. FrameTo(s, e) = Wrote(proto, calls, c)  BY <1>2, <1>5, <1>10, FrameIs
<1>12. calls[c].msg \in MessagesOf(proto)  BY <1>2, TidyParts
<1>13. Accepts(proto, FrameTo(s, e), Addr) /\ Message(proto, FrameTo(s, e), Addr) = calls[c].msg
  BY <1>2, <1>3, <1>11, <1>12, WroteIs DEF Wrote
<1>14. e \in Good(s) /\ Entry(s, e) = [msg |-> calls[c].msg, call |-> c]
  BY <1>5, <1>10, <1>13 DEF Good, Entry
<1> QED  BY <1>14 DEF e, L

\* s is the beginning of t, which has the last byte of the call, and s has not.
LEMMA Stays ==
    ASSUME NEW calls, NEW t, Tidy(proto, calls, t), Clean(proto, calls),
           NEW s, Tidy(proto, calls, s), Len(s) <= Len(t), \A k \in 1 .. Len(s) : s[k] = t[k],
           NEW c, NEW l, LastOf(proto, calls, t, c, l), Len(s) < l,
           NEW b, b = l - t[l].pos + 1, b \in At(s, StartMark(proto))
    PROVE  RestFrom(s) = b
<1> DEFINE L == MarkLen(proto)
           m == t[l].pos
           n == Len(s)
           starts == At(s, StartMark(proto))
           M == Max(starts)
<1>1. /\ Len(t) \in Nat /\ l \in Nat /\ l <= Len(t) /\ m \in Nat /\ 8 <= m /\ m <= l
      /\ \A k \in 1 .. l : l - k < m => t[k].call = c /\ t[k].pos = m - (l - k)
  BY LastIs
<1>2. ~calls[c].hit /\ m = Len(Wrote(proto, calls, c))  BY DEF LastOf
<1>3. n \in Nat /\ DOMAIN s = 1 .. n /\ proto \in Protos /\ L \in {1, 2} /\ s \in Seq(SentOf(calls))
  BY MarkLens DEF Tidy
<1>4. starts \subseteq 1 .. n  BY <1>3 DEF At
<1>5. b \in starts /\ b \in 1 .. n /\ b = l - m + 1 /\ n < l /\ \A k \in 1 .. n : s[k] = t[k]
  BY <1>4
<1> HIDE DEF L, m, n, starts
<1>6. M \in starts /\ \A k \in starts : k <= M  BY <1>3, <1>4, <1>5, MaxOf
<1>7. ASSUME NEW k \in 1 .. n, k > b
      PROVE  s[k].call = c /\ s[k].pos = m - (l - k) /\ s[k].pos # 1 /\ s[k].pos # m /\ k \in 1 .. Len(s)
  <2>1. k \in 1 .. l /\ l - k < m /\ m - (l - k) # 1 /\ m - (l - k) # m  BY <1>1, <1>3, <1>5, <1>7
  <2>2. t[k].call = c /\ t[k].pos = m - (l - k)  BY <1>1, <2>1
  <2> QED  BY <1>5, <2>1, <2>2 DEF n
<1>8. M = b
  <2> SUFFICES ASSUME M # b  PROVE FALSE
    OBVIOUS
  <2> HIDE DEF M
  <2>1. M \in 1 .. n /\ M > b  BY <1>4, <1>5, <1>6
  <2>2. s[M].call = c /\ s[M].pos # 1 /\ M \in 1 .. Len(s)  BY <1>7, <2>1
  <2>3. s[M].pos = 1  BY <1>2, <1>6, <2>2, Between DEF starts
  <2> QED  BY <2>2, <2>3
<1>9. ASSUME NEW e \in Ends(s)  PROVE ~ (e > b)
  <2> SUFFICES ASSUME e > b  PROVE FALSE
    OBVIOUS
  <2>1. e \in 1 .. n /\ e \in At(s, EndMark(proto))  BY <1>3, GoodType DEF Ends, n
  <2>2. s[e].call = c /\ e \in 1 .. Len(s)  BY <1>7, <2>1
  <2> DEFINE j == e + L - 1
  <2>3. j \in 1 .. Len(s) /\ s[j].pos = m  BY <1>2, <2>1, <2>2, Between DEF L
  <2>4. j > b  BY <1>3, <1>5, <2>1
  <2> HIDE DEF j
  <2>5. j \in 1 .. n  BY <2>3 DEF n
  <2>6. s[j].pos # m  BY <1>7, <2>4, <2>5
  <2> QED  BY <2>3, <2>6
<1>10. Ends(s) # {} => ~ (Max(Ends(s)) > b)
  <2> DEFINE S == Ends(s)
  <2>1. S \subseteq 1 .. n  BY <1>3, GoodType DEF n
  <2> HIDE DEF S
  <2>2. S # {} => Max(S) \in S  BY <1>3, <2>1, MaxOf
  <2> QED  BY <1>9, <2>2 DEF S
<1> QED  BY <1>5, <1>8, <1>10 DEF RestFrom, starts

(***************************************************************************)
(* In fffeFrame a start marker takes two bytes.                            *)
(***************************************************************************)
\* No byte of a call comes without its first, and no first without a second.
Heads(s) ==
    /\ Len(s) # 0 => s[1].pos = 1
    /\ \A k \in 1 .. Len(s) : s[k].pos = 1 => k + 1 \in 1 .. Len(s) /\ s[k + 1].pos = 2

Fits(p, calls) == \A c \in DOMAIN calls : Len(Wrote(p, calls, c)) <= MaxFrame

LEMMA FffeRest ==
    ASSUME proto = "fffe", NEW calls, \A c \in DOMAIN calls : ~calls[c].hit, Fits(proto, calls),
           NEW t, Tidy(proto, calls, t), Heads(t),
           NEW s, Tidy(proto, calls, s), Len(s) <= Len(t), \A k \in 1 .. Len(s) : s[k] = t[k],
           14 <= Len(s)
    PROVE  LET f == RestFrom(s) n == Len(s) IN
           /\ f \in 1 .. n + 1
           /\ f <= Len(t) => t[f].pos = 1
           /\ n - f + 1 <= MaxFrame
           /\ s[n].pos = 1 => f <= n
<1> DEFINE f == RestFrom(s)
           n == Len(s)
           starts == At(s, StartMark(proto))
           M == Max(starts)
           S == Ends(s)
           z == Max(S)
           N(c) == Len(Wrote(proto, calls, c))
<1>1. Clean(proto, calls)  BY DEF Clean
<1>2. /\ n \in Nat /\ 14 <= n /\ Len(t) \in Nat /\ n <= Len(t) /\ s \in Seq(SentOf(calls))
      /\ proto \in Protos /\ MarkLen(proto) = 2 /\ DOMAIN s = 1 .. n /\ MaxFrame \in Nat /\ MinLen(proto) = 14
  BY FrameLinkAssumption DEF Tidy, MarkLen, MinLen
<1>3. /\ \A k \in 1 .. n : s[k] = t[k] /\ k \in 1 .. Len(t) /\ k \in 1 .. Len(s)
      /\ \A k \in 1 .. Len(t) : t[k].call \in DOMAIN calls /\ ~calls[t[k].call].hit /\ t[k].pos \in Nat /\ t[k].pos >= 1
  <2>1. \A k \in 1 .. n : s[k] = t[k] /\ k \in 1 .. Len(t) /\ k \in 1 .. Len(s)
    <3> HIDE DEF n
    <3>1. n = Len(s)  BY DEF n
    <3> QED  BY <1>2, <3>1
  <2>2. \A k \in 1 .. Len(t) : t[k].call \in DOMAIN calls /\ ~calls[t[k].call].hit /\ t[k].pos \in Nat /\ t[k].pos >= 1
    <3> TAKE k \in 1 .. Len(t)
    <3>1. t[k].call \in DOMAIN calls /\ t[k].pos \in Nat /\ t[k].pos >= 1  BY TidyParts
    <3> QED  BY <3>1
  <2> QED  BY <2>1, <2>2
<1>4. \A c \in DOMAIN calls : N(c) \in Nat /\ N(c) <= MaxFrame /\ 14 <= N(c) /\ calls[c].msg.dst = Addr
  <2> TAKE c \in DOMAIN calls
  <2>1. calls[c].msg \in MessagesOf("fffe")
    <3> DEFINE R == [msg : MessagesOf(proto), ok : BOOLEAN, hit : BOOLEAN]
    <3>1. calls \in Seq(R)  BY DEF Tidy, CallsOf
    <3> HIDE DEF R
    <3>2. calls[c] \in R  BY <3>1
    <3> QED  BY <3>2 DEF R
  <2>2. N(c) \in Nat /\ 14 <= N(c) /\ calls[c].msg.dst = Addr  BY <2>1, FffeWrote DEF Wrote
  <2> QED  BY <2>2 DEF Fits
<1>5. ASSUME NEW k \in 1 .. n - 1, s[k].pos = 1  PROVE k \in starts
  <2>1. k \in 1 .. n /\ k + 1 \in 1 .. n  BY <1>2, <1>5
  <2>2. t[k + 1].pos = 2  BY <1>3, <1>5, <2>1 DEF Heads
  <2>3. s[k + 1].pos = 2 /\ k + 1 <= Len(s)
    <3> DEFINE h == k + 1
    <3>1. h \in 1 .. n /\ t[h].pos = 2  BY <2>1, <2>2
    <3> HIDE DEF h
    <3>2. s[h].pos = 2 /\ h <= n  BY <1>2, <1>3, <3>1
    <3> QED  BY <3>2 DEF h
  <2>4. ~calls[s[k].call].hit  BY <1>3, <2>1
  <2> QED  BY <1>1, <1>3, <1>5, <2>1, <2>3, <2>4, FirstIs DEF starts
<1>6. \A k \in starts : k \in 1 .. n - 1 /\ k \in 1 .. n /\ s[k].pos = 1
  <2> TAKE k \in starts
  <2>0. k \in 1 .. n  BY <1>2 DEF At
  <2>1. ~calls[s[k].call].hit  BY <1>3, <2>0
  <2>2. k \in 1 .. Len(s) /\ s[k].pos = 1 /\ k + 1 <= Len(s)  BY <1>1, <2>1, StartIs DEF starts
  <2> QED  BY <1>2, <2>0, <2>2
<1>7. 1 \in starts
  <2>1. 1 \in 1 .. n - 1 /\ 1 \in 1 .. n /\ Len(t) # 0  BY <1>2
  <2>2. t[1].pos = 1  BY <2>1 DEF Heads
  <2>3. s[1].pos = 1  BY <1>3, <2>1, <2>2
  <2> QED  BY <1>5, <2>1, <2>3
<1> HIDE DEF starts, S
<1>8. M \in starts /\ (\A k \in starts : k <= M) /\ M \in 1 .. n - 1 /\ M \in 1 .. n /\ s[M].pos = 1
  <2>1. starts \subseteq 1 .. n /\ starts # {}  BY <1>6, <1>7
  <2>2. M \in starts /\ \A k \in starts : k <= M  BY <1>2, <2>1, MaxOf
  <2> HIDE DEF M
  <2> QED  BY <1>6, <2>2
<1>9. S # {} => z \in S /\ \A k \in S : k <= z
  <2>1. S \subseteq 1 .. n  BY <1>2, GoodType DEF S
  <2> QED  BY <1>2, <2>1, MaxOf
<1>10. \A e \in S : /\ e \in Nat /\ e + 1 \in 1 .. n /\ s[e + 1].pos = N(s[e + 1].call)
                    /\ s[e + 1].call \in DOMAIN calls
  <2> TAKE e \in S
  <2>0. e \in At(s, EndMark(proto)) /\ e \in 1 .. n  BY <1>2, GoodType DEF S, Ends
  <2>1. ~calls[s[e].call].hit /\ e \in 1 .. Len(s)  BY <1>3, <2>0
  <2> DEFINE j == e + MarkLen(proto) - 1
  <2>2. j \in 1 .. Len(s) /\ s[j].pos = N(s[e].call) /\ s[j].call = s[e].call
    BY <1>1, <2>0, <2>1, Between
  <2>3. j = e + 1  BY <1>2, <2>0
  <2>4. s[e].call \in DOMAIN calls  BY <1>3, <2>0
  <2> HIDE DEF j
  <2> QED  BY <2>0, <2>2, <2>3, <2>4
<1>11. f = IF S # {} /\ z > M THEN z + 2 ELSE M
  BY <1>2, <1>7 DEF RestFrom, starts, S
<1> HIDE DEF f, n, M, z, N
<1>12. CASE S # {} /\ z > M
  <2>1. f = z + 2 /\ z \in S /\ z > M  BY <1>9, <1>11, <1>12
  <2> DEFINE j == z + 1
             c == s[j].call
  <2>2. z \in Nat /\ j \in 1 .. n /\ s[j].pos = N(c) /\ c \in DOMAIN calls  BY <1>10, <2>1
  <2>3. N(c) \in Nat /\ N(c) <= MaxFrame /\ 14 <= N(c)  BY <1>4, <2>2
  <2>4. j = z + 1  OBVIOUS
  <2>5. f \in 1 .. n + 1 /\ f = j + 1  BY <1>2, <2>1, <2>2, <2>4
  <2>6. t[j] = s[j] /\ j \in 1 .. Len(t)  BY <1>3, <2>2
  <2> HIDE DEF j
  <2>7. ASSUME f <= Len(t)  PROVE t[f].pos = 1
    <3>1. f \in 1 .. Len(t) /\ j < f /\ f - j = 1  BY <1>2, <2>2, <2>5, <2>7
    <3>3. Before(calls, t[j], t[f], 1) /\ Tagged(proto, calls, t[f])
      <4>1. Before(calls, t[j], t[f], f - j)  BY <2>6, <3>1 DEF Tidy
      <4>2. Tagged(proto, calls, t[f])  BY <3>1 DEF Tidy
      <4> QED  BY <3>1, <4>1, <4>2
    <3> DEFINE y == t[f]
    <3>4. ~calls[y.call].hit /\ y.pos \in Nat /\ y.pos >= 1 /\ y.call \in DOMAIN calls  BY <1>3, <3>1
    <3>5. 1 < y.pos => t[j].call = y.call /\ t[j].pos = y.pos - 1  BY <3>3, <3>4 DEF Before
    <3>6. y.pos <= N(y.call)  BY <3>3, <3>4 DEF Tagged, N
    <3>7. 1 < y.pos => y.call = c /\ N(c) = y.pos - 1  BY <2>2, <2>6, <3>5
    <3> DEFINE m == y.pos
    <3>8. m \in Nat /\ m >= 1 /\ (1 < m => N(c) = m - 1 /\ m <= N(c))  BY <3>4, <3>6, <3>7
    <3> HIDE DEF m, c
    <3>9. m = 1  BY <2>3, <3>8
    <3> QED  BY <3>9 DEF m
  <2>8. ~ (f < n)
    <3> SUFFICES ASSUME f < n  PROVE FALSE
      OBVIOUS
    <3>1. f \in 1 .. n - 1 /\ f \in 1 .. n /\ f <= Len(t)  BY <1>2, <2>5
    <3>2. s[f].pos = 1  BY <1>3, <2>7, <3>1
    <3>3. f \in starts  BY <1>5, <3>1, <3>2 DEF n
    <3>4. f <= M  BY <1>8, <3>3
    <3> QED  BY <1>8, <2>1, <2>2, <3>4
  <2>9. n - f + 1 <= MaxFrame  BY <1>2, <2>3, <2>5, <2>8
  <2>10. s[n].pos = 1 => f <= n
    <3> SUFFICES ASSUME s[n].pos = 1, ~ (f <= n)  PROVE FALSE
      OBVIOUS
    <3>1. j = n  BY <1>2, <2>2, <2>5
    <3>2. N(c) = 1  BY <2>2, <3>1
    <3> QED  BY <2>3, <3>2
  <2> QED  BY <2>5, <2>7, <2>9, <2>10 DEF f, n
<1>13. CASE ~ (S # {} /\ z > M)
  <2>1. f = M  BY <1>11, <1>13
  <2>2. f \in 1 .. n + 1 /\ f <= n /\ t[f].pos = 1  BY <1>2, <1>3, <1>8, <2>1
  <2> DEFINE c == s[M].call
             k == M + N(c) - 1
             e == k - 1
  <2>3. c \in DOMAIN calls /\ ~calls[c].hit  BY <1>3, <1>8
  <2>4. N(c) \in Nat /\ N(c) <= MaxFrame /\ 14 <= N(c) /\ calls[c].msg.dst = Addr  BY <1>4, <2>3
  <2> HIDE DEF c
  <2>5. n - M + 1 <= N(c)
    <3> SUFFICES ASSUME ~ (n - M + 1 <= N(c))  PROVE FALSE
      OBVIOUS
    <3>1. /\ k \in 1 .. n - 1 /\ k \in 1 .. n /\ M < k /\ k - M = N(c) - 1 /\ N(c) <= k /\ e > M /\ e \in Nat
      BY <1>2, <1>8, <2>4
    <3>2. e = k - 2 + 1  BY <3>1
    <3> HIDE DEF k, e
    <3>3. Before(calls, s[M], s[k], k - M) /\ Tagged(proto, calls, s[k])  BY <1>8, <3>1 DEF Tidy, n
    <3> DEFINE y == s[k]
               m == y.pos
    <3>4. ~calls[y.call].hit /\ m \in Nat /\ m >= 1 /\ y.call \in DOMAIN calls  BY <1>3, <3>1
    <3>5. CASE k - M < m
      <4>1. s[M].call = y.call /\ s[M].pos = m - (k - M)  BY <3>3, <3>4, <3>5 DEF Before
      <4>2. y.call = c  BY <4>1 DEF c
      <4>3. 1 = m - (k - M)  BY <1>8, <4>1
      <4> HIDE DEF m
      <4>4. m = N(c)  BY <2>4, <3>1, <3>4, <4>3
      <4>5. m <= k /\ calls[c].ok  BY <3>1, <3>3, <3>4, <4>2, <4>4 DEF Tagged, N, m
      <4>6. Whole(proto, calls[c].msg)  BY DEF Whole
      <4>7. LastOf(proto, calls, s, c, k)
        BY <2>3, <2>4, <3>1, <4>2, <4>4, <4>5, <4>6 DEF LastOf, N, m, n
      <4>8. e \in Good(s)
        <5>1. k - MarkLen(proto) + 1 \in Good(s)  BY <1>1, <4>7, Arrives
        <5> QED  BY <1>2, <3>2, <5>1
      <4>9. e \in S  BY <4>8 DEF Good, S
      <4>10. e <= z /\ S # {} /\ z \in Nat  BY <1>9, <1>10, <4>9
      <4>11. z > M  BY <1>8, <3>1, <4>10
      <4> QED  BY <1>13, <4>10, <4>11
    <3>6. CASE ~ (k - M < m)
      <4> DEFINE h == k - m + 1
      <4> HIDE DEF m
      <4>1. h \in 1 .. n - 1 /\ h \in 1 .. k /\ h > M /\ k - h = m - 1 /\ k - h < m /\ m - (k - h) = 1
        BY <1>2, <1>8, <3>1, <3>4, <3>6
      <4> HIDE DEF h
      <4>2. s[h].pos = s[k].pos - (k - h)
        <5>1. k \in 1 .. Len(s) /\ ~calls[s[k].call].hit /\ k - h < s[k].pos
          BY <3>1, <3>4, <4>1 DEF n, m
        <5> QED  BY <4>1, <5>1, SameCall, SMTT(30)
      <4>3. s[h].pos = 1  BY <4>1, <4>2 DEF m
      <4>4. h \in starts  BY <1>5, <4>1, <4>3 DEF n
      <4>5. h <= M  BY <1>8, <4>4
      <4> QED  BY <1>8, <4>1, <4>5
    <3> QED  BY <3>5, <3>6
  <2>6. n - f + 1 <= MaxFrame  BY <1>2, <1>8, <2>1, <2>4, <2>5
  <2> QED  BY <2>2, <2>6 DEF f, n
<1> QED  BY <1>12, <1>13
---------------------------------------------------------------------------
(***************************************************************************)
(* Where the frames are that rx_indicate still has to get.                 *)
(***************************************************************************)
\* What is sent fits into the lengths of the format.
FramesFit == \A p \in UsedProtos : \A msg \in MessagesOf(p) : Whole(p, msg)

\* Bodies of up to 120 bytes do, whatever is in them.
LEMMA ShortFramesFit ==
    ASSUME \A b \in Bodies : Len(b) <= 120
    PROVE  FramesFit
<1> SUFFICES ASSUME NEW msg \in MessagesOf("hdlc")  PROVE Whole("hdlc", msg)
  BY DEF FramesFit, Whole
<1>1. msg \in HdlcMsg /\ OtherAddr \in Byte  BY HdlcMessages, FrameLinkAssumption
<1>2. msg.body \in Bodies
  <2> DEFINE r == RangeOf("hdlc")
  <2>1. msg \in [dst : {Addr, OtherAddr}, type : 0 .. r - 1, id : 0 .. r - 1, body : Bodies]
    BY DEF MessagesOf
  <2> HIDE DEF r
  <2> QED  BY <2>1
<1>3. Written("hdlc", OtherAddr, msg) = HdlcCode(HdlcFrame(OtherAddr, msg))
  BY <1>1, <1>2, HdlcFits DEF Written
<1> QED  BY <1>3 DEF Whole

Pending(calls, d, c) ==
    /\ calls[c].ok /\ calls[c].msg.dst = Addr /\ ~calls[c].hit
    /\ \A i \in 1 .. Len(d) : d[i] # [msg |-> calls[c].msg, call |-> c]

\* All of call c is in s, its last byte, at l, behind the n bytes of rx_buffer.
\* In an hdlc buffer that has been searched, a frame that has begun is the first.
Awaited(p, calls, s, n, c, l) ==
    /\ LastOf(p, calls, s, c, l) /\ n < l
    /\ p = "hdlc" /\ l - s[l].pos < n => n < 8 \/ s[l].pos = l

StillComes(p, calls, s, n, c) == \E l : Awaited(p, calls, s, n, c, l)

Arrival ==
    /\ Flow /\ Fits(proto, sent)
    /\ proto = "fffe" /\ noise = 0 /\ Roomy => Heads(All) /\ Len(rx_buffer) <= MaxFrame
    /\ Sound /\ Roomy =>
         \A c \in DOMAIN sent :
           Pending(sent, delivered, c) => StillComes(proto, sent, All, Len(rx_buffer), c)

LEMMA ArrivalSend ==
    ASSUME FramesFit, "fffe" \in UsedProtos => 1 \notin Cuts,
           Arrival, NEW msg \in MessagesOf(proto), Send(msg), Typed'
    PROVE  Arrival'
<1>0. Flow /\ Typed  BY DEF Flow, Arrival
<1> USE <1>0
<1>1. PICK n, ok : SentNow(msg, n, ok)  BY SentIs
<1>2. UNCHANGED <<proto, maxlen, rx_buffer, delivered, noise>>  BY SentIs
<1> DEFINE w == Written(proto, OtherAddr, msg)
           c == Len(sent) + 1
           a == All
           t == All'
           lx == Len(rx_buffer)
<1>3. /\ w \in Seq(Byte) /\ Len(w) \in Nat /\ Len(w) <= MaxFrame
      /\ n \in 0 .. Len(w) /\ (n # Len(w) => n \in Cuts) /\ (ok => n = Len(w))
      /\ Len(sent) \in Nat /\ DOMAIN sent = 1 .. Len(sent) /\ DOMAIN sent' = 1 .. c
      /\ \A d \in DOMAIN sent : sent'[d] = sent[d]
      /\ sent'[c] = [msg |-> msg, ok |-> ok, hit |-> FALSE]
      /\ Len(a) \in Nat /\ Len(t) = Len(a) + n
      /\ \A k \in 1 .. Len(a) : t[k] = a[k]
      /\ \A i \in 1 .. n : t[Len(a) + i] = [byte |-> w[i], call |-> c, pos |-> i]
  BY <1>1 DEF SentNow
<1>4. sent'[c].msg = msg /\ sent'[c].ok = ok /\ ~sent'[c].hit  BY <1>3
<1>5. Whole(proto, msg) /\ proto \in Protos /\ lx \in Nat /\ lx <= Len(a)
  <2>1. Len(a) = lx + Len(line) /\ lx \in Nat /\ Len(line) \in Nat  BY AllIs, TypedParts
  <2> HIDE DEF lx, a
  <2> QED  BY <2>1, TypedParts DEF FramesFit
<1>6. MinLen(proto) <= Len(w) /\ 8 <= Len(w)  BY <1>5, WroteIs
<1>7. \A i \in 1 .. n : t[Len(a) + i].pos = i /\ t[Len(a) + i].call = c
  <2> TAKE i \in 1 .. n
  <2>1. t[Len(a) + i] = [byte |-> w[i], call |-> c, pos |-> i]  BY <1>3
  <2> HIDE DEF t, a, w, c
  <2> QED  BY <2>1
<1>8. Flow'  BY FlowSend
<1>9. /\ Wrote(proto, sent', c) = w
      /\ \A d \in DOMAIN sent : Wrote(proto, sent', d) = Wrote(proto, sent, d)
  BY <1>3, <1>4 DEF Wrote
<1> HIDE DEF w, a, t, lx
<1>10. Fits(proto, sent')
  <2> SUFFICES ASSUME NEW d \in DOMAIN sent'  PROVE Len(Wrote(proto, sent', d)) <= MaxFrame
    BY DEF Fits
  <2>1. CASE d \in DOMAIN sent
    <3>1. Len(Wrote(proto, sent, d)) <= MaxFrame  BY <2>1 DEF Arrival, Fits
    <3> QED  BY <1>9, <2>1, <3>1
  <2>2. CASE d = c  BY <1>3, <1>9, <2>2
  <2> QED  BY <1>3, <2>1, <2>2
<1>11. ASSUME proto = "fffe", noise = 0, Roomy  PROVE Heads(t) /\ Len(rx_buffer) <= MaxFrame
  <2>1. Heads(a) /\ Len(rx_buffer) <= MaxFrame  BY <1>11 DEF Arrival, a
  <2>2. n # 1
    <3>1. 1 \notin Cuts  BY <1>11, TypedParts
    <3>2. Len(w) # 1
      <4> DEFINE m == Len(w)
      <4>1. m \in Nat /\ 8 <= m  BY <1>3, <1>6
      <4> HIDE DEF m
      <4>2. m # 1  BY <4>1
      <4> QED  BY <4>2 DEF m
    <3> QED  BY <1>3, <3>1, <3>2
  <2>3. Len(t) # 0 => t[1].pos = 1
    <3>1. CASE Len(a) = 0
      <4> SUFFICES ASSUME Len(t) # 0  PROVE t[1].pos = 1
        OBVIOUS
      <4>1. 1 \in 1 .. n /\ Len(a) + 1 = 1  BY <1>3, <3>1
      <4> QED  BY <1>7, <4>1
    <3>2. CASE Len(a) # 0
      <4>1. 1 \in 1 .. Len(a)  BY <1>3, <3>2
      <4> QED  BY <1>3, <2>1, <3>2, <4>1 DEF Heads
    <3> QED  BY <3>1, <3>2
  <2>4. ASSUME NEW k \in 1 .. Len(t), t[k].pos = 1  PROVE k + 1 \in 1 .. Len(t) /\ t[k + 1].pos = 2
    <3> DEFINE h == k + 1
    <3>1. CASE k \in 1 .. Len(a)
      <4>1. h \in 1 .. Len(a) /\ a[h].pos = 2  BY <1>3, <2>1, <2>4, <3>1 DEF Heads
      <4> HIDE DEF h
      <4>2. h \in 1 .. Len(t) /\ t[h] = a[h]  BY <1>3, <4>1
      <4> QED  BY <4>1, <4>2 DEF h
    <3>2. CASE k \notin 1 .. Len(a)
      <4> DEFINE j == k - Len(a)
      <4>1. j \in 1 .. n /\ Len(a) + j = k  BY <1>3, <3>2
      <4> HIDE DEF j
      <4>2. j = 1  BY <1>7, <2>4, <4>1
      <4>3. 2 \in 1 .. n /\ Len(a) + 2 = h /\ h \in 1 .. Len(t)  BY <1>3, <2>2, <4>1, <4>2
      <4> HIDE DEF h
      <4>4. t[h].pos = 2  BY <1>7, <4>3
      <4> QED  BY <4>3, <4>4 DEF h
    <3> QED  BY <3>1, <3>2
  <2> QED  BY <2>1, <2>3, <2>4 DEF Heads
<1>12. ASSUME Sound, Roomy, NEW d \in DOMAIN sent', Pending(sent', delivered, d)
       PROVE  StillComes(proto, sent', t, lx, d)
  <2>1. CASE d \in DOMAIN sent
    <3>1. Pending(sent, delivered, d)  BY <1>3, <1>12, <2>1 DEF Pending
    <3>2. StillComes(proto, sent, a, lx, d)  BY <1>12, <2>1, <3>1 DEF Arrival, a, lx
    <3>3. PICK l : Awaited(proto, sent, a, lx, d, l)  BY <3>2 DEF StillComes
    <3>4. l \in 1 .. Len(a) /\ LastOf(proto, sent, a, d, l)  BY <3>3 DEF Awaited, LastOf
    <3>5. l \in 1 .. Len(t) /\ t[l] = a[l]  BY <1>3, <3>4
    <3>6. LastOf(proto, sent', t, d, l)
      <4>1. sent'[d] = sent[d] /\ Wrote(proto, sent', d) = Wrote(proto, sent, d)  BY <1>3, <1>9, <2>1
      <4> QED  BY <1>12, <3>4, <3>5, <4>1 DEF LastOf
    <3>7. Awaited(proto, sent', t, lx, d, l)  BY <3>3, <3>5, <3>6 DEF Awaited
    <3> QED  BY <3>7 DEF StillComes
  <2>2. CASE d = c
    <3>1. ok /\ msg.dst = Addr /\ n = Len(w)  BY <1>3, <1>4, <1>12, <2>2 DEF Pending
    <3> DEFINE l == Len(a) + n
    <3>2. n \in 1 .. n /\ l \in 1 .. Len(t) /\ n <= l /\ lx < l /\ l - n = Len(a) /\ ~ (Len(a) < lx)
      BY <1>3, <1>5, <1>6, <3>1
    <3>3. t[l].pos = n /\ t[l].call = c  BY <1>7, <3>2
    <3> HIDE DEF l
    <3>4. c \in DOMAIN sent'  BY <1>12, <2>2
    <3> HIDE DEF c
    <3>5. LastOf(proto, sent', t, c, l)
      BY <1>4, <1>5, <1>9, <3>1, <3>2, <3>3, <3>4 DEF LastOf
    <3>6. Awaited(proto, sent', t, lx, c, l)  BY <3>2, <3>3, <3>5 DEF Awaited
    <3> QED  BY <2>2, <3>6 DEF StillComes
  <2> QED  BY <1>3, <2>1, <2>2
<1>13. (Roomy <=> Roomy') /\ (Sound <=> Sound')  BY <1>2 DEF Roomy, Sound
<1> QED  BY <1>2, <1>8, <1>10, <1>11, <1>12, <1>13 DEF Arrival, t, lx

LEMMA ArrivalNoise ==
    ASSUME Arrival, Noise, Typed'
    PROVE  Arrival'
<1>0. Flow /\ Typed  BY DEF Flow, Arrival
<1> USE <1>0
<1> DEFINE a == All
           t == All'
           lx == Len(rx_buffer)
<1>1. noise' # 0 /\ UNCHANGED <<proto, maxlen, id_count, rx_buffer, delivered>>
  BY DamageIs
<1>2. PICK m : Damaged(m)  BY DamageIs
<1>3. /\ m \in 1 .. Len(a) /\ lx < m /\ DOMAIN sent' = DOMAIN sent
      /\ \/ /\ Len(t) = Len(a)
            /\ \A k \in 1 .. Len(a) : t[k].call = a[k].call /\ t[k].pos = a[k].pos
         \/ /\ Len(t) = Len(a) - 1
            /\ \A k \in 1 .. Len(a) - 1 : t[k] = a[IF k < m THEN k ELSE k + 1]
      /\ \A d \in DOMAIN sent : /\ sent'[d].msg = sent[d].msg /\ sent'[d].ok = sent[d].ok
                                /\ sent'[d].hit = (d = a[m].call \/ sent[d].hit)
  BY <1>2 DEF Damaged
<1>4. Tidy(proto, sent, a) /\ Len(a) \in Nat /\ lx \in Nat
  <2>1. Tidy(proto, sent, a)  BY DEF Flow
  <2> HIDE DEF a
  <2> QED  BY <2>1, TypedParts DEF Tidy
<1>5. \A d \in DOMAIN sent : Wrote(proto, sent', d) = Wrote(proto, sent, d)
  BY <1>3 DEF Wrote
<1>6. Flow'  BY FlowNoise
<1>7. Fits(proto, sent')  BY <1>3, <1>5 DEF Arrival, Fits
<1> HIDE DEF a, t, lx
<1>8. ASSUME Sound', Roomy, NEW d \in DOMAIN sent, Pending(sent', delivered, d)
      PROVE  StillComes(proto, sent', t, lx, d)
  <2>1. Sound  BY <1>1, <1>8 DEF Sound
  <2>2. ~sent'[d].hit /\ sent'[d].msg = sent[d].msg /\ sent'[d].ok = sent[d].ok
    BY <1>3, <1>8 DEF Pending
  <2>3. d # a[m].call /\ ~sent[d].hit  BY <1>3, <2>2
  <2>4. Pending(sent, delivered, d)  BY <1>8, <2>2, <2>3 DEF Pending
  <2>5. StillComes(proto, sent, a, lx, d)  BY <1>8, <2>1, <2>4 DEF Arrival, a, lx
  <2>6. PICK l : Awaited(proto, sent, a, lx, d, l)  BY <2>5 DEF StillComes
  <2>7. LastOf(proto, sent, a, d, l)  BY <2>6 DEF Awaited
  <2> DEFINE p == a[l].pos
  <2>8. /\ l \in Nat /\ l <= Len(a) /\ p \in Nat /\ 8 <= p /\ p <= l
        /\ \A k \in 1 .. l : l - k < p => a[k].call = d
    BY <1>4, <2>7, LastIs
  <2>9. lx < l /\ (proto = "hdlc" /\ l - p < lx => lx < 8 \/ p = l)
    BY <2>6 DEF Awaited
  <2>10. p = Len(Wrote(proto, sent', d)) /\ a[l].call = d /\ sent'[d].ok
         /\ sent'[d].msg.dst = Addr /\ Whole(proto, sent'[d].msg)
    BY <1>5, <2>2, <2>7 DEF LastOf
  <2> HIDE DEF p
  <2>11. m > l \/ m <= l - p
    <3> SUFFICES ASSUME m <= l  PROVE m <= l - p
      BY <1>3, <1>4, <2>8
    <3>1. m \in 1 .. l  BY <1>3, <1>4, <2>8
    <3>2. ~ (l - m < p)  BY <2>3, <2>8, <3>1
    <3> QED  BY <1>4, <2>8, <3>1, <3>2
  <2>12. ASSUME NEW h \in 1 .. Len(t), t[h].call = d, t[h].pos = p, p <= h, lx < h,
                h - p < lx => h = l
         PROVE  StillComes(proto, sent', t, lx, d)
    <3>1. d \in DOMAIN sent'  BY <1>3
    <3>2. LastOf(proto, sent', t, d, h)  BY <2>2, <2>10, <2>12, <3>1 DEF LastOf
    <3>3. proto = "hdlc" /\ h - t[h].pos < lx => lx < 8 \/ t[h].pos = h  BY <2>9, <2>12
    <3>4. Awaited(proto, sent', t, lx, d, h)  BY <2>12, <3>2, <3>3 DEF Awaited
    <3> QED  BY <3>4 DEF StillComes
  <2>13. CASE /\ Len(t) = Len(a)
              /\ \A k \in 1 .. Len(a) : t[k].call = a[k].call /\ t[k].pos = a[k].pos
    <3>1. l \in 1 .. Len(t) /\ l \in 1 .. Len(a)  BY <1>4, <2>8, <2>13
    <3> QED  BY <2>8, <2>9, <2>10, <2>12, <2>13, <3>1 DEF p
  <2>14. CASE /\ Len(t) = Len(a) - 1
              /\ \A k \in 1 .. Len(a) - 1 : t[k] = a[IF k < m THEN k ELSE k + 1]
    <3>1. CASE m > l
      <4>1. l \in 1 .. Len(a) - 1 /\ l < m  BY <1>3, <1>4, <2>8, <3>1
      <4>2. l \in 1 .. Len(t) /\ t[l] = a[l]  BY <2>14, <4>1
      <4> QED  BY <2>8, <2>9, <2>10, <2>12, <4>2 DEF p
    <3>2. CASE m <= l - p
      <4> DEFINE h == l - 1
      <4>1. h \in 1 .. Len(a) - 1 /\ ~ (h < m) /\ h + 1 = l /\ p <= h /\ lx < h /\ ~ (h - p < lx)
        BY <1>3, <1>4, <2>8, <3>2
      <4> HIDE DEF h
      <4>2. h \in 1 .. Len(t) /\ t[h] = a[l]  BY <2>14, <4>1
      <4>3. t[h].call = d /\ t[h].pos = p  BY <2>10, <4>2 DEF p
      <4> QED  BY <2>12, <4>1, <4>2, <4>3
    <3> QED  BY <2>11, <3>1, <3>2
  <2> QED  BY <1>3, <2>13, <2>14
<1>9. Roomy' <=> Roomy  BY <1>1 DEF Roomy
<1>10. ASSUME Sound', Roomy', NEW d \in DOMAIN sent', Pending(sent', delivered', d)
       PROVE  StillComes(proto', sent', All', Len(rx_buffer'), d)
  BY <1>1, <1>3, <1>8, <1>9, <1>10 DEF t, lx
<1> QED  BY <1>1, <1>6, <1>7, <1>10 DEF Arrival

\* What the buffer holds is given up only when no frame is in it that is awaited.
LEMMA KeptIs ==
    ASSUME Flow, Fits(proto, sent), Roomy, proto = "fffe" => Len(rx_buffer) <= MaxFrame,
           NEW n \in Chunks, NEW c, NEW l, Awaited(proto, sent, All, Len(rx_buffer), c, l)
    PROVE  /\ \E h : Awaited(proto, sent, Stream(n), Len(Kept(n)), c, h)
           /\ Len(Kept(n)) \in Nat
           /\ proto = "fffe" => Stream(n) = All
<1>0. Typed /\ Tidy(proto, sent, All)  BY DEF Flow
<1> DEFINE a == All
           p == a[l].pos
           lx == Len(rx_buffer)
           ln == Len(line)
<1>1. /\ n \in Nat /\ maxlen \in Nat /\ MaxFrame \in Nat /\ maxlen > MaxFrame + n
      /\ lx \in Nat /\ ln \in Nat
  BY <1>0, TypedParts, FrameLinkAssumption DEF Roomy
<1>2. LastOf(proto, sent, a, c, l) /\ lx < l /\ (proto = "hdlc" /\ l - p < lx => lx < 8 \/ p = l)
  BY DEF Awaited
<1>3. Len(a) \in Nat /\ l \in Nat /\ l <= Len(a) /\ p \in Nat /\ 8 <= p /\ p <= l
  BY <1>0, <1>2, LastIs
<1>4. p <= MaxFrame /\ p = Len(Wrote(proto, sent, c)) /\ a[l].call = c
  BY <1>2 DEF LastOf, Fits
<1>5. Len(a) = lx + ln /\ \A k \in 1 .. ln : a[lx + k] = line[k]
  BY <1>0, AllIs
<1>6. CASE ~ (lx + n > maxlen)
  <2>1. Kept(n) = rx_buffer  BY <1>6 DEF Kept
  <2>2. Stream(n) = a  BY <2>1 DEF Stream, All
  <2> QED  BY <1>1, <2>1, <2>2
<1>7. CASE lx + n > maxlen
  <2>1. Kept(n) = <<>> /\ Len(Kept(n)) = 0  BY <1>7 DEF Kept
  <2>2. proto \in Protos  BY <1>0, TypedParts
  <2> HIDE DEF a, p, lx, ln
  <2>3. lx > MaxFrame  BY <1>1, <1>7
  <2>4. proto = "hdlc"
    <3>1. proto # "fffe"  BY <1>1, <2>3 DEF lx
    <3> QED  BY <2>2, <3>1 DEF Protos
  <2>5. ~ (l - p < lx)  BY <1>1, <1>2, <1>3, <1>4, <2>3, <2>4
  <2>6. Stream(n) = line
    <3> DEFINE R == SentOf(sent)
    <3>1. line \in Seq(R)  BY <1>0, TypedParts
    <3> HIDE DEF R
    <3>2. <<>> \o line = line  BY <3>1
    <3> QED  BY <2>1, <3>2 DEF Stream
  <2> DEFINE h == l - lx
  <2>7. h \in 1 .. ln /\ lx + h = l /\ p <= h /\ 0 < h /\ ~ (h - p < 0)
    BY <1>1, <1>2, <1>3, <1>5, <2>5
  <2> HIDE DEF h
  <2>8. line[h] = a[l]  BY <1>5, <2>7
  <2>9. LastOf(proto, sent, line, c, h)  BY <1>2, <2>7, <2>8 DEF LastOf, ln, p
  <2>10. Awaited(proto, sent, line, 0, c, h)  BY <2>7, <2>8, <2>9 DEF Awaited, p
  <2> QED  BY <2>1, <2>4, <2>6, <2>10
<1> QED  BY <1>6, <1>7

\* A block either has all of the frame, or leaves it where it is.
LEMMA Searched ==
    ASSUME Typed, Tidy(proto, sent, All), Clean(proto, sent), Fits(proto, sent),
           NEW n \in Chunks, Accept(n), proto = "fffe" => Heads(Stream(n)),
           NEW c, NEW l, Awaited(proto, sent, Stream(n), Len(Kept(n)), c, l)
    PROVE  \/ Len(Got(n)) >= MinLen(proto) /\ LastOf(proto, sent, Got(n), c, l)
           \/ StillComes(proto, sent, All', Len(rx_buffer'), c)
<1> DEFINE R == SentOf(sent)
           g == Got(n)
           t == Stream(n)
           f == From(n)
           v == All'
           lg == Len(g)
           lt == Len(t)
           p == t[l].pos
           b == l - p + 1
           L == MinLen(proto)
           y == Len(rx_buffer')
<1>1. proto \in Protos /\ (proto = "hdlc" => L = 8) /\ L \in Nat
  BY TypedParts DEF MinLen, Protos
<1>2. y = lg - f + 1
  <2>1. n \in Nat /\ rx_buffer \in Seq(R) /\ line \in Seq(R)  BY TypedParts, FrameLinkAssumption
  <2> QED  BY <1>1, <2>1, AcceptIs
<1>3. /\ Tidy(proto, sent, t) /\ Tidy(proto, sent, g)
      /\ lg \in Nat /\ lt \in Nat /\ lg <= lt
      /\ \A k \in 1 .. lg : g[k] = t[k] /\ k \in 1 .. lt
      /\ f \in 1 .. lg + 1
      /\ Len(v) = lt - f + 1
      /\ \A k \in 1 .. Len(v) : v[k] = t[k + f - 1]
  BY StreamIs
<1>4. LastOf(proto, sent, t, c, l)  BY DEF Awaited
<1>5. /\ l \in Nat /\ l <= lt /\ p \in Nat /\ L <= p /\ 8 <= p /\ p <= l
      /\ \A k \in 1 .. l : l - k < p => t[k].call = c /\ t[k].pos = p - (l - k)
  BY <1>3, <1>4, LastIs
<1>6. c \in DOMAIN sent /\ ~sent[c].hit /\ t[l].call = c /\ p = Len(Wrote(proto, sent, c))
  BY <1>4 DEF LastOf
<1>7. f = IF lg < L THEN 1 ELSE RestFrom(g)  BY DEF From
<1> HIDE DEF g, t, f, v, lg, lt, p, b, L, y
<1>8. b \in 1 .. l /\ l - b = p - 1 /\ (b > lg <=> ~ (l - p < lg)) /\ b = l - p + 1
  BY <1>3, <1>5 DEF b
<1>9. ASSUME f <= b, lg < l, proto = "hdlc" /\ b <= lg => lg - f + 1 < 8 \/ f = b
      PROVE  StillComes(proto, sent, v, y, c)
  <2> DEFINE h == l - f + 1
  <2>1. /\ h \in 1 .. Len(v) /\ h + f - 1 = l /\ p <= h /\ y < h
        /\ h - p < y => b <= lg
        /\ f = b => p = h
    BY <1>2, <1>3, <1>5, <1>8, <1>9
  <2> HIDE DEF h
  <2>2. v[h] = t[l]  BY <1>3, <2>1
  <2>3. LastOf(proto, sent, v, c, h)  BY <1>4, <2>1, <2>2 DEF LastOf, p
  <2>4. proto = "hdlc" /\ h - v[h].pos < y => y < 8 \/ v[h].pos = h
    BY <1>2, <1>9, <2>1, <2>2 DEF p
  <2>5. Awaited(proto, sent, v, y, c, h)  BY <2>1, <2>3, <2>4 DEF Awaited
  <2> QED  BY <2>5 DEF StillComes
<1>10. CASE lg < L
  <2>1. f = 1 /\ lg < l  BY <1>1, <1>3, <1>5, <1>7, <1>10
  <2>2. f <= b  BY <1>5, <1>8, <2>1
  <2>3. proto = "hdlc" => lg - f + 1 < 8  BY <1>1, <1>3, <1>10, <2>1
  <2> QED  BY <1>9, <2>1, <2>2, <2>3 DEF v, y
<1>11. CASE ~ (lg < L) /\ l <= lg
  <2>1. l \in 1 .. lg /\ g[l] = t[l]  BY <1>3, <1>5, <1>11
  <2>2. LastOf(proto, sent, g, c, l)  BY <1>4, <2>1 DEF LastOf, lg
  <2> QED  BY <1>1, <1>3, <1>11, <2>2 DEF g, lg, L
<1>12. CASE ~ (lg < L) /\ ~ (l <= lg)
  <2>1. f = RestFrom(g) /\ lg < l /\ f \in Nat /\ f <= lg + 1  BY <1>3, <1>5, <1>7, <1>12
  <2>2. CASE b > lg
    <3>1. f <= b /\ ~ (b <= lg)  BY <1>3, <1>8, <2>1, <2>2
    <3> QED  BY <1>9, <2>1, <3>1 DEF v, y
  <2>3. CASE ~ (b > lg)
    <3>1. b \in 1 .. lg /\ g[b] = t[b]  BY <1>3, <1>8, <2>3
    <3>2. g[b].call = c /\ g[b].pos = 1
      <4>1. l - b < p /\ p - (l - b) = 1  BY <1>5, <1>8
      <4> QED  BY <1>5, <1>8, <3>1, <4>1
    <3>3. CASE b \in At(g, StartMark(proto))
      <4>1. RestFrom(g) = b
        <5>1. lg < l /\ lg <= lt /\ \A k \in 1 .. lg : g[k] = t[k]  BY <1>3, <2>1
        <5>2. Len(g) < l /\ Len(g) <= Len(t) /\ \A k \in 1 .. Len(g) : g[k] = t[k]
          BY <5>1 DEF lg, lt
        <5>3. b = l - t[l].pos + 1  BY <1>8 DEF p
        <5>4. Tidy(proto, sent, t) /\ Tidy(proto, sent, g)  BY <1>3
        <5> QED  BY ONLY <1>4, <3>3, <5>2, <5>3, <5>4, Clean(proto, sent), Stays
      <4>2. f = b /\ f <= b  BY <1>8, <2>1, <4>1
      <4> QED  BY <1>9, <2>1, <4>2 DEF v, y
    <3>4. CASE b \notin At(g, StartMark(proto))
      <4>1. proto = "fffe" /\ b = lg
        <5> SUFFICES ASSUME ~ (proto = "fffe" /\ b = lg)  PROVE FALSE
          OBVIOUS
        <5> DEFINE h == b + 1
        <5>1. proto = "fffe" => h \in 1 .. lg /\ h \in 1 .. l /\ l - h < p /\ p - (l - h) = 2
          <6> SUFFICES ASSUME b # lg
                       PROVE  h \in 1 .. lg /\ h \in 1 .. l /\ l - h < p /\ p - (l - h) = 2
            OBVIOUS
          <6>1. b < lg  BY <1>3, <3>1
          <6>2. l - b = p - 1 /\ b \in 1 .. l /\ lg < l  BY <1>8, <2>1
          <6> QED  BY <1>3, <1>5, <6>1, <6>2
        <5> HIDE DEF h
        <5>2. proto = "fffe" => h <= lg /\ g[h].pos = 2
          <6> SUFFICES ASSUME proto = "fffe"  PROVE h <= lg /\ g[h].pos = 2
            OBVIOUS
          <6>1. h \in 1 .. lg /\ h \in 1 .. l /\ l - h < p /\ p - (l - h) = 2  BY <5>1
          <6>2. h <= lg /\ g[h] = t[h]  BY <1>3, <6>1
          <6> QED  BY <1>5, <6>1, <6>2
        <5>3. proto = "fffe" => b + 1 <= Len(g) /\ g[b + 1].pos = 2  BY <5>2 DEF h, lg
        <5>4. b \in 1 .. Len(g) /\ ~sent[g[b].call].hit  BY <1>6, <3>1, <3>2 DEF lg
        <5>5. b \in At(g, StartMark(proto))  BY <1>3, <3>2, <5>3, <5>4, FirstIs
        <5> QED  BY <3>4, <5>5
      <4>2. 14 <= lg  BY <1>1, <1>3, <1>12, <4>1 DEF L, MinLen
      <4>3. \A d \in DOMAIN sent : ~sent[d].hit  BY <4>1 DEF Clean
      <4>4. Heads(t)  BY <4>1 DEF t
      <4>5. g[lg].pos = 1 => f <= lg
        <5>1. lg <= lt /\ \A k \in 1 .. lg : g[k] = t[k]  BY <1>3
        <5>2. LET q == RestFrom(g) m == Len(g) IN g[m].pos = 1 => q <= m
          BY <1>3, <4>1, <4>2, <4>3, <4>4, <5>1, FffeRest DEF lg, lt
        <5> QED  BY <2>1, <5>2 DEF lg
      <4>6. f <= b /\ proto # "hdlc"  BY <3>2, <4>1, <4>5
      <4> QED  BY <1>9, <2>1, <4>6 DEF v, y
    <3> QED  BY <3>3, <3>4
  <2> QED  BY <2>2, <2>3
<1> QED  BY <1>10, <1>11, <1>12

\* In fffeFrame, where nothing is damaged, no byte of a frame stays without its first.
LEMMA HeadsAccept ==
    ASSUME Flow, Fits(proto, sent), proto = "fffe", noise = 0, NEW n \in Chunks, Accept(n),
           Heads(Stream(n))
    PROVE  Heads(All') /\ Len(rx_buffer') <= MaxFrame
<1>0. Typed /\ Tidy(proto, sent, All) /\ \A c \in DOMAIN sent : ~sent[c].hit  BY DEF Flow, Unhit
<1> DEFINE R == SentOf(sent)
           g == Got(n)
           t == Stream(n)
           f == From(n)
           v == All'
           lg == Len(g)
           lt == Len(t)
           y == Len(rx_buffer')
<1>1. y = lg - f + 1 /\ lg >= 1
  <2>1. n \in Nat /\ rx_buffer \in Seq(R) /\ line \in Seq(R) /\ proto \in Protos
    BY <1>0, TypedParts, FrameLinkAssumption
  <2>2. y = lg - f + 1 /\ Taken(n) > 0  BY <2>1, AcceptIs
  <2>3. lg = Len(Kept(n)) + Taken(n) /\ Taken(n) \in 1 .. Len(line)  BY <2>1, <2>2, GotIs
  <2>4. Len(Kept(n)) \in Nat
    <3>1. Kept(n) = <<>> \/ Kept(n) = rx_buffer  BY DEF Kept
    <3> QED  BY <1>0, <3>1, TypedParts
  <2> HIDE DEF y, lg, f
  <2>5. lg >= 1  BY <1>0, <2>3, <2>4, TypedParts
  <2> QED  BY <2>2, <2>5
<1>2. /\ Tidy(proto, sent, t) /\ Tidy(proto, sent, g)
      /\ lg \in Nat /\ lt \in Nat /\ lg <= lt
      /\ \A k \in 1 .. lg : g[k] = t[k] /\ k \in 1 .. lt
      /\ f \in 1 .. lg + 1
      /\ Len(v) = lt - f + 1
      /\ \A k \in 1 .. Len(v) : v[k] = t[k + f - 1] /\ k + f - 1 \in 1 .. lt
  BY <1>0, StreamIs
<1>3. Heads(t) /\ MinLen(proto) = 14 /\ MaxFrame \in Nat  BY FrameLinkAssumption DEF MinLen
<1>4. f = IF lg < 14 THEN 1 ELSE RestFrom(g)  BY <1>3 DEF From
<1> HIDE DEF R, g, t, f, v, lg, lt, y
<1>5. (f <= lt => t[f].pos = 1) /\ lg - f + 1 <= MaxFrame
  <2>1. CASE lg < 14
    <3>1. f = 1  BY <1>4, <2>1
    <3>2. t[1].pos = 1  BY <1>1, <1>2, <1>3 DEF Heads, lt
    <3>3. 14 <= MaxFrame
      <4>1. 1 \in 1 .. Len(t)  BY <1>1, <1>2 DEF lt
      <4> DEFINE c == t[1].call
                 m == Len(Wrote(proto, sent, c))
      <4>2. c \in DOMAIN sent /\ sent[c].msg \in MessagesOf("fffe")  BY <1>2, <4>1, TidyParts
      <4> HIDE DEF c
      <4>3. m \in Nat /\ 14 <= m  BY <4>2, FffeWrote DEF Wrote
      <4>4. m <= MaxFrame  BY <4>2 DEF Fits
      <4> HIDE DEF m
      <4> QED  BY <1>3, <4>3, <4>4
    <3> QED  BY <1>2, <1>3, <2>1, <3>1, <3>2, <3>3
  <2>2. CASE ~ (lg < 14)
    <3>1. f = RestFrom(g)  BY <1>4, <2>2
    <3>2. Len(g) <= Len(t) /\ (\A k \in 1 .. Len(g) : g[k] = t[k]) /\ 14 <= Len(g)
      <4>1. lg <= lt /\ (\A k \in 1 .. lg : g[k] = t[k]) /\ 14 <= lg  BY <1>2, <2>2
      <4> QED  BY <4>1 DEF lg, lt
    <3>3. LET q == RestFrom(g) m == Len(g) IN (q <= Len(t) => t[q].pos = 1) /\ m - q + 1 <= MaxFrame
      BY <1>0, <1>2, <1>3, <3>2, FffeRest
    <3> QED  BY <3>1, <3>3 DEF lg, lt
  <2> QED  BY <2>1, <2>2
<1>6. Heads(v)
  <2>1. Len(v) # 0 => v[1].pos = 1
    <3> SUFFICES ASSUME Len(v) # 0  PROVE v[1].pos = 1
      OBVIOUS
    <3>1. f <= lt /\ 1 \in 1 .. Len(v) /\ 1 + f - 1 = f  BY <1>2
    <3>2. v[1] = t[f]  BY <1>2, <3>1
    <3> QED  BY <1>5, <3>1, <3>2
  <2>2. ASSUME NEW k \in 1 .. Len(v), v[k].pos = 1  PROVE k + 1 \in 1 .. Len(v) /\ v[k + 1].pos = 2
    <3> DEFINE h == k + f - 1
               i == h + 1
               j == k + 1
    <3>1. v[k] = t[h] /\ h \in 1 .. lt  BY <1>2
    <3>2. i \in 1 .. lt /\ t[i].pos = 2  BY <1>3, <2>2, <3>1 DEF Heads, lt
    <3>3. j \in 1 .. Len(v) /\ j + f - 1 = i  BY <1>2, <3>2
    <3> HIDE DEF h, i, j
    <3>4. v[j] = t[i]  BY <1>2, <3>3
    <3> QED  BY <3>2, <3>3, <3>4 DEF j
  <2> QED  BY <2>1, <2>2 DEF Heads
<1> QED  BY <1>1, <1>5, <1>6 DEF v, y

LEMMA ArrivalAccept ==
    ASSUME Arrival, NEW n \in Chunks, Accept(n), Typed'
    PROVE  Arrival'
<1>0. Flow /\ Typed /\ Tidy(proto, sent, All) /\ Fits(proto, sent)  BY DEF Flow, Arrival
<1> DEFINE R == SentOf(sent)
           g == Got(n)
           d == Indicated(g)
           ld == Len(delivered)
<1>1. n \in Nat /\ rx_buffer \in Seq(R) /\ line \in Seq(R) /\ proto \in Protos
      /\ delivered \in Seq(Range(delivered)) /\ ld \in Nat
  BY <1>0, TypedParts, FrameLinkAssumption
<1>2. /\ UNCHANGED <<proto, maxlen, id_count, sent, noise>>
      /\ delivered' = delivered \/ delivered' = delivered \o d
      /\ Len(g) >= MinLen(proto) => delivered' = delivered \o d
  BY <1>1, AcceptIs
<1>3. Flow'  BY <1>0, FlowAccept
<1>4. (Roomy <=> Roomy') /\ (Sound <=> Sound') /\ Fits(proto', sent')
  BY <1>0, <1>2 DEF Roomy, Sound
<1>5. ASSUME proto = "fffe", noise = 0, Roomy
      PROVE  Stream(n) = All /\ Heads(Stream(n)) /\ Heads(All') /\ Len(rx_buffer') <= MaxFrame
  <2>1. Heads(All) /\ Len(rx_buffer) <= MaxFrame  BY <1>5 DEF Arrival
  <2>2. ~ (Len(rx_buffer) + n > maxlen)
    <3> DEFINE lx == Len(rx_buffer)
    <3>1. lx \in Nat /\ maxlen \in Nat /\ MaxFrame \in Nat /\ maxlen > MaxFrame + n
      BY <1>0, <1>5, TypedParts, FrameLinkAssumption DEF Roomy
    <3> HIDE DEF lx
    <3>2. lx <= MaxFrame  BY <2>1 DEF lx
    <3>3. ~ (lx + n > maxlen)  BY <1>1, <3>1, <3>2
    <3> QED  BY <3>3 DEF lx
  <2>3. Stream(n) = All  BY <2>2 DEF Stream, All, Kept
  <2>4. Heads(Stream(n))  BY <2>1, <2>3
  <2> QED  BY <1>0, <1>5, <2>3, <2>4, HeadsAccept
<1>6. Tidy(proto, sent, g) /\ (Sound => Clean(proto, sent))
  BY <1>0, StreamIs, SoundClean
<1>7. d \in Seq({Entry(g, e) : e \in Good(g)}) /\ Len(d) \in Nat
  <2>1. g \in Seq(R)  BY <1>6 DEF Tidy
  <2> HIDE DEF g, R
  <2> QED  BY <1>1, <2>1, IndicatedCalls DEF R
<1>8. \A i \in 1 .. ld : i \in 1 .. Len(delivered') /\ delivered'[i] = delivered[i]
  <2> DEFINE V == {Entry(g, e) : e \in Good(g)}
  <2> HIDE DEF V, d, ld
  <2>1. CASE delivered' = delivered  BY <2>1 DEF ld
  <2>2. CASE delivered' = delivered \o d
    <3>1. LET u == delivered \o d IN
          \A i \in 1 .. Len(delivered) : u[i] = delivered[i] /\ i \in 1 .. Len(u)
      <4>1. d \in Seq(V)  BY <1>7 DEF V
      <4> QED  BY <1>1, <4>1, MoreDelivered
    <3> QED  BY <2>2, <3>1 DEF ld
  <2> QED  BY <1>2, <2>1, <2>2
<1>9. ASSUME Sound, Roomy, NEW c \in DOMAIN sent, Pending(sent, delivered', c)
      PROVE  StillComes(proto, sent, All', Len(rx_buffer'), c)
  <2>1. Pending(sent, delivered, c)
    <3>1. \A i \in 1 .. Len(delivered) : delivered[i] # [msg |-> sent[c].msg, call |-> c]
      BY <1>8, <1>9 DEF Pending
    <3> QED  BY <1>9, <3>1 DEF Pending
  <2>2. StillComes(proto, sent, All, Len(rx_buffer), c)  BY <1>9, <2>1 DEF Arrival
  <2>3. PICK l : Awaited(proto, sent, All, Len(rx_buffer), c, l)  BY <2>2 DEF StillComes
  <2>4. proto = "fffe" => noise = 0 /\ Len(rx_buffer) <= MaxFrame /\ Heads(Stream(n))
    <3> SUFFICES ASSUME proto = "fffe"  PROVE noise = 0 /\ Len(rx_buffer) <= MaxFrame /\ Heads(Stream(n))
      OBVIOUS
    <3>1. noise = 0  BY <1>9 DEF Sound
    <3> QED  BY <1>5, <1>9, <3>1 DEF Arrival
  <2>5. PICK h : Awaited(proto, sent, Stream(n), Len(Kept(n)), c, h)
    BY <1>0, <1>9, <2>3, <2>4, KeptIs
  <2>6. Clean(proto, sent)  BY <1>6, <1>9
  <2>7. ~ (Len(g) >= MinLen(proto) /\ LastOf(proto, sent, g, c, h))
    <3> SUFFICES ASSUME Len(g) >= MinLen(proto), LastOf(proto, sent, g, c, h)  PROVE FALSE
      OBVIOUS
    <3> DEFINE e == h - MarkLen(proto) + 1
               V == {Entry(g, x) : x \in Good(g)}
               u == delivered \o d
    <3>1. e \in Good(g) /\ Entry(g, e) = [msg |-> sent[c].msg, call |-> c]
      BY <1>6, <2>6, Arrives
    <3> HIDE DEF e
    <3>2. \E i \in 1 .. Len(d) : d[i] = Entry(g, e)
      BY <1>6, <2>6, <3>1, DeliveredIs
    <3>3. PICK i \in 1 .. Len(d) : d[i] = Entry(g, e)  BY <3>2
    <3>4. delivered' = u  BY <1>2
    <3>5. u[Len(delivered) + i] = d[i] /\ Len(delivered) + i \in 1 .. Len(u)
      <4>1. d \in Seq(V)  BY <1>7
      <4> HIDE DEF V, d
      <4> QED  BY <1>1, <4>1, MoreDelivered
    <3> HIDE DEF u, d, g
    <3>6. delivered'[Len(delivered) + i] = [msg |-> sent[c].msg, call |-> c]
      BY <3>1, <3>3, <3>4, <3>5
    <3>7. Len(delivered) + i \in 1 .. Len(delivered')  BY <3>4, <3>5
    <3> QED  BY <1>9, <3>6, <3>7 DEF Pending
  <2>8. proto = "fffe" => Heads(Stream(n))  BY <2>4
  <2> QED  BY <1>0, <2>5, <2>6, <2>7, <2>8, Searched
<1>10. ASSUME Sound', Roomy', NEW c \in DOMAIN sent', Pending(sent', delivered', c)
       PROVE  StillComes(proto', sent', All', Len(rx_buffer'), c)
  BY <1>2, <1>4, <1>9, <1>10
<1>11. ASSUME proto' = "fffe", noise' = 0, Roomy'  PROVE Heads(All') /\ Len(rx_buffer') <= MaxFrame
  BY <1>2, <1>4, <1>5, <1>11
<1> QED  BY <1>3, <1>4, <1>10, <1>11 DEF Arrival

LEMMA InitArrival == Init => Arrival
<1> SUFFICES ASSUME Init  PROVE Arrival
  OBVIOUS
<1>1. Flow /\ Typed  BY InitFlow DEF Flow
<1>2. rx_buffer = <<>> /\ line = <<>> /\ sent = <<>>  BY DEF Init
<1>3. DOMAIN sent = {} /\ Len(rx_buffer) = 0 /\ MaxFrame \in Nat  BY <1>2, FrameLinkAssumption
<1>4. Len(All) = 0
  <2>1. Len(All) = Len(rx_buffer) + Len(line)  BY <1>1, AllIs
  <2> QED  BY <1>2, <2>1
<1>5. Heads(All)  BY <1>4 DEF Heads
<1>6. Len(rx_buffer) <= MaxFrame  BY <1>3
<1> QED  BY <1>1, <1>3, <1>5, <1>6 DEF Arrival, Fits

LEMMA NextArrival ==
    ASSUME FramesFit, "fffe" \in UsedProtos => 1 \notin Cuts, Arrival, [Next]_vars
    PROVE  Arrival'
<1>1. Typed /\ Typed'  BY NextTyped DEF Arrival, Flow
<1>2. CASE Cmd  BY <1>1, <1>2, CmdIs, ArrivalSend
<1>3. CASE Ack  BY <1>1, <1>3, AckIs, ArrivalSend
<1>4. CASE Noise  BY <1>1, <1>4, ArrivalNoise
<1>5. CASE \E n \in Chunks : Accept(n)  BY <1>1, <1>5, ArrivalAccept
<1>6. CASE UNCHANGED vars
  <2>1. UNCHANGED <<proto, maxlen, sent, rx_buffer, line, delivered, noise>>  BY <1>6 DEF vars
  <2>2. All' = All /\ (Roomy' <=> Roomy) /\ (Sound' <=> Sound)  BY <2>1 DEF All, Roomy, Sound
  <2>3. Flow'  BY <1>1, <2>1, <2>2 DEF Flow, Unhit, Sound, Arrival
  <2> QED  BY <2>1, <2>2, <2>3 DEF Arrival
<1> QED  BY <1>2, <1>3, <1>4, <1>5, <1>6 DEF Next

(***************************************************************************)
(* A frame that noise has spared reaches rx_indicate, however the bytes    *)
(* are cut into blocks of accept, whatever comes before it and whatever    *)
(* short writes leave on the line, for every buffer with room for a frame  *)
(* and a block: neither a search that begins anew nor a buffer that is     *)
(* given up loses it.  That takes frames that fit into their length bytes  *)
(* (see ShortFramesFit) and, in fffeFrame, no write that stops inside of a *)
(* start marker: after enough of them a block is searched that has no      *)
(* marker but the first byte of one, and accept forgets that byte.         *)
(***************************************************************************)
THEOREM IntactCallsArrive ==
    ASSUME FramesFit, "fffe" \in UsedProtos => 1 \notin Cuts
    PROVE  Spec => []IntactArrive
<1>1. Init => Arrival  BY InitArrival
<1>2. Arrival /\ [Next]_vars => Arrival'  BY NextArrival
<1>3. ASSUME Arrival  PROVE IntactArrive
  <2>0. Flow /\ Typed  BY <1>3 DEF Arrival, Flow
  <2> SUFFICES ASSUME line = <<>>, Roomy, proto = "hdlc" \/ noise = 0,
                      NEW c \in DOMAIN sent, ForMe(sent[c]), ~sent[c].hit
               PROVE  [msg |-> sent[c].msg, call |-> c] \in Range(delivered)
    BY DEF IntactArrive
  <2>1. ~StillComes(proto, sent, All, Len(rx_buffer), c)
    <3> SUFFICES ASSUME NEW l, Awaited(proto, sent, All, Len(rx_buffer), c, l)  PROVE FALSE
      BY DEF StillComes
    <3>1. l \in 1 .. Len(All) /\ Len(rx_buffer) < l  BY DEF Awaited, LastOf
    <3>2. Len(All) = Len(rx_buffer) + Len(line) /\ Len(line) = 0  BY <2>0, AllIs
    <3>3. Len(rx_buffer) \in Nat  BY <2>0, TypedParts
    <3> QED  BY <3>1, <3>2, <3>3
  <2>2. ~Pending(sent, delivered, c)  BY <1>3, <2>1 DEF Arrival, Sound
  <2>3. \E i \in 1 .. Len(delivered) : delivered[i] = [msg |-> sent[c].msg, call |-> c]
    BY <2>2 DEF Pending, ForMe
  <2>4. DOMAIN delivered = 1 .. Len(delivered)  BY <2>0, TypedParts
  <2> QED  BY <2>3, <2>4 DEF Range
<1>4. Arrival => IntactArrive  BY <1>3
<1> QED  BY <1>1, <1>2, <1>4, PTL DEF Spec
============================================================================
