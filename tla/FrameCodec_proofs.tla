------------------------- MODULE FrameCodec_proofs -------------------------
(***************************************************************************)
(* What the codes of FrameCodec do to a frame of any length.               *)
(***************************************************************************)
EXTENDS FrameCodec, SequenceTheorems, WellFoundedInduction, TLAPS

---------------------------------------------------------------------------
(***************************************************************************)
(* Induction and recursion, stated for sets and functions.                 *)
(***************************************************************************)
LEMMA Least ==
    ASSUME NEW T, T \subseteq Nat, T # {}
    PROVE  \E x \in T : \A y \in T : x <= y
<1>1. IsWellFoundedOn(OpToRel(<, Nat), Nat)  BY NatLessThanWellFounded
<1>2. PICK x \in T : \A y \in T : ~ (<<y, x>> \in OpToRel(<, Nat))
  BY <1>1, WFMin
<1>3. \A y \in T : ~ (y < x)  BY <1>2 DEF OpToRel
<1> QED  BY <1>3

LEMMA Climb ==
    ASSUME NEW n \in Nat, NEW T, 0 \in T,
           \A i \in 1 .. n : i - 1 \in T => i \in T
    PROVE  0 .. n \subseteq T
<1> SUFFICES ASSUME NEW j \in 0 .. n, j \notin T  PROVE FALSE
  OBVIOUS
<1> DEFINE F == {i \in 0 .. n : i \notin T}
<1>1. PICK i \in F : \A y \in F : i <= y
  <2>1. F \subseteq Nat /\ F # {}  OBVIOUS
  <2> QED  BY <2>1, Least
<1>2. i # 0  OBVIOUS
<1>3. i - 1 \in 0 .. n /\ i - 1 \notin F  BY <1>1, <1>2
<1> QED  BY <1>1, <1>2, <1>3

\* A loop whose passes lead from S to S leaves a value of S behind every pass.
Passes(n, S) == [1 .. n -> [S -> S]]

IsLoop(f, n, S, base, step) ==
    /\ f \in [0 .. n -> S] /\ f[0] = base
    /\ \A i \in 1 .. n : f[i] = step[i][f[i - 1]]

LEMMA Recursion ==
    ASSUME NEW n \in Nat, NEW S, NEW base \in S, NEW step \in Passes(n, S)
    PROVE  \E f : IsLoop(f, n, S, base, step)
<1> USE DEF Passes
<1> DEFINE Upto(k, f) ==
             /\ f \in [0 .. k -> S] /\ f[0] = base
             /\ \A i \in 1 .. k : f[i] = step[i][f[i - 1]]
           T == {k \in 0 .. n : \E f : Upto(k, f)}
<1>1. 0 \in T
  <2>1. Upto(0, [i \in 0 .. 0 |-> base])  OBVIOUS
  <2> HIDE DEF Upto
  <2> QED  BY <2>1
<1>2. ASSUME NEW k \in 1 .. n, k - 1 \in T  PROVE k \in T
  <2>1. PICK f : Upto(k - 1, f)  BY <1>2
  <2> DEFINE g == [i \in 0 .. k |-> IF i = k THEN step[k][f[k - 1]] ELSE f[i]]
  <2>2. f[k - 1] \in S  BY <2>1
  <2>3. step[k][f[k - 1]] \in S  BY <2>2
  <2>4. g \in [0 .. k -> S]  BY <2>1, <2>3
  <2>5. g[0] = base  BY <2>1
  <2>6. \A i \in 1 .. k : g[i] = step[i][g[i - 1]]
    <3> TAKE i \in 1 .. k
    <3>1. g[i - 1] = f[i - 1] /\ i \in 0 .. k  OBVIOUS
    <3>2. CASE i = k  BY <3>1, <3>2
    <3>3. CASE i # k
      <4>1. i \in 1 .. k - 1 /\ g[i] = f[i]  BY <3>3
      <4> QED  BY <2>1, <3>1, <4>1
    <3> QED  BY <3>2, <3>3
  <2>7. Upto(k, g)  BY <2>4, <2>5, <2>6
  <2>8. k \in 0 .. n  OBVIOUS
  <2> HIDE DEF g, Upto
  <2> QED  BY <2>7, <2>8
<1> HIDE DEF T
<1>3. 0 .. n \subseteq T  BY <1>1, <1>2, Climb
<1>4. PICK f : Upto(n, f)  BY <1>3 DEF T
<1> QED  BY <1>4 DEF IsLoop

\* There is but one such loop.
LEMMA SameLoop ==
    ASSUME NEW n \in Nat, NEW f, NEW g, f[0] = g[0],
           \A i \in 1 .. n : f[i - 1] = g[i - 1] => f[i] = g[i]
    PROVE  \A i \in 0 .. n : f[i] = g[i]
<1> DEFINE T == {i \in 0 .. n : f[i] = g[i]}
<1>1. 0 \in T  OBVIOUS
<1>2. ASSUME NEW i \in 1 .. n, i - 1 \in T  PROVE i \in T  BY <1>2
<1> HIDE DEF T
<1>3. 0 .. n \subseteq T  BY <1>1, <1>2, Climb
<1> QED  BY <1>3 DEF T
---------------------------------------------------------------------------
(***************************************************************************)
(* Hdlc7c7eFrame.                                                          *)
(***************************************************************************)
LEMMA SumType ==
    ASSUME NEW s \in Seq(Byte)
    PROVE  HdlcSum(s) \in Byte
<1> DEFINE n == Len(s)
           E(x, i) == (x + s[i]) % 256
           Eqn(sum) == sum = [i \in 0 .. n |-> IF i = 0 THEN 0 ELSE E(sum[i - 1], i)]
           step == [i \in 1 .. n |-> [x \in Byte |-> E(x, i)]]
           g == CHOOSE sum : Eqn(sum)
<1>1. n \in Nat /\ 0 \in Byte
  BY DEF Byte
<1>2. \A x \in Byte, i \in 1 .. n : E(x, i) \in Byte
  <2>1. \A i \in 1 .. n : s[i] \in Byte  OBVIOUS
  <2>2. \A x, b \in Byte : (x + b) % 256 \in Byte  BY DEF Byte
  <2> QED  BY <2>1, <2>2
<1>3. HdlcSum(s) = g[n]
  BY DEF HdlcSum
<1> HIDE DEF n, E
<1>4. PICK f : IsLoop(f, n, Byte, 0, step)
  <2>1. step \in Passes(n, Byte)  BY <1>2 DEF Passes
  <2> HIDE DEF step
  <2> QED  BY <1>1, <2>1, Recursion
<1>5. \A i \in 1 .. n : f[i] = E(f[i - 1], i)
  BY <1>1, <1>4 DEF IsLoop
<1>6. Eqn(g)
  <2>1. Eqn(f)  BY <1>4, <1>5 DEF IsLoop
  <2> QED  BY <2>1
<1> HIDE DEF g, step
<1>7. g[0] = f[0] /\ \A i \in 1 .. n : g[i - 1] = f[i - 1] => g[i] = f[i]
  BY <1>1, <1>4, <1>5, <1>6 DEF IsLoop
<1>8. \A i \in 0 .. n : g[i] = f[i]  BY <1>1, <1>7, SameLoop, ZenonT(60)
<1> QED  BY <1>1, <1>3, <1>4, <1>8 DEF IsLoop

\* What may stand between the markers.
HdlcInner == Byte \ {124, 126}

LEMMA HdlcCodeByteType ==
    ASSUME NEW b \in Byte
    PROVE  HdlcCodeByte(b) \in Seq(HdlcInner) /\ Len(HdlcCodeByte(b)) \in 1 .. 2
<1>1. CASE b \in {124, ESCAPE, 126}
  <2>1. ESCAPE \in HdlcInner /\ b - 32 \in HdlcInner  BY <1>1 DEF HdlcInner, Byte, ESCAPE
  <2> QED  BY <1>1, <2>1 DEF HdlcCodeByte
<1>2. CASE b \notin {124, ESCAPE, 126}
  <2>1. b \in HdlcInner  BY <1>2 DEF HdlcInner
  <2> QED  BY <1>2, <2>1 DEF HdlcCodeByte
<1> QED  BY <1>1, <1>2

LEMMA EscapeLoop ==
    ASSUME NEW s \in Seq(Byte)
    PROVE  \E out \in [0 .. Len(s) -> Seq(HdlcInner)] :
             /\ out[0] = <<>>
             /\ \A i \in 1 .. Len(s) : out[i] = out[i - 1] \o HdlcCodeByte(s[i])
             /\ HdlcEscape(s) = out[Len(s)]
<1> DEFINE n == Len(s)
           S == Seq(HdlcInner)
           E(x, i) == x \o HdlcCodeByte(s[i])
           Eqn(out) == out = [i \in 0 .. n |-> IF i = 0 THEN <<>> ELSE E(out[i - 1], i)]
           step == [i \in 1 .. n |-> [x \in S |-> E(x, i)]]
           g == CHOOSE out : Eqn(out)
           nothing == <<>>
<1>1. n \in Nat /\ nothing \in S
  OBVIOUS
<1>2. \A x \in S, i \in 1 .. n : E(x, i) \in S
  BY HdlcCodeByteType
<1>3. HdlcEscape(s) = g[n]
  BY DEF HdlcEscape
<1> SUFFICES \E f \in [0 .. n -> S] :
               f[0] = nothing /\ (\A i \in 1 .. n : f[i] = E(f[i - 1], i)) /\ HdlcEscape(s) = f[n]
  OBVIOUS
<1> HIDE DEF n, E, S, nothing
<1>4. PICK f : IsLoop(f, n, S, nothing, step)
  <2>1. step \in Passes(n, S)  BY <1>2 DEF Passes
  <2> HIDE DEF step
  <2> QED  BY <1>1, <2>1, Recursion
<1>5. \A i \in 1 .. n : f[i] = E(f[i - 1], i)
  BY <1>1, <1>4 DEF IsLoop
<1>6. Eqn(g)
  <2>1. Eqn(f)  BY <1>4, <1>5 DEF IsLoop, nothing
  <2> QED  BY <2>1
<1> HIDE DEF g, step
<1>7. g[0] = f[0] /\ \A i \in 1 .. n : g[i - 1] = f[i - 1] => g[i] = f[i]
  BY <1>1, <1>4, <1>5, <1>6 DEF IsLoop, nothing
<1>8. \A i \in 0 .. n : g[i] = f[i]  BY <1>1, <1>7, SameLoop, ZenonT(60)
<1> QED  BY <1>1, <1>3, <1>4, <1>5, <1>8, SMTT(30) DEF IsLoop

\* What Hdlc7c7eFrame_uncode has made of the bytes before.
HdlcUncoding == [out : Seq(Byte), esc : BOOLEAN]

LEMMA UnescapeLoop ==
    ASSUME NEW s \in Seq(Byte)
    PROVE  \E c \in [0 .. Len(s) -> HdlcUncoding] :
             /\ c[0] = [out |-> <<>>, esc |-> FALSE]
             /\ \A i \in 1 .. Len(s) : c[i] = HdlcUncodeByte(c[i - 1], s[i])
             /\ HdlcUnescape(s) = c[Len(s)].out
<1> DEFINE n == Len(s)
           S == HdlcUncoding
           E(x, i) == HdlcUncodeByte(x, s[i])
           base == [out |-> <<>>, esc |-> FALSE]
           Eqn(c) == c = [i \in 0 .. n |-> IF i = 0 THEN base ELSE E(c[i - 1], i)]
           step == [i \in 1 .. n |-> [x \in S |-> E(x, i)]]
           g == CHOOSE c : Eqn(c)
<1>1. n \in Nat /\ base \in S
  BY DEF HdlcUncoding
<1>2. \A x \in S, i \in 1 .. n : E(x, i) \in S
  <2> TAKE x \in S, i \in 1 .. n
  <2> DEFINE b == s[i]
  <2>1. b \in Byte  OBVIOUS
  <2>2. 112 + (b % 16) \in Byte
    <3>1. \A z \in Byte : 112 + (z % 16) \in Byte  BY DEF Byte
    <3> QED  BY <2>1, <3>1
  <2>3. x.out \in Seq(Byte) /\ x.esc \in BOOLEAN /\ x = [out |-> x.out, esc |-> x.esc]
    BY DEF HdlcUncoding
  <2>4. E(x, i) = HdlcUncodeByte(x, b)  OBVIOUS
  <2> HIDE DEF b, E
  <2>5. CASE x.esc
    BY <2>2, <2>3, <2>4, <2>5 DEF HdlcUncodeByte, HdlcUncoding
  <2>6. CASE ~x.esc /\ b = ESCAPE
    <3>1. E(x, i) = [out |-> x.out, esc |-> TRUE]  BY <2>3, <2>4, <2>6 DEF HdlcUncodeByte
    <3> QED  BY <2>3, <3>1 DEF HdlcUncoding
  <2>7. CASE ~x.esc /\ b # ESCAPE
    <3>1. E(x, i) = [out |-> Append(x.out, b), esc |-> FALSE]
      BY <2>3, <2>4, <2>7 DEF HdlcUncodeByte
    <3> QED  BY <2>1, <2>3, <3>1 DEF HdlcUncoding
  <2> QED  BY <2>3, <2>5, <2>6, <2>7
<1>3. HdlcUnescape(s) = g[n].out
  BY DEF HdlcUnescape
<1> SUFFICES \E f \in [0 .. n -> S] :
               f[0] = base /\ (\A i \in 1 .. n : f[i] = E(f[i - 1], i)) /\ HdlcUnescape(s) = f[n].out
  OBVIOUS
<1> HIDE DEF n, E, S, base
<1>4. PICK f : IsLoop(f, n, S, base, step)
  <2>1. step \in Passes(n, S)  BY <1>2 DEF Passes
  <2> HIDE DEF step
  <2> QED  BY <1>1, <2>1, Recursion
<1>5. \A i \in 1 .. n : f[i] = E(f[i - 1], i)
  BY <1>1, <1>4 DEF IsLoop
<1>6. Eqn(g)
  <2>1. Eqn(f)  BY <1>4, <1>5 DEF IsLoop
  <2> QED  BY <2>1
<1> HIDE DEF g, step
<1>7. g[0] = f[0] /\ \A i \in 1 .. n : g[i - 1] = f[i - 1] => g[i] = f[i]
  BY <1>1, <1>4, <1>5, <1>6 DEF IsLoop
<1>8. \A i \in 0 .. n : g[i] = f[i]  BY <1>1, <1>7, SameLoop, ZenonT(60)
<1> QED  BY <1>1, <1>3, <1>4, <1>5, <1>8 DEF IsLoop

\* Every pass of the escaping loop appends.
LEMMA EscapeGrows ==
    ASSUME NEW s \in Seq(Byte), NEW out \in [0 .. Len(s) -> Seq(HdlcInner)],
           \A i \in 1 .. Len(s) : out[i] = out[i - 1] \o HdlcCodeByte(s[i])
    PROVE  \A i \in 0 .. Len(s) :
             /\ Len(out[i]) <= Len(out[Len(s)])
             /\ \A k \in 1 .. Len(out[i]) : out[Len(s)][k] = out[i][k]
<1> DEFINE n == Len(s)
           Ok(j, i) == i <= j => /\ Len(out[i]) <= Len(out[j])
                                 /\ \A k \in 1 .. Len(out[i]) : out[j][k] = out[i][k]
<1> SUFFICES ASSUME NEW i \in 0 .. n  PROVE Ok(n, i)
  OBVIOUS
<1> DEFINE T == {j \in 0 .. n : Ok(j, i)}
<1>1. 0 \in T
  OBVIOUS
<1>2. ASSUME NEW j \in 1 .. n, j - 1 \in T  PROVE j \in T
  <2> SUFFICES ASSUME i <= j  PROVE Ok(j, i)
    OBVIOUS
  <2>1. CASE i = j  BY <2>1
  <2>2. CASE i <= j - 1
    <3> DEFINE x == out[j - 1]
               y == HdlcCodeByte(s[j])
    <3>1. x \in Seq(HdlcInner) /\ y \in Seq(HdlcInner) /\ out[j] = x \o y
      <4>1. s[j] \in Byte /\ j - 1 \in 0 .. Len(s)  OBVIOUS
      <4> QED  BY <4>1, HdlcCodeByteType
    <3>2. Len(out[i]) <= Len(x) /\ \A k \in 1 .. Len(out[i]) : x[k] = out[i][k]
      BY <1>2, <2>2
    <3>3. out[i] \in Seq(HdlcInner)  OBVIOUS
    <3> HIDE DEF x, y
    <3>4. Len(out[j]) = Len(x) + Len(y) /\ \A k \in 1 .. Len(x) : out[j][k] = x[k]
      BY <3>1
    <3>5. Len(out[i]) \in Nat /\ Len(x) \in Nat /\ Len(y) \in Nat  BY <3>1, <3>3
    <3> QED  BY <3>2, <3>4, <3>5
  <2> QED  BY <2>1, <2>2
<1> HIDE DEF T
<1>3. 0 .. n \subseteq T
  <2>1. n \in Nat  OBVIOUS
  <2> HIDE DEF n
  <2> QED  BY <1>1, <1>2, <2>1, Climb
<1> QED  BY <1>3 DEF T

\* The escapes are undone: byte after byte of s comes back, and the end marker.
LEMMA UnescapeEscape ==
    ASSUME NEW s \in Seq(Byte)
    PROVE  HdlcUnescape(HdlcEscape(s) \o <<126>>) = s \o <<126>>
<1> DEFINE n == Len(s)
<1>1. PICK e \in [0 .. n -> Seq(HdlcInner)] :
        /\ e[0] = <<>>
        /\ \A i \in 1 .. n : e[i] = e[i - 1] \o HdlcCodeByte(s[i])
        /\ HdlcEscape(s) = e[n]
  BY EscapeLoop
<1> DEFINE w == e[n] \o <<126>>
           m == Len(w)
<1>2. e[n] \in Seq(HdlcInner) /\ n \in Nat
  OBVIOUS
<1>3. w \in Seq(Byte) /\ m = Len(e[n]) + 1 /\ w[m] = 126
      /\ \A k \in 1 .. Len(e[n]) : w[k] = e[n][k]
  <2>1. HdlcInner \subseteq Byte /\ 126 \in Byte  BY DEF HdlcInner, Byte
  <2> QED  BY <1>2, <2>1
<1>4. PICK c \in [0 .. m -> HdlcUncoding] :
        /\ c[0] = [out |-> <<>>, esc |-> FALSE]
        /\ \A i \in 1 .. m : c[i] = HdlcUncodeByte(c[i - 1], w[i])
        /\ HdlcUnescape(w) = c[m].out
  <2> HIDE DEF w
  <2> QED  BY <1>3, UnescapeLoop
<1>5. \A i \in 0 .. n : Len(e[i]) <= Len(e[n]) /\ \A k \in 1 .. Len(e[i]) : e[n][k] = e[i][k]
  BY <1>1, EscapeGrows
<1> DEFINE Back(i) == [out |-> SubSeq(s, 1, i), esc |-> FALSE]
           T == {i \in 0 .. n : c[Len(e[i])] = Back(i)}
<1> HIDE DEF w, m
<1>6. 0 \in T
  <2>1. Len(e[0]) = 0 /\ SubSeq(s, 1, 0) = <<>>  BY <1>1
  <2>2. c[Len(e[0])] = Back(0)  BY <1>4, <2>1
  <2>3. 0 \in 0 .. n  BY <1>2
  <2> HIDE DEF Back
  <2> QED  BY <2>2, <2>3
<1>7. ASSUME NEW i \in 1 .. n, i - 1 \in T  PROVE i \in T
  <2> DEFINE b == s[i]
             x == e[i - 1]
             k == Len(x)
  <2>1. b \in Byte /\ x \in Seq(HdlcInner) /\ k \in Nat
    OBVIOUS
  <2>2. e[i] = x \o HdlcCodeByte(b) /\ c[k] = Back(i - 1)
    BY <1>1, <1>7
  <2>3. Back(i) = [out |-> Append(SubSeq(s, 1, i - 1), b), esc |-> FALSE] /\ i \in 0 .. n
    <3>1. SubSeq(s, 1, i) = Append(SubSeq(s, 1, i - 1), s[i])  OBVIOUS
    <3>2. i \in 0 .. n  OBVIOUS
    <3> QED  BY <3>1, <3>2
  <2>4. Len(e[i]) < m /\ \A j \in 1 .. Len(e[i]) : w[j] = e[i][j]
    <3>1. e[i] \in Seq(HdlcInner)  OBVIOUS
    <3> QED  BY <1>2, <1>3, <1>5, <3>1
  <2> HIDE DEF b, x
  <2>5. CASE b \in {124, ESCAPE, 126}
    <3>1. HdlcCodeByte(b) = <<ESCAPE, b - 32>>  BY <2>5 DEF HdlcCodeByte
    <3>2. Len(e[i]) = k + 2 /\ e[i][k + 1] = ESCAPE /\ e[i][k + 2] = b - 32
      BY <2>1, <2>2, <3>1
    <3>3. w[k + 1] = ESCAPE /\ w[k + 2] = b - 32 /\ k + 1 \in 1 .. m /\ k + 2 \in 1 .. m
      <4>1. m \in Nat  BY <1>2, <1>3
      <4> QED  BY <2>1, <2>4, <3>2, <4>1
    <3>4. c[k + 1] = [out |-> SubSeq(s, 1, i - 1), esc |-> TRUE]
      <4>1. c[k + 1] = HdlcUncodeByte(Back(i - 1), ESCAPE)  BY <1>4, <2>1, <2>2, <3>3
      <4> QED  BY <4>1 DEF HdlcUncodeByte
    <3>5. c[k + 2] = HdlcUncodeByte(c[k + 1], b - 32)
      <4>1. (k + 2) - 1 = k + 1  BY <2>1
      <4> QED  BY <1>4, <3>3, <4>1
    <3>6. 112 + ((b - 32) % 16) = b
      BY <2>5 DEF ESCAPE
    <3>7. c[k + 2] = [out |-> Append(SubSeq(s, 1, i - 1), b), esc |-> FALSE]
      <4> DEFINE back == 112 + ((b - 32) % 16)
      <4>1. back = b  BY <3>6
      <4> HIDE DEF back
      <4>2. HdlcUncodeByte([out |-> SubSeq(s, 1, i - 1), esc |-> TRUE], b - 32)
              = [out |-> Append(SubSeq(s, 1, i - 1), back), esc |-> FALSE]
        BY DEF HdlcUncodeByte, back
      <4> QED  BY <3>4, <3>5, <4>1, <4>2
    <3>8. c[Len(e[i])] = Back(i)  BY <2>3, <3>2, <3>7
    <3> HIDE DEF Back
    <3> QED  BY <2>3, <3>8
  <2>6. CASE b \notin {124, ESCAPE, 126}
    <3>1. HdlcCodeByte(b) = <<b>>  BY <2>6 DEF HdlcCodeByte
    <3>2. Len(e[i]) = k + 1 /\ e[i][k + 1] = b
      BY <2>1, <2>2, <3>1
    <3>3. w[k + 1] = b /\ k + 1 \in 1 .. m
      <4>1. m \in Nat  BY <1>2, <1>3
      <4>2. k + 1 \in 1 .. Len(e[i])  BY <2>1, <3>2
      <4> QED  BY <2>1, <2>4, <3>2, <4>1, <4>2
    <3>4. c[k + 1] = HdlcUncodeByte(Back(i - 1), b)
      BY <1>4, <2>1, <2>2, <3>3
    <3>5. c[k + 1] = [out |-> Append(SubSeq(s, 1, i - 1), b), esc |-> FALSE]
      BY <2>6, <3>4 DEF HdlcUncodeByte
    <3>6. c[Len(e[i])] = Back(i)  BY <2>3, <3>2, <3>5
    <3> HIDE DEF Back
    <3> QED  BY <2>3, <3>6
  <2> QED  BY <2>5, <2>6
<1> HIDE DEF T
<1>8. 0 .. n \subseteq T  BY <1>2, <1>6, <1>7, Climb
<1>9. c[m - 1] = [out |-> s, esc |-> FALSE]
  <2>1. n \in T  BY <1>2, <1>8
  <2>2. c[Len(e[n])] = Back(n)  BY <2>1 DEF T
  <2>3. SubSeq(s, 1, n) = s /\ m - 1 = Len(e[n])  BY <1>2, <1>3
  <2> QED  BY <2>2, <2>3
<1>10. c[m] = HdlcUncodeByte(c[m - 1], 126)
  <2>1. m \in 1 .. m  BY <1>2, <1>3
  <2> QED  BY <1>3, <1>4, <2>1, SMTT(30)
<1>11. c[m].out = Append(s, 126)
  BY <1>9, <1>10 DEF HdlcUncodeByte, ESCAPE
<1> QED  BY <1>1, <1>4, <1>11 DEF w

LEMMA EscapeType ==
    ASSUME NEW s \in Seq(Byte)
    PROVE  /\ HdlcEscape(s) \in Seq(HdlcInner)
           /\ Len(HdlcEscape(s)) >= Len(s) /\ Len(HdlcEscape(s)) <= 2 * Len(s)
<1> DEFINE n == Len(s)
<1>1. PICK e \in [0 .. n -> Seq(HdlcInner)] :
        /\ e[0] = <<>>
        /\ \A i \in 1 .. n : e[i] = e[i - 1] \o HdlcCodeByte(s[i])
        /\ HdlcEscape(s) = e[n]
  BY EscapeLoop
<1> DEFINE T == {i \in 0 .. n : Len(e[i]) >= i /\ Len(e[i]) <= 2 * i}
<1>2. 0 \in T  BY <1>1
<1>3. ASSUME NEW i \in 1 .. n, i - 1 \in T  PROVE i \in T
  <2> DEFINE x == e[i - 1]
             y == HdlcCodeByte(s[i])
  <2>1. s[i] \in Byte /\ x \in Seq(HdlcInner) /\ Len(x) >= i - 1 /\ e[i] = x \o y /\ i \in 0 .. n
        /\ Len(x) <= 2 * (i - 1)
    <3>1. i - 1 \in 0 .. n /\ i \in 0 .. n /\ s[i] \in Byte  OBVIOUS
    <3>2. Len(x) >= i - 1 /\ Len(x) <= 2 * (i - 1)  BY <1>3
    <3> QED  BY <1>1, <3>1, <3>2
  <2>2. y \in Seq(HdlcInner) /\ Len(y) \in 1 .. 2
    BY <2>1, HdlcCodeByteType
  <2> HIDE DEF x, y
  <2>3. Len(e[i]) = Len(x) + Len(y)  BY <2>1, <2>2
  <2>4. Len(e[i]) >= i
    <3>1. Len(x) \in Nat /\ i \in Nat  BY <2>1
    <3>2. \A u, v, w \in Int : u >= w - 1 /\ v >= 1 => u + v >= w  OBVIOUS
    <3>3. Len(x) >= i - 1  BY <2>1
    <3>4. Len(y) \in 1 .. 2  BY <2>2
    <3>5. Len(x) + Len(y) >= i
      <4>1. Len(y) \in Int /\ Len(y) >= 1  BY <3>4
      <4> QED  BY <3>1, <3>2, <3>3, <4>1
    <3> QED  BY <2>3, <3>5
  <2>5. Len(e[i]) <= 2 * i
    <3> DEFINE a == Len(x)
               b == Len(y)
    <3>1. a \in Nat /\ i \in Nat /\ a <= 2 * (i - 1)  BY <2>1
    <3>2. b \in 1 .. 2  BY <2>2
    <3> HIDE DEF a, b
    <3>3. a + b <= 2 * i  BY <3>1, <3>2
    <3> QED  BY <2>3, <3>3 DEF a, b
  <2> QED  BY <2>1, <2>4, <2>5
<1>4. n \in Nat  OBVIOUS
<1> HIDE DEF T
<1>5. n \in T
  <2>1. 0 .. n \subseteq T  BY <1>2, <1>3, <1>4, Climb
  <2> QED  BY <1>4, <2>1
<1>6. e[n] \in Seq(HdlcInner)  BY <1>4
<1> QED  BY <1>1, <1>5, <1>6 DEF T
---------------------------------------------------------------------------
(***************************************************************************)
(* A frame of HDLC: what stands between its markers, without and with the  *)
(* sum.                                                                    *)
(***************************************************************************)
HdlcPart(src, msg) == <<src, msg.dst, (Len(msg.body) + 6) % 256, msg.id, msg.type>> \o msg.body

HdlcSumOf(src, msg) ==
    HdlcSum(SubSeq(HdlcPart(src, msg), 1, ((Len(msg.body) + 6) % 256) - 1))

HdlcIn(src, msg) == Append(HdlcPart(src, msg), HdlcSumOf(src, msg))

\* A message with fields of 8 bits and any number of bytes.
HdlcMsg == [dst : Byte, type : Byte, id : Byte, body : Seq(Byte)]

LEMMA HdlcPartType ==
    ASSUME NEW src \in Byte, NEW msg \in HdlcMsg
    PROVE  /\ HdlcPart(src, msg) \in Seq(Byte)
           /\ Len(HdlcPart(src, msg)) = Len(msg.body) + 5
           /\ HdlcPart(src, msg)[1] = src /\ HdlcPart(src, msg)[2] = msg.dst
           /\ HdlcPart(src, msg)[3] = (Len(msg.body) + 6) % 256
           /\ HdlcPart(src, msg)[4] = msg.id /\ HdlcPart(src, msg)[5] = msg.type
           /\ \A i \in 1 .. Len(msg.body) : HdlcPart(src, msg)[i + 5] = msg.body[i]
           /\ HdlcSumOf(src, msg) \in Byte
<1> DEFINE len == (Len(msg.body) + 6) % 256
           head == <<src, msg.dst, len, msg.id, msg.type>>
           p == HdlcPart(src, msg)
<1>1. len \in Byte /\ msg.body \in Seq(Byte) /\ msg.dst \in Byte /\ msg.id \in Byte /\ msg.type \in Byte
  <2>1. \A k \in Nat : (k + 6) % 256 \in Byte  BY DEF Byte
  <2>2. Len(msg.body) \in Nat  BY DEF HdlcMsg
  <2> QED  BY <2>1, <2>2 DEF HdlcMsg
<1>2. /\ p \in Seq(Byte) /\ Len(p) = Len(msg.body) + 5
      /\ p[1] = src /\ p[2] = msg.dst /\ p[3] = len /\ p[4] = msg.id /\ p[5] = msg.type
      /\ \A i \in 1 .. Len(msg.body) : p[i + 5] = msg.body[i]
  <2>1. p = head \o msg.body  BY DEF HdlcPart
  <2> HIDE DEF len, p
  <2>2. head \in Seq(Byte) /\ Len(head) = 5 /\ head[1] = src /\ head[2] = msg.dst /\ head[3] = len
        /\ head[4] = msg.id /\ head[5] = msg.type
    BY <1>1
  <2> HIDE DEF head
  <2>3. msg.body \in Seq(Byte) /\ Len(msg.body) \in Nat  BY <1>1
  <2>4. /\ p \in Seq(Byte) /\ Len(p) = Len(head) + Len(msg.body)
        /\ \A i \in 1 .. Len(head) + Len(msg.body) :
             p[i] = IF i <= Len(head) THEN head[i] ELSE msg.body[i - Len(head)]
    BY <2>1, <2>2, <2>3, ConcatProperties, Zenon
  <2>5. Len(p) = Len(msg.body) + 5  BY <2>2, <2>3, <2>4
  <2>6. \A i \in 1 .. 5 : p[i] = head[i]  BY <2>2, <2>3, <2>4, SMTT(30)
  <2>7. \A i \in 1 .. Len(msg.body) : p[i + 5] = msg.body[i]
    <3> TAKE i \in 1 .. Len(msg.body)
    <3>1. i + 5 \in 1 .. 5 + Len(msg.body) /\ ~ (i + 5 <= 5) /\ (i + 5) - 5 = i  BY <2>3
    <3> QED  BY <2>2, <2>4, <3>1
  <2> QED  BY <2>2, <2>4, <2>5, <2>6, <2>7
<1>3. SubSeq(p, 1, len - 1) \in Seq(Byte)
  <2>1. len - 1 \in Int /\ len - 1 <= Len(p)
    <3>1. \A k \in Nat : (k + 6) % 256 <= k + 6  OBVIOUS
    <3>2. Len(msg.body) \in Nat  BY <1>1
    <3>3. len <= Len(msg.body) + 6  BY <3>1, <3>2
    <3> HIDE DEF len, p
    <3> QED  BY <1>1, <1>2, <3>2, <3>3 DEF Byte
  <2> HIDE DEF p, len
  <2>2. \A i \in 1 .. len - 1 : p[i] \in Byte  BY <1>2, <2>1
  <2> QED  BY <1>2, <2>1, <2>2
<1>4. HdlcSumOf(src, msg) \in Byte  BY <1>3, SumType DEF HdlcSumOf
<1> QED  BY <1>2, <1>4

LEMMA InteriorBetween ==
    ASSUME NEW T, NEW s \in Seq(T), NEW a \in T, NEW b \in T
    PROVE  Interior(<<a>> \o s \o <<b>>, <<124>>) = s
<1> DEFINE f == <<a>> \o s \o <<b>>
<1>1. f \in Seq(T) /\ Len(f) = Len(s) + 2 /\ \A i \in 1 .. Len(s) : f[i + 1] = s[i]
  OBVIOUS
<1>2. Len(s) \in Nat  OBVIOUS
<1> HIDE DEF f
<1>3. Interior(f, <<124>>) = SubSeq(f, 2, Len(s) + 1)
  BY <1>1, <1>2 DEF Interior
<1>4. SubSeq(f, 2, Len(s) + 1) = s
  <2>1. SubSeq(f, 2, Len(s) + 1) \in Seq(T) /\ Len(SubSeq(f, 2, Len(s) + 1)) = Len(s)
        /\ \A i \in 1 .. Len(s) : SubSeq(f, 2, Len(s) + 1)[i] = f[i + 1]
    BY <1>1, <1>2
  <2> QED  BY <1>1, <2>1
<1> QED  BY <1>3, <1>4 DEF f

LEMMA HdlcCoded ==
    ASSUME NEW src \in Byte, NEW msg \in HdlcMsg
    PROVE  /\ HdlcIn(src, msg) \in Seq(Byte)
           /\ Len(HdlcIn(src, msg)) = Len(msg.body) + 6
           /\ HdlcFrame(src, msg) = <<124>> \o HdlcIn(src, msg) \o <<126>>
           /\ HdlcCode(HdlcFrame(src, msg)) = <<124>> \o HdlcEscape(HdlcIn(src, msg)) \o <<126>>
<1> DEFINE p == HdlcPart(src, msg)
           sum == HdlcSumOf(src, msg)
<1>1. p \in Seq(Byte) /\ sum \in Byte /\ Len(p) = Len(msg.body) + 5
  BY HdlcPartType, ZenonT(60)
<1>2. Append(p, sum) \in Seq(Byte) /\ Len(Append(p, sum)) = Len(msg.body) + 6
  <2>1. Len(msg.body) \in Nat  BY DEF HdlcMsg
  <2> HIDE DEF p, sum
  <2> QED  BY <1>1, <2>1
<1>3. HdlcFrame(src, msg) = <<124>> \o p \o <<sum, 126>>
  BY DEF HdlcFrame, HdlcPart, HdlcSumOf
<1>4. <<124>> \o p \o <<sum, 126>> = <<124>> \o Append(p, sum) \o <<126>>
  <2> HIDE DEF p, sum
  <2>1. 124 \in Byte /\ 126 \in Byte  BY DEF Byte
  <2> DEFINE f == <<124>> \o p \o <<sum, 126>>
             g == <<124>> \o Append(p, sum) \o <<126>>
  <2>2. f \in Seq(Byte) /\ Len(f) = Len(p) + 3 /\ f[1] = 124 /\ f[Len(p) + 2] = sum
        /\ f[Len(p) + 3] = 126 /\ \A i \in 1 .. Len(p) : f[i + 1] = p[i]
    BY <1>1, <2>1
  <2>3. g \in Seq(Byte) /\ Len(g) = Len(p) + 3 /\ g[1] = 124 /\ g[Len(p) + 2] = sum
        /\ g[Len(p) + 3] = 126 /\ \A i \in 1 .. Len(p) : g[i + 1] = p[i]
    BY <1>1, <2>1
  <2>4. Len(p) \in Nat  BY <1>1
  <2> HIDE DEF f, g
  <2>5. ASSUME NEW k \in 1 .. Len(p) + 3  PROVE f[k] = g[k]
    <3>1. CASE k = 1 \/ k >= Len(p) + 2  BY <2>2, <2>3, <2>4, <3>1
    <3>2. CASE k - 1 \in 1 .. Len(p)
      <4>1. f[(k - 1) + 1] = p[k - 1] /\ g[(k - 1) + 1] = p[k - 1]  BY <2>2, <2>3, <3>2
      <4> QED  BY <2>4, <4>1
    <3> QED  BY <2>4, <3>1, <3>2
  <2>6. f = g  BY <2>2, <2>3, <2>4, <2>5
  <2> QED  BY <2>6 DEF f, g
<1>5. Interior(<<124>> \o Append(p, sum) \o <<126>>, <<124>>) = Append(p, sum)
  <2>1. 124 \in Byte /\ 126 \in Byte  BY DEF Byte
  <2> DEFINE q == Append(p, sum)
  <2>2. q \in Seq(Byte)  BY <1>2
  <2> HIDE DEF q
  <2>3. Interior(<<124>> \o q \o <<126>>, <<124>>) = q  BY <2>1, <2>2, InteriorBetween
  <2> QED  BY <2>3 DEF q
<1> QED  BY <1>2, <1>3, <1>4, <1>5 DEF HdlcCode, HdlcIn

\* 120 bytes fit into the length of one byte, whatever has to be escaped.
LEMMA HdlcFits ==
    ASSUME NEW src \in Byte, NEW msg \in HdlcMsg, Len(msg.body) <= 120
    PROVE  HdlcWritten(src, msg) = HdlcCode(HdlcFrame(src, msg))
<1> DEFINE e == HdlcEscape(HdlcIn(src, msg))
           c == HdlcCode(HdlcFrame(src, msg))
           m == Len(msg.body)
           n == Len(HdlcIn(src, msg))
<1>1. HdlcIn(src, msg) \in Seq(Byte) /\ n = m + 6 /\ c = <<124>> \o e \o <<126>>
  BY HdlcCoded, ZenonT(60)
<1>2. m \in Nat /\ m <= 120  BY DEF HdlcMsg
<1>3. e \in Seq(HdlcInner) /\ Len(e) <= 2 * n  BY <1>1, EscapeType
<1> HIDE DEF e, m, n, c
<1>4. c \in Seq(HdlcInner \cup {124, 126}) /\ Len(c) = Len(e) + 2
  <2>1. e \in Seq(HdlcInner \cup {124, 126})  BY <1>3
  <2> QED  BY <1>1, <2>1
<1>5. Len(c) \in Nat /\ Len(c) % 256 = Len(c)
  <2> DEFINE l == Len(e)
             k == Len(c)
  <2>1. l \in Nat /\ l <= 2 * n /\ k = l + 2  BY <1>3, <1>4
  <2> HIDE DEF k, l
  <2>2. k \in Nat /\ k < 256  BY <1>1, <1>2, <2>1
  <2>3. k % 256 = k  BY <2>2
  <2> QED  BY <2>2, <2>3 DEF k
<1>6. SubSeq(c, 1, Len(c)) = c  BY <1>4
<1>7. HdlcWritten(src, msg) = SubSeq(c, 1, Len(c) % 256)  BY DEF HdlcWritten, c
<1> QED  BY <1>5, <1>6, <1>7 DEF c

(***************************************************************************)
(* What is written begins with the only start marker in it; an end marker  *)
(* is its last byte, and means that nothing was cut off.                   *)
(***************************************************************************)
LEMMA HdlcWrittenShape ==
    ASSUME NEW src \in Byte, NEW msg \in HdlcMsg
    PROVE  LET w == HdlcWritten(src, msg) IN
           /\ w \in Seq(Byte)
           /\ w # <<>> => w[1] = 124
           /\ \A k \in 2 .. Len(w) : w[k] # 124
           /\ \A k \in 1 .. Len(w) : w[k] = 126 => k = Len(w) /\ w = HdlcCode(HdlcFrame(src, msg))
           /\ w = HdlcCode(HdlcFrame(src, msg)) =>
                /\ Len(w) \in Nat /\ 8 <= Len(w) /\ Len(w) <= 255
                /\ Len(w) >= Len(msg.body) + 8 /\ w[Len(w)] = 126
<1> DEFINE w == HdlcWritten(src, msg)
           in == HdlcIn(src, msg)
           coded == HdlcCode(HdlcFrame(src, msg))
           e == HdlcEscape(in)
<1>1. e \in Seq(HdlcInner) /\ Len(e) >= Len(msg.body) + 6 /\ Len(msg.body) \in Nat
  <2>1. in \in Seq(Byte) /\ Len(in) = Len(msg.body) + 6  BY HdlcCoded
  <2> HIDE DEF in
  <2>2. e \in Seq(HdlcInner) /\ Len(e) >= Len(in)  BY <2>1, EscapeType
  <2>3. Len(msg.body) \in Nat  BY DEF HdlcMsg
  <2> QED  BY <2>1, <2>2, <2>3
<1>2. coded = <<124>> \o e \o <<126>>  BY HdlcCoded
<1>3. w = SubSeq(coded, 1, Len(coded) % 256)  BY DEF HdlcWritten
<1> HIDE DEF e, coded, in, w
<1>4. /\ coded \in Seq(Byte) /\ Len(coded) = Len(e) + 2 /\ coded[1] = 124
      /\ coded[Len(coded)] = 126
      /\ \A k \in 2 .. Len(coded) - 1 : coded[k] = e[k - 1]
  <2>1. e \in Seq(Byte) /\ 124 \in Byte /\ 126 \in Byte  BY <1>1 DEF HdlcInner, Byte
  <2> QED  BY <1>2, <2>1
<1>5. \A k \in 2 .. Len(coded) - 1 : coded[k] \notin {124, 126}
  <2>1. \A k \in 1 .. Len(e) : e[k] \notin {124, 126}  BY <1>1 DEF HdlcInner
  <2>2. Len(e) \in Nat  BY <1>1
  <2> QED  BY <1>4, <2>1, <2>2
<1> DEFINE n == Len(coded) % 256
<1>6. Len(coded) \in Nat /\ n \in 0 .. Len(coded) /\ n <= 255
  <2>1. Len(coded) \in Nat  BY <1>4
  <2>2. \A k \in Nat : k % 256 \in 0 .. k /\ k % 256 <= 255  OBVIOUS
  <2> QED  BY <2>1, <2>2
<1>7. w = SubSeq(coded, 1, n)  BY <1>3
<1> HIDE DEF n
<1>8. w \in Seq(Byte) /\ Len(w) = n /\ \A k \in 1 .. n : w[k] = coded[k]
  BY <1>4, <1>6, <1>7
<1>9. n = Len(coded) => w = coded
  BY <1>4, <1>7
<1>10. w = coded => Len(w) \in Nat /\ 8 <= Len(w) /\ Len(w) <= 255 /\ Len(w) >= Len(msg.body) + 8 /\ w[Len(w)] = 126
  <2> SUFFICES ASSUME w = coded
               PROVE  Len(w) \in Nat /\ 8 <= Len(w) /\ Len(w) <= 255 /\ Len(w) >= Len(msg.body) + 8 /\ w[Len(w)] = 126
    OBVIOUS
  <2>1. Len(w) = Len(e) + 2 /\ Len(w) <= 255 /\ w[Len(w)] = 126  BY <1>4, <1>6, <1>8
  <2>2. Len(e) \in Nat  BY <1>1
  <2>3. Len(w) \in Nat  BY <2>1, <2>2
  <2>4. 8 <= Len(e) + 2 /\ Len(e) + 2 >= Len(msg.body) + 8  BY <1>1, <2>2
  <2>5. 8 <= Len(w)  BY <2>1, <2>4
  <2>6. Len(w) >= Len(msg.body) + 8  BY <2>1, <2>4
  <2> QED  BY <2>1, <2>3, <2>5, <2>6
<1>11. \A k \in 1 .. n : w[k] = 126 => k = n /\ w = coded
  BY <1>4, <1>5, <1>6, <1>8, <1>9
<1>12. w # <<>> => w[1] = 124
  BY <1>4, <1>6, <1>8
<1>13. \A k \in 2 .. n : w[k] # 124
  BY <1>4, <1>5, <1>6, <1>8
<1> QED  BY <1>8, <1>10, <1>11, <1>12, <1>13 DEF coded, w

(***************************************************************************)
(* A frame that was written to its end is decoded to what was framed, and  *)
(* passes the checks of the end it is for.                                 *)
(***************************************************************************)
THEOREM HdlcRoundTrip ==
    ASSUME NEW src \in Byte, NEW msg \in HdlcMsg, NEW addr, NEW w,
           w = HdlcWritten(src, msg), w = HdlcCode(HdlcFrame(src, msg))
    PROVE  /\ Accepts("hdlc", w, addr) <=> msg.dst = addr
           /\ Message("hdlc", w, addr) = msg
<1> DEFINE in == HdlcIn(src, msg)
           p == HdlcPart(src, msg)
           sum == HdlcSumOf(src, msg)
           e == HdlcEscape(in)
           n == Len(msg.body)
           u == <<124>> \o (in \o <<126>>)
<1>1. /\ n \in Nat /\ in \in Seq(Byte) /\ Len(in) = n + 6
      /\ p \in Seq(Byte) /\ Len(p) = n + 5 /\ sum \in Byte /\ in = Append(p, sum)
  <2>1. n \in Nat  BY DEF HdlcMsg
  <2>2. in \in Seq(Byte) /\ Len(in) = n + 6  BY HdlcCoded
  <2>3. p \in Seq(Byte) /\ Len(p) = n + 5  BY HdlcPartType, ZenonT(60)
  <2>4. sum \in Byte  BY HdlcPartType
  <2>5. in = Append(p, sum)  BY DEF HdlcIn
  <2> QED  BY <2>1, <2>2, <2>3, <2>4, <2>5
<1>2. Len(w) \in Nat /\ 8 <= Len(w) /\ Len(w) <= 255 /\ Len(w) >= n + 8
  <2> DEFINE v == HdlcWritten(src, msg)
             f == HdlcCode(HdlcFrame(src, msg))
  <2>1. v = f => Len(v) \in Nat /\ 8 <= Len(v) /\ Len(v) <= 255 /\ Len(v) >= n + 8
    BY HdlcWrittenShape
  <2>2. w = v /\ w = f  OBVIOUS
  <2> HIDE DEF v, f
  <2> QED  BY <2>1, <2>2
<1>3. e \in Seq(Byte)
  <2>1. e \in Seq(HdlcInner)  BY <1>1, EscapeType
  <2> QED  BY <2>1 DEF HdlcInner
<1>4. w = <<124>> \o e \o <<126>>  BY HdlcCoded
<1>5. w[1] = 124 /\ Tail(w) = e \o <<126>>
  <2> HIDE DEF e
  <2>1. 124 \in Byte /\ 126 \in Byte  BY DEF Byte
  <2> DEFINE t == e \o <<126>>
  <2>2. t \in Seq(Byte)  BY <1>3, <2>1
  <2>3. w = <<124>> \o t
    <3>1. <<124>> \in Seq(Byte) /\ <<126>> \in Seq(Byte)  BY <2>1
    <3> QED  BY <1>3, <1>4, <3>1, ConcatAssociative
  <2> HIDE DEF t
  <2>4. Tail(w) = t /\ w[1] = 124
    <3>1. /\ w \in Seq(Byte) /\ Len(w) = Len(t) + 1 /\ w[1] = 124
          /\ \A k \in 1 .. Len(t) : w[k + 1] = t[k]
      BY <2>1, <2>2, <2>3
    <3>2. Len(t) \in Nat  BY <2>2
    <3>3. Tail(w) \in Seq(Byte) /\ Len(Tail(w)) = Len(t) /\ \A k \in 1 .. Len(t) : Tail(w)[k] = w[k + 1]
      BY <3>1, <3>2
    <3> QED  BY <2>2, <3>1, <3>3
  <2> QED  BY <2>4 DEF t
<1>6. HdlcUnescape(Tail(w)) = in \o <<126>>
  BY <1>1, <1>5, UnescapeEscape
<1>7. /\ u \in Seq(Byte) /\ Len(u) = n + 8 /\ u[n + 8] = 126
      /\ \A k \in 1 .. n + 6 : u[k + 1] = in[k]
  <2> HIDE DEF in, n
  <2>1. 124 \in Byte /\ 126 \in Byte  BY DEF Byte
  <2> QED  BY <1>1, <2>1
<1>8. HdlcUncode(w) = u
  <2>1. HdlcUncode(w) = SubSeq(u, 1, Len(u) % 256)  BY <1>5, <1>6 DEF HdlcUncode
  <2> HIDE DEF u, in, n
  <2>2. Len(u) \in 0 .. 255
    <3>1. n + 8 \in 0 .. 255  BY <1>1, <1>2
    <3> QED  BY <1>7, <3>1
  <2>3. \A k \in 0 .. 255 : k % 256 = k  OBVIOUS
  <2>4. Len(u) % 256 = Len(u)  BY <2>2, <2>3
  <2> QED  BY <1>7, <2>1, <2>4
<1>9. \A k \in 1 .. n + 5 : u[k + 1] = p[k]
  <2> HIDE DEF in, u, n, p, sum
  <2> QED  BY <1>1, <1>7
<1>10. u[n + 7] = sum
  <2> HIDE DEF in, u, n, p, sum
  <2>1. in[n + 6] = sum  BY <1>1
  <2>2. n + 6 \in 1 .. n + 6 /\ (n + 6) + 1 = n + 7  BY <1>1
  <2> QED  BY <1>7, <2>1, <2>2
<1>11. /\ p[2] = msg.dst /\ p[3] = (n + 6) % 256 /\ p[4] = msg.id /\ p[5] = msg.type
       /\ \A i \in 1 .. n : p[i + 5] = msg.body[i]
  <2>1. p[2] = msg.dst /\ p[4] = msg.id /\ p[5] = msg.type  BY HdlcPartType, ZenonT(60)
  <2>2. p[3] = (n + 6) % 256  BY HdlcPartType, ZenonT(60)
  <2>3. \A i \in 1 .. n : p[i + 5] = msg.body[i]  BY HdlcPartType
  <2> QED  BY <2>1, <2>2, <2>3
<1>12. (n + 6) % 256 = n + 6
  <2> HIDE DEF n
  <2>1. n + 6 \in 0 .. 255  BY <1>1, <1>2
  <2>2. \A k \in 0 .. 255 : k % 256 = k  OBVIOUS
  <2> QED  BY <2>1, <2>2
<1>13. sum = HdlcSum(p)
  <2>1. sum = HdlcSum(SubSeq(p, 1, (n + 6) - 1))
    <3>1. sum = HdlcSum(SubSeq(p, 1, ((n + 6) % 256) - 1))  BY DEF HdlcSumOf
    <3> HIDE DEF sum, p, n
    <3> QED  BY <1>12, <3>1
  <2> HIDE DEF p, sum, n
  <2>2. (n + 6) - 1 = Len(p)  BY <1>1
  <2>3. SubSeq(p, 1, Len(p)) = p  BY <1>1
  <2> QED  BY <2>1, <2>2, <2>3
<1> HIDE DEF u, in, p, sum, e, n
<1>14. u[3] = msg.dst /\ u[4] = n + 6 /\ u[5] = msg.id /\ u[6] = msg.type
  <2>1. /\ u[2 + 1] = p[2] /\ u[3 + 1] = p[3] /\ u[4 + 1] = p[4] /\ u[5 + 1] = p[5]
    BY <1>1, <1>9
  <2> QED  BY <1>11, <1>12, <2>1
<1>15. SubSeq(u, 2, u[4]) = p
  <2>1. SubSeq(u, 2, n + 6) \in Seq(Byte) /\ Len(SubSeq(u, 2, n + 6)) = n + 5
        /\ \A k \in 1 .. n + 5 : SubSeq(u, 2, n + 6)[k] = u[k + 1]
    BY <1>1, <1>7
  <2> QED  BY <1>1, <1>9, <1>14, <2>1
<1>16. HdlcAccepts(u, addr) <=> msg.dst = addr
  <2>1. Len(u) - 2 = n + 6 /\ Len(u) - 1 = n + 7  BY <1>1, <1>7
  <2> QED  BY <1>10, <1>13, <1>14, <1>15, <2>1 DEF HdlcAccepts
<1>17. Accepts("hdlc", w, addr) <=> msg.dst = addr
  <2>1. MinLen("hdlc") = 8  BY DEF MinLen
  <2>2. Len(w) >= MinLen("hdlc")  BY <1>2, <2>1
  <2> QED  BY <1>8, <1>16, <2>2 DEF Accepts
<1>18. SubSeq(u, 7, Len(u) - 2) = msg.body
  <2>1. msg.body \in Seq(Byte) /\ Len(msg.body) = n  BY DEF HdlcMsg, n
  <2>2. \A i \in 1 .. n : u[i + 6] = msg.body[i]
    <3> TAKE i \in 1 .. n
    <3>1. i + 5 \in 1 .. n + 5 /\ (i + 5) + 1 = i + 6  BY <1>1
    <3> QED  BY <1>9, <1>11, <3>1
  <2>3. SubSeq(u, 7, n + 6) \in Seq(Byte) /\ Len(SubSeq(u, 7, n + 6)) = n
        /\ \A i \in 1 .. n : SubSeq(u, 7, n + 6)[i] = u[i + 6]
    BY <1>1, <1>7
  <2>4. Len(u) - 2 = n + 6  BY <1>1, <1>7
  <2> QED  BY <2>1, <2>2, <2>3, <2>4
<1>19. Message("hdlc", w, addr)
         = [dst |-> msg.dst, type |-> msg.type, id |-> msg.id, body |-> msg.body]
  BY <1>8, <1>14, <1>18 DEF Message, HdlcMessage
<1>20. msg = [dst |-> msg.dst, type |-> msg.type, id |-> msg.id, body |-> msg.body]
  BY DEF HdlcMsg
<1> QED  BY <1>17, <1>19, <1>20
---------------------------------------------------------------------------
(***************************************************************************)
(* fffeFrame: the check.                                                   *)
(***************************************************************************)
Word == Byte \X Byte \X Byte \X Byte

LEMMA XorType ==
    ASSUME NEW a \in Byte, NEW b \in Byte
    PROVE  XorOf[a][b] \in Byte
<1> DEFINE x(w) == XorBit(a, b, w)
<1>1. \A w \in Nat : x(w) = 0 \/ x(w) = w  BY DEF XorBit
<1>2. XorOf[a][b] = x(1) + x(2) + x(4) + x(8) + x(16) + x(32) + x(64) + x(128)
  BY DEF XorOf
<1> HIDE DEF x
<1> DEFINE low == x(1) + x(2) + x(4) + x(8)
           high == x(16) + x(32) + x(64) + x(128)
<1>3. low \in Nat /\ low <= 15
  <2>1. x(1) \in 0 .. 1 /\ x(2) \in 0 .. 2 /\ x(4) \in 0 .. 4 /\ x(8) \in 0 .. 8  BY <1>1
  <2> QED  BY <2>1
<1>4. high \in Nat /\ high <= 240
  <2>1. x(16) \in Nat /\ x(16) <= 16  BY <1>1
  <2>2. x(32) \in Nat /\ x(32) <= 32  BY <1>1
  <2>3. x(64) \in Nat /\ x(64) <= 64  BY <1>1
  <2>4. x(128) \in Nat /\ x(128) <= 128  BY <1>1
  <2> QED  BY <2>1, <2>2, <2>3, <2>4
<1>5. XorOf[a][b] = low + high
  <2>1. x(1) \in Int /\ x(2) \in Int /\ x(4) \in Int /\ x(8) \in Int  BY <1>1
  <2>2. x(16) \in Int /\ x(32) \in Int /\ x(64) \in Int /\ x(128) \in Int  BY <1>1
  <2> QED  BY <1>2, <2>1, <2>2
<1> HIDE DEF low, high
<1> QED  BY <1>3, <1>4, <1>5 DEF Byte

LEMMA WordParts ==
    ASSUME NEW v \in Word
    PROVE  v[1] \in Byte /\ v[2] \in Byte /\ v[3] \in Byte /\ v[4] \in Byte
BY DEF Word

LEMMA XorWordType ==
    ASSUME NEW v \in Word, NEW w \in Word
    PROVE  XorWord(v, w) \in Word
<1>1. /\ v[1] \in Byte /\ v[2] \in Byte /\ v[3] \in Byte /\ v[4] \in Byte
      /\ w[1] \in Byte /\ w[2] \in Byte /\ w[3] \in Byte /\ w[4] \in Byte
  BY WordParts
<1>2. /\ XorOf[v[1]][w[1]] \in Byte /\ XorOf[v[2]][w[2]] \in Byte
      /\ XorOf[v[3]][w[3]] \in Byte /\ XorOf[v[4]][w[4]] \in Byte
  BY <1>1, XorType
<1> QED  BY <1>2 DEF XorWord, Word

LEMMA CrcTwiceType ==
    ASSUME NEW c \in Word
    PROVE  CrcTwice(c) \in Word
<1> DEFINE Up(x, y) == ((x * 2) % 256) + (y \div 128)
           Low(x) == (x * 2) % 256
<1>1. c[1] \in Byte /\ c[2] \in Byte /\ c[3] \in Byte /\ c[4] \in Byte  BY WordParts
<1>2. \A x \in Byte : Low(x) \in Byte /\ Low(x) <= 254
  <2> TAKE x \in Byte
  <2>1. x \in Nat /\ x <= 255  BY DEF Byte
  <2>2. CASE x <= 127  BY <2>1, <2>2 DEF Byte
  <2>3. CASE x >= 128  BY <2>1, <2>3 DEF Byte
  <2> QED  BY <2>1, <2>2, <2>3
<1>3. \A y \in Byte : y \div 128 \in {0, 1}  BY DEF Byte
<1>4. \A x, y \in Byte : Up(x, y) \in Byte
  <2> TAKE x, y \in Byte
  <2> DEFINE lo == Low(x)
             hi == y \div 128
  <2>1. lo \in 0 .. 254 /\ hi \in {0, 1} /\ Up(x, y) = lo + hi  BY <1>2, <1>3 DEF Byte
  <2> HIDE DEF lo, hi, Up
  <2> QED  BY <2>1 DEF Byte
<1>5. CrcTwice(c) = <<Up(c[1], c[2]), Up(c[2], c[3]), Up(c[3], c[4]), Low(c[4])>>
  BY DEF CrcTwice
<1> HIDE DEF Up, Low
<1> QED  BY <1>1, <1>2, <1>4, <1>5 DEF Word

LEMMA CrcShiftType ==
    ASSUME NEW c \in Word
    PROVE  CrcShift(c) \in Word
<1>1. <<4, 193, 29, 183>> \in Word  BY DEF Word, Byte
<1> QED  BY <1>1, CrcTwiceType, XorWordType DEF CrcShift

LEMMA CrcTableType ==
    ASSUME NEW i \in Byte
    PROVE  Crc32Table[i] \in Word
<1> DEFINE S(c) == CrcShift(CrcShift(c))
<1>1. \A c \in Word : S(c) \in Word  BY CrcShiftType
<1>2. <<i, 0, 0, 0>> \in Word  BY DEF Word, Byte
<1>3. Crc32Table[i] = S(S(S(S(<<i, 0, 0, 0>>))))  BY DEF Crc32Table
<1> HIDE DEF S
<1> QED  BY <1>1, <1>2, <1>3

LEMMA CrcByteType ==
    ASSUME NEW crc \in Word, NEW b \in Byte
    PROVE  CrcByte(crc, b) \in Word
<1>1. crc[1] \in Byte /\ crc[2] \in Byte /\ crc[3] \in Byte /\ crc[4] \in Byte  BY WordParts
<1>2. <<crc[2], crc[3], crc[4], 0>> \in Word
  <2>1. 0 \in Byte  BY DEF Byte
  <2> QED  BY <1>1, <2>1 DEF Word
<1>3. Crc32Table[XorOf[crc[1]][b]] \in Word  BY <1>1, XorType, CrcTableType
<1> QED  BY <1>2, <1>3, XorWordType DEF CrcByte

LEMMA CrcType ==
    ASSUME NEW s \in Seq(Byte)
    PROVE  XCrc32(s) \in Word
<1> DEFINE n == Len(s)
           E(x, i) == CrcByte(x, s[i])
           base == <<255, 255, 255, 255>>
           Eqn(crc) == crc = [i \in 0 .. n |-> IF i = 0 THEN base ELSE E(crc[i - 1], i)]
           step == [i \in 1 .. n |-> [x \in Word |-> E(x, i)]]
           g == CHOOSE crc : Eqn(crc)
<1>1. n \in Nat /\ base \in Word
  BY DEF Word, Byte
<1>2. \A x \in Word, i \in 1 .. n : E(x, i) \in Word
  <2>1. \A i \in 1 .. n : s[i] \in Byte  OBVIOUS
  <2> QED  BY <2>1, CrcByteType
<1>3. XCrc32(s) = g[n]
  BY DEF XCrc32
<1> HIDE DEF n, E, base
<1>4. PICK f : IsLoop(f, n, Word, base, step)
  <2>1. step \in Passes(n, Word)  BY <1>2 DEF Passes
  <2> HIDE DEF step
  <2> QED  BY <1>1, <2>1, Recursion
<1>5. \A i \in 1 .. n : f[i] = E(f[i - 1], i)
  BY <1>1, <1>4 DEF IsLoop
<1>6. Eqn(g)
  <2>1. Eqn(f)  BY <1>4, <1>5 DEF IsLoop
  <2> QED  BY <2>1
<1> HIDE DEF g, step
<1>7. g[0] = f[0] /\ \A i \in 1 .. n : g[i - 1] = f[i - 1] => g[i] = f[i]
  BY <1>1, <1>4, <1>5, <1>6 DEF IsLoop
<1>8. \A i \in 0 .. n : g[i] = f[i]  BY <1>1, <1>7, SameLoop, ZenonT(60)
<1> QED  BY <1>1, <1>3, <1>4, <1>8 DEF IsLoop

LEMMA FffeCheckType ==
    ASSUME NEW s \in Seq(Byte)
    PROVE  FffeCheck(s) \in Seq(Byte) /\ Len(FffeCheck(s)) = 4
<1> DEFINE crc == XCrc32(s)
<1>1. crc \in Word  BY CrcType
<1>2. FffeCheck(s) = <<crc[4], crc[3], crc[2], crc[1]>>  BY DEF FffeCheck
<1> HIDE DEF crc
<1>3. crc[1] \in Byte /\ crc[2] \in Byte /\ crc[3] \in Byte /\ crc[4] \in Byte  BY <1>1, WordParts
<1> QED  BY <1>2, <1>3
---------------------------------------------------------------------------
(***************************************************************************)
(* fffeFrame: what stands between the markers.                             *)
(***************************************************************************)
FffePart(msg) == Le16(Len(msg.body) + 10) \o Le16(msg.type) \o Le16(msg.id) \o msg.body

FffeIn(msg) == FffePart(msg) \o FffeCheck(FffePart(msg))

\* A message with fields of 16 bits, and a body whose length fits into one.
FffeMsg ==
    {msg \in [dst : Byte, type : Nat, id : Nat, body : Seq(Byte)] :
       msg.type <= 65535 /\ msg.id <= 65535 /\ Len(msg.body) + 10 <= 65535}

LEMMA Le16Is ==
    ASSUME NEW n \in Nat, n <= 65535
    PROVE  /\ Le16(n) = <<n % 256, n \div 256>>
           /\ n % 256 \in Byte /\ n \div 256 \in Byte
           /\ OfLe16(n % 256, n \div 256) = n
<1> DEFINE lo == n % 256
           hi == n \div 256
<1>1. lo \in Int /\ lo >= 0 /\ lo <= 255  OBVIOUS
<1>2. hi \in Int /\ hi >= 0  OBVIOUS
<1>3. hi <= 255  OBVIOUS
<1>4. lo + 256 * hi = n  OBVIOUS
<1>5. Le16(n) = <<lo, hi>>  BY DEF Le16
<1>6. OfLe16(lo, hi) = lo + 256 * hi  BY DEF OfLe16
<1> HIDE DEF lo, hi
<1>7. lo \in Byte /\ hi \in Byte  BY <1>1, <1>2, <1>3 DEF Byte
<1> QED  BY <1>4, <1>5, <1>6, <1>7 DEF lo, hi

LEMMA FffeMsgParts ==
    ASSUME NEW msg \in FffeMsg
    PROVE  /\ msg.type \in Nat /\ msg.type <= 65535 /\ msg.id \in Nat /\ msg.id <= 65535
           /\ msg.body \in Seq(Byte) /\ Len(msg.body) \in Nat /\ Len(msg.body) + 10 <= 65535
           /\ msg = [dst |-> msg.dst, type |-> msg.type, id |-> msg.id, body |-> msg.body]
BY DEF FffeMsg

LEMMA FffePartIs ==
    ASSUME NEW msg \in FffeMsg
    PROVE  LET p == FffePart(msg) IN
           /\ p \in Seq(Byte) /\ Len(p) = Len(msg.body) + 6
           /\ OfLe16(p[1], p[2]) = Len(msg.body) + 10
           /\ OfLe16(p[3], p[4]) = msg.type
           /\ OfLe16(p[5], p[6]) = msg.id
           /\ \A i \in 1 .. Len(msg.body) : p[i + 6] = msg.body[i]
<1> DEFINE body == msg.body
           n == Len(body)
           p == FffePart(msg)
<1>1. body \in Seq(Byte) /\ n \in Nat /\ n + 10 \in Nat /\ n + 10 <= 65535
  <2>1. body \in Seq(Byte) /\ n \in Nat /\ n + 10 <= 65535  BY FffeMsgParts
  <2> HIDE DEF n
  <2> QED  BY <2>1
<1> DEFINE t == msg.type
           k == msg.id
           a == (n + 10) % 256
           b == (n + 10) \div 256
           c == t % 256
           d == t \div 256
           e == k % 256
           f == k \div 256
<1>2. t \in Nat /\ t <= 65535 /\ k \in Nat /\ k <= 65535  BY FffeMsgParts
<1> HIDE DEF t, k, n
<1>3. Le16(n + 10) = <<a, b>> /\ a \in Byte /\ b \in Byte /\ OfLe16(a, b) = n + 10
  BY <1>1, Le16Is
<1>4. Le16(t) = <<c, d>> /\ c \in Byte /\ d \in Byte /\ OfLe16(c, d) = t
  BY <1>2, Le16Is
<1>5. Le16(k) = <<e, f>> /\ e \in Byte /\ f \in Byte /\ OfLe16(e, f) = k
  BY <1>2, Le16Is
<1> HIDE DEF a, b, c, d, e, f
<1> DEFINE head == <<a, b>> \o <<c, d>> \o <<e, f>>
<1>6. p = head \o body  BY <1>3, <1>4, <1>5 DEF FffePart, t, k, n
<1>7. /\ head \in Seq(Byte) /\ Len(head) = 6
      /\ head[1] = a /\ head[2] = b /\ head[3] = c /\ head[4] = d /\ head[5] = e /\ head[6] = f
  <2> DEFINE h == <<a, b>> \o <<c, d>>
  <2>1. h \in Seq(Byte) /\ Len(h) = 4 /\ h[1] = a /\ h[2] = b /\ h[3] = c /\ h[4] = d
    BY <1>3, <1>4
  <2>2. head = h \o <<e, f>>  OBVIOUS
  <2> HIDE DEF h
  <2> QED  BY <1>5, <2>1, <2>2
<1> HIDE DEF head, p, body, n
<1>8. /\ p \in Seq(Byte) /\ Len(p) = Len(head) + Len(body)
      /\ \A i \in 1 .. Len(head) + Len(body) :
           p[i] = IF i <= Len(head) THEN head[i] ELSE body[i - Len(head)]
  <2>1. head \in Seq(Byte) /\ body \in Seq(Byte)  BY <1>1, <1>7
  <2>2. /\ head \o body \in Seq(Byte) /\ Len(head \o body) = Len(head) + Len(body)
        /\ \A i \in 1 .. Len(head) + Len(body) :
             (head \o body)[i] = IF i <= Len(head) THEN head[i] ELSE body[i - Len(head)]
    BY <2>1, ConcatProperties, Zenon
  <2> QED  BY <1>6, <2>2, Zenon
<1>9. Len(body) = n  BY DEF n
<1>10. Len(p) = n + 6  BY <1>1, <1>7, <1>8, <1>9
<1>11. \A i \in 1 .. 6 : p[i] = head[i]  BY <1>1, <1>7, <1>8, <1>9
<1>12. \A i \in 1 .. n : p[i + 6] = body[i]
  <2> TAKE i \in 1 .. n
  <2>1. i + 6 \in 1 .. 6 + n /\ ~ (i + 6 <= 6) /\ (i + 6) - 6 = i  BY <1>1
  <2> QED  BY <1>7, <1>8, <1>9, <2>1
<1>13. p[1] = a /\ p[2] = b /\ p[3] = c /\ p[4] = d /\ p[5] = e /\ p[6] = f  BY <1>7, <1>11
<1>14. OfLe16(p[1], p[2]) = n + 10 /\ OfLe16(p[3], p[4]) = t /\ OfLe16(p[5], p[6]) = k
  BY <1>3, <1>4, <1>5, <1>13
<1> QED  BY <1>8, <1>10, <1>12, <1>14 DEF p, n, body, t, k

LEMMA FffeInIs ==
    ASSUME NEW msg \in FffeMsg
    PROVE  LET p == FffePart(msg) in == FffeIn(msg) n == Len(msg.body) IN
           /\ in \in Seq(Byte) /\ Len(in) = n + 10
           /\ \A k \in 1 .. n + 6 : in[k] = p[k]
           /\ \A k \in 1 .. 4 : in[n + 6 + k] = FffeCheck(p)[k]
<1> DEFINE p == FffePart(msg)
           n == Len(msg.body)
           in == FffeIn(msg)
           crc == FffeCheck(p)
<1>1. p \in Seq(Byte) /\ Len(p) = n + 6  BY FffePartIs
<1>2. n \in Nat  BY FffeMsgParts
<1>3. crc \in Seq(Byte) /\ Len(crc) = 4  BY <1>1, FffeCheckType
<1>4. in = p \o crc  BY DEF FffeIn
<1> HIDE DEF p, crc, in, n
<1>5. /\ in \in Seq(Byte) /\ Len(in) = Len(p) + Len(crc)
      /\ \A i \in 1 .. Len(p) + Len(crc) : in[i] = IF i <= Len(p) THEN p[i] ELSE crc[i - Len(p)]
  BY <1>1, <1>3, <1>4, ConcatProperties, Zenon
<1>6. \A k \in 1 .. 4 : in[n + 6 + k] = crc[k]
  <2> TAKE k \in 1 .. 4
  <2>1. n + 6 + k \in 1 .. n + 6 + 4 /\ ~ (n + 6 + k <= n + 6) /\ (n + 6 + k) - (n + 6) = k
    BY <1>2
  <2> QED  BY <1>1, <1>3, <1>5, <2>1
<1>7. Len(in) = n + 10  BY <1>1, <1>2, <1>3, <1>5
<1>8. \A k \in 1 .. n + 6 : in[k] = p[k]  BY <1>1, <1>2, <1>3, <1>5
<1> QED  BY <1>5, <1>6, <1>7, <1>8 DEF p, crc, in, n

\* Between markers of two bytes.
LEMMA InteriorOfTwo ==
    ASSUME NEW s \in Seq(Byte), NEW a \in Byte, NEW b \in Byte, NEW c \in Byte, NEW d \in Byte,
           NEW f, f = <<a, b>> \o s \o <<c, d>>
    PROVE  /\ f \in Seq(Byte) /\ Len(f) = Len(s) + 4
           /\ f[1] = a /\ f[2] = b /\ f[Len(s) + 3] = c /\ f[Len(s) + 4] = d
           /\ \A k \in 1 .. Len(s) : f[k + 2] = s[k]
           /\ SubSeq(f, 3, Len(s) + 2) = s
<1> DEFINE n == Len(s)
<1>1. n \in Nat  OBVIOUS
<1>2. f \in Seq(Byte) /\ Len(f) = n + 4  OBVIOUS
<1>3. f[1] = a /\ f[2] = b /\ f[n + 3] = c /\ f[n + 4] = d  OBVIOUS
<1>4. \A k \in 1 .. n : f[k + 2] = s[k]  OBVIOUS
<1> HIDE DEF n
<1>5. SubSeq(f, 3, n + 2) \in Seq(Byte) /\ Len(SubSeq(f, 3, n + 2)) = n
      /\ \A k \in 1 .. n : SubSeq(f, 3, n + 2)[k] = f[k + 2]
  BY <1>1, <1>2
<1>6. SubSeq(f, 3, n + 2) = s
  BY <1>1, <1>4, <1>5 DEF n
<1> QED  BY <1>2, <1>3, <1>4, <1>6 DEF n

LEMMA FffeFrameIs ==
    ASSUME NEW msg \in FffeMsg
    PROVE  /\ FffeFrame(msg) = <<255, 254>> \o FffeIn(msg) \o <<255, 253>>
           /\ Interior(FffeFrame(msg), <<255, 254>>) = FffeIn(msg)
<1> DEFINE p == FffePart(msg)
           crc == FffeCheck(p)
           in == FffeIn(msg)
           s == <<255, 254>>
           f == FffeFrame(msg)
<1>1. p \in Seq(Byte)  BY FffePartIs
<1>2. crc \in Seq(Byte) /\ in \in Seq(Byte)  BY <1>1, FffeCheckType, FffeInIs
<1>3. s \in Seq(Byte)
  <2>1. 255 \in Byte /\ 254 \in Byte  BY DEF Byte
  <2> QED  BY <2>1
<1>4. f = s \o p \o crc \o <<255, 253>>  BY DEF FffeFrame, FffePart
<1>5. in = p \o crc  BY DEF FffeIn
<1> HIDE DEF p, crc, in, s
<1>6. (s \o p) \o crc = s \o in
  <2>1. (s \o p) \o crc = s \o (p \o crc)  BY <1>1, <1>2, <1>3, ConcatAssociative
  <2> QED  BY <1>5, <2>1
<1>7. f = s \o in \o <<255, 253>>  BY <1>4, <1>6
<1>8. f = <<255, 254>> \o in \o <<255, 253>>  BY <1>7 DEF s
<1>9. Interior(f, <<255, 254>>) = in
  <2> HIDE DEF f
  <2>1. 255 \in Byte /\ 254 \in Byte /\ 253 \in Byte  BY DEF Byte
  <2>2. Len(f) = Len(in) + 4 /\ SubSeq(f, 3, Len(in) + 2) = in
    BY <1>2, <1>8, <2>1, InteriorOfTwo
  <2>3. Len(in) \in Nat  BY <1>2
  <2>4. Interior(f, <<255, 254>>) = SubSeq(f, 3, Len(f) - 2)  BY DEF Interior
  <2>5. Len(f) - 2 = Len(in) + 2  BY <2>2, <2>3
  <2> QED  BY <2>2, <2>4, <2>5
<1> QED  BY <1>8, <1>9 DEF in
---------------------------------------------------------------------------
(***************************************************************************)
(* fffeFrame: the coding loop.  Behind the start marker every 0xff that is *)
(* written is followed by 0 or a distance, so that no marker comes about.  *)
(***************************************************************************)
Described(x) ==
    /\ Len(x) >= 2 /\ x[1] = 255 /\ x[2] = 254
    /\ \A p \in 3 .. Len(x) : x[p] = 255 => p + 1 <= Len(x) /\ x[p + 1] <= MaxPair

\* The last 0xff may get a partner, and none has come since.
Waits(x, o) ==
    /\ 3 <= o /\ o + 1 <= Len(x) /\ x[o] = 255 /\ x[o + 1] = 0
    /\ \A p \in o + 2 .. Len(x) : x[p] # 255

FffeCoding ==
    {c \in [out : Seq(Byte), open : Nat] : Described(c.out) /\ (c.open # 0 => Waits(c.out, c.open))}

LEMMA FffeAppend ==
    ASSUME NEW c \in FffeCoding, NEW b \in Byte, b # 255
    PROVE  /\ FffeCodeByte(c, b) = [out |-> Append(c.out, b), open |-> c.open]
           /\ FffeCodeByte(c, b) \in FffeCoding
<1> DEFINE x == c.out
           o == c.open
           y == Append(x, b)
<1>1. x \in Seq(Byte) /\ o \in Nat /\ c = [out |-> x, open |-> o] /\ Described(x)
      /\ (o # 0 => Waits(x, o))
  BY DEF FffeCoding
<1> HIDE DEF x, o
<1>2. FffeCodeByte(c, b) = [out |-> y, open |-> o]
  <2>1. FffeCodeByte(c, b) = [c EXCEPT !.out = Append(@, b)]  BY DEF FffeCodeByte
  <2> QED  BY <1>1, <2>1
<1>3. /\ y \in Seq(Byte) /\ Len(y) = Len(x) + 1 /\ y[Len(x) + 1] = b
      /\ \A p \in 1 .. Len(x) : y[p] = x[p]
  BY <1>1
<1>4. Len(x) \in Nat  BY <1>1
<1> HIDE DEF y
<1>5. Described(y)
  <2>1. Len(y) >= 2 /\ y[1] = 255 /\ y[2] = 254  BY <1>1, <1>3, <1>4 DEF Described
  <2>2. ASSUME NEW p \in 3 .. Len(y), y[p] = 255
        PROVE  p + 1 <= Len(y) /\ y[p + 1] <= MaxPair
    <3>1. p \in 3 .. Len(x) /\ x[p] = 255  BY <1>3, <1>4, <2>2
    <3>2. p + 1 <= Len(x) /\ x[p + 1] <= MaxPair  BY <1>1, <3>1 DEF Described
    <3>3. y[p + 1] = x[p + 1]  BY <1>3, <1>4, <3>1, <3>2
    <3> QED  BY <1>3, <1>4, <3>2, <3>3
  <2> QED  BY <2>1, <2>2 DEF Described
<1>6. ASSUME o # 0  PROVE Waits(y, o)
  <2>1. Waits(x, o)  BY <1>1, <1>6
  <2>2. 3 <= o /\ o + 1 <= Len(y) /\ y[o] = 255 /\ y[o + 1] = 0
    <3>1. 3 <= o /\ o + 1 <= Len(x) /\ x[o] = 255 /\ x[o + 1] = 0  BY <2>1 DEF Waits
    <3>2. o \in 1 .. Len(x) /\ o + 1 \in 1 .. Len(x)  BY <1>1, <1>4, <3>1
    <3> QED  BY <1>3, <1>4, <3>1, <3>2
  <2>3. ASSUME NEW p \in o + 2 .. Len(y)  PROVE y[p] # 255
    <3>1. CASE p = Len(x) + 1  BY <1>3, <3>1
    <3>2. CASE p \in o + 2 .. Len(x)
      <4>1. x[p] # 255  BY <2>1, <3>2 DEF Waits
      <4>2. p \in 1 .. Len(x)  BY <1>1, <1>4, <3>2
      <4> QED  BY <1>3, <4>1, <4>2
    <3> QED  BY <1>1, <1>3, <1>4, <3>1, <3>2
  <2> QED  BY <2>2, <2>3 DEF Waits
<1>7. [out |-> y, open |-> o] \in FffeCoding
  BY <1>1, <1>3, <1>5, <1>6 DEF FffeCoding
<1> QED  BY <1>2, <1>7 DEF y, x, o

LEMMA FffeOpens ==
    ASSUME NEW c \in FffeCoding, c.open = 0 \/ Len(c.out) - c.open > MaxPair
    PROVE  /\ FffeCodeByte(c, 255) = [out |-> c.out \o <<255, 0>>, open |-> Len(c.out) + 1]
           /\ FffeCodeByte(c, 255) \in FffeCoding
<1> DEFINE x == c.out
           o == c.open
           y == x \o <<255, 0>>
<1>1. x \in Seq(Byte) /\ o \in Nat /\ Described(x)
  BY DEF FffeCoding
<1>2. o = 0 \/ Len(x) - o > MaxPair  OBVIOUS
<1>3. ASSUME o = 0 \/ (Len(x) + 1) - o - 1 > MaxPair
      PROVE  FffeCodeByte(c, 255) = [out |-> y, open |-> Len(x) + 1]
  BY <1>3 DEF FffeCodeByte
<1>4. Len(x) \in Nat  BY <1>1
<1>5. 255 \in Byte /\ 0 \in Byte  BY DEF Byte
<1> HIDE DEF x, o
<1>6. /\ y \in Seq(Byte) /\ Len(y) = Len(x) + 2 /\ y[Len(x) + 1] = 255 /\ y[Len(x) + 2] = 0
      /\ \A p \in 1 .. Len(x) : y[p] = x[p]
  BY <1>1, <1>5
<1> HIDE DEF y
<1>7. FffeCodeByte(c, 255) = [out |-> y, open |-> Len(x) + 1]
  <2>1. (Len(x) + 1) - o - 1 = Len(x) - o  BY <1>1, <1>4
  <2> QED  BY <1>2, <1>3, <2>1
<1>8. Described(y)
  <2>1. Len(y) >= 2 /\ y[1] = 255 /\ y[2] = 254  BY <1>1, <1>4, <1>6 DEF Described
  <2>2. ASSUME NEW p \in 3 .. Len(y), y[p] = 255
        PROVE  p + 1 <= Len(y) /\ y[p + 1] <= MaxPair
    <3>1. CASE p = Len(x) + 1
      <4>1. 0 <= MaxPair  BY FrameCodecAssumption
      <4>2. p + 1 = Len(x) + 2  BY <1>4, <3>1
      <4> QED  BY <1>4, <1>6, <4>1, <4>2
    <3>2. CASE p \in 3 .. Len(x)
      <4>1. x[p] = 255  BY <1>4, <1>6, <2>2, <3>2
      <4>2. p + 1 <= Len(x) /\ x[p + 1] <= MaxPair  BY <1>1, <3>2, <4>1 DEF Described
      <4>3. y[p + 1] = x[p + 1]  BY <1>4, <1>6, <3>2, <4>2
      <4> QED  BY <1>4, <1>6, <4>2, <4>3
    <3>3. p # Len(x) + 2  BY <1>6, <2>2
    <3> QED  BY <1>4, <1>6, <3>1, <3>2, <3>3
  <2> QED  BY <2>1, <2>2 DEF Described
<1>9. Waits(y, Len(x) + 1)
  <2>1. 3 <= Len(x) + 1  BY <1>1, <1>4 DEF Described
  <2>2. (Len(x) + 1) + 1 = Len(x) + 2 /\ (Len(x) + 1) + 1 <= Len(y)  BY <1>4, <1>6
  <2>3. \A p \in (Len(x) + 1) + 2 .. Len(y) : FALSE  BY <1>4, <1>6
  <2> QED  BY <1>6, <2>1, <2>2, <2>3 DEF Waits
<1>10. [out |-> y, open |-> Len(x) + 1] \in FffeCoding
  <2>1. Len(x) + 1 \in Nat  BY <1>4
  <2> QED  BY <1>6, <1>8, <1>9, <2>1 DEF FffeCoding
<1> QED  BY <1>7, <1>10 DEF y, x

LEMMA FffePairs ==
    ASSUME NEW c \in FffeCoding, c.open # 0, Len(c.out) - c.open <= MaxPair
    PROVE  /\ FffeCodeByte(c, 255)
                = [out |-> [c.out EXCEPT ![c.open + 1] = Len(c.out) - c.open], open |-> 0]
           /\ FffeCodeByte(c, 255) \in FffeCoding
<1> DEFINE x == c.out
           o == c.open
           gap == Len(x) - o
           y == [x EXCEPT ![o + 1] = gap]
<1>1. x \in Seq(Byte) /\ o \in Nat /\ Described(x) /\ Waits(x, o)
  BY DEF FffeCoding
<1>2. o # 0 /\ Len(x) - o <= MaxPair  OBVIOUS
<1>3. ASSUME ~ (o = 0 \/ (Len(x) + 1) - o - 1 > MaxPair)
      PROVE  FffeCodeByte(c, 255)
               = [out |-> [x EXCEPT ![o + 1] = (Len(x) + 1) - o - 1], open |-> 0]
  BY <1>3 DEF FffeCodeByte
<1>4. Len(x) \in Nat  BY <1>1
<1>5. MaxPair \in Nat /\ MaxPair <= 252  BY FrameCodecAssumption
<1> HIDE DEF x, o
<1>6. gap \in Nat /\ 1 <= gap /\ gap <= 252 /\ gap <= MaxPair
  <2>1. o + 1 <= Len(x)  BY <1>1 DEF Waits
  <2> QED  BY <1>1, <1>2, <1>4, <1>5, <2>1
<1>7. FffeCodeByte(c, 255) = [out |-> y, open |-> 0]
  <2>1. (Len(x) + 1) - o - 1 = gap  BY <1>1, <1>4
  <2>2. ~ (gap > MaxPair)  BY <1>5, <1>6
  <2> QED  BY <1>2, <1>3, <2>1, <2>2
<1>8. o + 1 \in 1 .. Len(x) /\ o \in 3 .. Len(x)  BY <1>1, <1>4 DEF Waits
<1>9. /\ y \in Seq(Byte) /\ Len(y) = Len(x) /\ y[o + 1] = gap
      /\ \A p \in 1 .. Len(x) : p # o + 1 => y[p] = x[p]
  <2> HIDE DEF gap
  <2>1. gap \in Byte  BY <1>6 DEF Byte
  <2> QED  BY <1>1, <1>8, <2>1
<1> HIDE DEF y, gap
<1>10. Described(y)
  <2>1. Len(y) >= 2 /\ y[1] = 255 /\ y[2] = 254
    <3>1. Len(x) >= 2 /\ x[1] = 255 /\ x[2] = 254  BY <1>1 DEF Described
    <3>2. 1 \in 1 .. Len(x) /\ 2 \in 1 .. Len(x) /\ 1 # o + 1 /\ 2 # o + 1  BY <1>4, <1>8, <3>1
    <3> QED  BY <1>9, <3>1, <3>2
  <2>2. ASSUME NEW p \in 3 .. Len(y), y[p] = 255
        PROVE  p + 1 <= Len(y) /\ y[p + 1] <= MaxPair
    <3>1. p # o + 1  BY <1>6, <1>9, <2>2
    <3>2. p \in 3 .. Len(x) /\ p \in 1 .. Len(x)  BY <1>4, <1>9
    <3>3. x[p] = 255  BY <1>9, <2>2, <3>1, <3>2
    <3>4. p + 1 <= Len(x) /\ x[p + 1] <= MaxPair  BY <1>1, <3>2, <3>3 DEF Described
    <3>5. CASE p = o  BY <1>6, <1>9, <3>4, <3>5
    <3>6. CASE p # o
      <4>1. p + 1 \in 1 .. Len(x) /\ p + 1 # o + 1  BY <1>1, <1>4, <3>2, <3>4, <3>6
      <4>2. y[p + 1] = x[p + 1]  BY <1>9, <4>1
      <4> QED  BY <1>9, <3>4, <4>2
    <3> QED  BY <3>5, <3>6
  <2> QED  BY <2>1, <2>2 DEF Described
<1>11. [out |-> y, open |-> 0] \in FffeCoding
  BY <1>9, <1>10 DEF FffeCoding
<1> QED  BY <1>7, <1>11 DEF y, x, o, gap

LEMMA FffeCodeByteType ==
    ASSUME NEW c \in FffeCoding, NEW b \in Byte
    PROVE  FffeCodeByte(c, b) \in FffeCoding
<1>1. CASE b # 255  BY <1>1, FffeAppend
<1>2. CASE b = 255 /\ (c.open = 0 \/ Len(c.out) - c.open > MaxPair)  BY <1>2, FffeOpens
<1>3. CASE b = 255 /\ ~ (c.open = 0 \/ Len(c.out) - c.open > MaxPair)
  <2>1. Len(c.out) \in Nat /\ c.open \in Nat /\ MaxPair \in Nat  BY FrameCodecAssumption DEF FffeCoding
  <2>2. c.open # 0 /\ Len(c.out) - c.open <= MaxPair  BY <1>3, <2>1
  <2> QED  BY <1>3, <2>2, FffePairs
<1> QED  BY <1>1, <1>2, <1>3

LEMMA FffePairLoop ==
    ASSUME NEW in \in Seq(Byte)
    PROVE  \E c \in [0 .. Len(in) -> FffeCoding] :
             /\ c[0] = [out |-> <<255, 254>>, open |-> 0]
             /\ \A i \in 1 .. Len(in) : c[i] = FffeCodeByte(c[i - 1], in[i])
             /\ FffePairUp(in) = c[Len(in)].out
<1> DEFINE n == Len(in)
           S == FffeCoding
           E(x, i) == FffeCodeByte(x, in[i])
           base == [out |-> <<255, 254>>, open |-> 0]
           Eqn(c) == c = [i \in 0 .. n |-> IF i = 0 THEN base ELSE E(c[i - 1], i)]
           step == [i \in 1 .. n |-> [x \in S |-> E(x, i)]]
           g == CHOOSE c : Eqn(c)
<1>1. n \in Nat /\ base \in S
  <2>1. <<255, 254>> \in Seq(Byte)
    <3>1. 255 \in Byte /\ 254 \in Byte  BY DEF Byte
    <3> QED  BY <3>1
  <2>2. Described(<<255, 254>>)  BY DEF Described
  <2> QED  BY <2>1, <2>2 DEF FffeCoding
<1>2. \A x \in S, i \in 1 .. n : E(x, i) \in S
  <2>1. \A i \in 1 .. n : in[i] \in Byte  OBVIOUS
  <2> QED  BY <2>1, FffeCodeByteType
<1>3. FffePairUp(in) = g[n].out
  BY DEF FffePairUp
<1> SUFFICES \E f \in [0 .. n -> S] :
               /\ f[0] = base /\ (\A i \in 1 .. n : f[i] = E(f[i - 1], i))
               /\ FffePairUp(in) = f[n].out
  OBVIOUS
<1> HIDE DEF n, E, S, base
<1>4. PICK f : IsLoop(f, n, S, base, step)
  <2>1. step \in Passes(n, S)  BY <1>2 DEF Passes
  <2> HIDE DEF step
  <2> QED  BY <1>1, <2>1, Recursion
<1>5. \A i \in 1 .. n : f[i] = E(f[i - 1], i)
  BY <1>1, <1>4 DEF IsLoop
<1>6. Eqn(g)
  <2>1. Eqn(f)  BY <1>4, <1>5 DEF IsLoop
  <2> QED  BY <2>1
<1> HIDE DEF g, step
<1>7. g[0] = f[0] /\ \A i \in 1 .. n : g[i - 1] = f[i - 1] => g[i] = f[i]
  BY <1>1, <1>4, <1>5, <1>6 DEF IsLoop
<1>8. \A i \in 0 .. n : g[i] = f[i]  BY <1>1, <1>7, SameLoop, ZenonT(60)
<1> QED  BY <1>1, <1>3, <1>4, <1>5, <1>8, SMTT(30) DEF IsLoop

(***************************************************************************)
(* What is coded keeps: but for the byte that describes an 0xff without a  *)
(* partner, later passes change nothing that is in out.                    *)
(***************************************************************************)
Keeps(a, b) ==
    /\ Len(a.out) <= Len(b.out)
    /\ \A p \in 1 .. Len(a.out) : a.open = 0 \/ p # a.open + 1 => b.out[p] = a.out[p]
    /\ b.open = 0 \/ b.open = a.open \/ b.open > Len(a.out)

LEMMA FffeKeeps ==
    ASSUME NEW a \in FffeCoding, NEW c \in FffeCoding, NEW b \in Byte, Keeps(a, c)
    PROVE  Keeps(a, FffeCodeByte(c, b))
<1> DEFINE x == c.out
           o == c.open
           m == Len(a.out)
           d == FffeCodeByte(c, b)
<1>1. x \in Seq(Byte) /\ o \in Nat /\ Len(x) \in Nat /\ m \in Nat /\ a.open \in Nat /\ MaxPair \in Nat
  BY FrameCodecAssumption DEF FffeCoding
<1>2. /\ m <= Len(x) /\ (o = 0 \/ o = a.open \/ o > m)
      /\ \A p \in 1 .. m : a.open = 0 \/ p # a.open + 1 => x[p] = a.out[p]
  BY DEF Keeps
<1>3. CASE b # 255
  <2>1. d = [out |-> Append(x, b), open |-> o]  BY <1>3, FffeAppend
  <2> HIDE DEF x, o, m, d
  <2>2. d.out = Append(x, b) /\ d.open = o  BY <2>1
  <2>3. Len(d.out) = Len(x) + 1 /\ \A p \in 1 .. Len(x) : d.out[p] = x[p]  BY <1>1, <2>2
  <2> QED  BY <1>1, <1>2, <2>2, <2>3 DEF Keeps, m, d
<1>4. CASE b = 255 /\ (o = 0 \/ Len(x) - o > MaxPair)
  <2>1. d = [out |-> x \o <<255, 0>>, open |-> Len(x) + 1]  BY <1>4, FffeOpens
  <2> HIDE DEF x, o, m, d
  <2>2. d.out = x \o <<255, 0>> /\ d.open = Len(x) + 1  BY <2>1
  <2>3. Len(d.out) = Len(x) + 2 /\ \A p \in 1 .. Len(x) : d.out[p] = x[p]
    <3>1. 255 \in Byte /\ 0 \in Byte  BY DEF Byte
    <3> QED  BY <1>1, <2>2, <3>1
  <2> QED  BY <1>1, <1>2, <2>2, <2>3 DEF Keeps, m, d
<1>5. CASE b = 255 /\ ~ (o = 0 \/ Len(x) - o > MaxPair)
  <2>1. o # 0 /\ Len(x) - o <= MaxPair  BY <1>1, <1>5
  <2>2. d = [out |-> [x EXCEPT ![o + 1] = Len(x) - o], open |-> 0]  BY <1>5, <2>1, FffePairs
  <2> HIDE DEF x, o, m, d
  <2>3. d.out = [x EXCEPT ![o + 1] = Len(x) - o] /\ d.open = 0  BY <2>2
  <2>4. Len(d.out) = Len(x) /\ \A p \in 1 .. Len(x) : p # o + 1 => d.out[p] = x[p]
    <3> DEFINE gap == Len(x) - o
    <3>2. d.out = [x EXCEPT ![o + 1] = gap]  BY <2>3
    <3> HIDE DEF gap
    <3> QED  BY <1>1, <3>2
  <2>5. ASSUME NEW p \in 1 .. m, a.open = 0 \/ p # a.open + 1
        PROVE  d.out[p] = a.out[p]
    <3>1. p # o + 1  BY <1>1, <1>2, <2>1, <2>5
    <3> QED  BY <1>1, <1>2, <2>4, <2>5, <3>1
  <2> QED  BY <1>1, <1>2, <2>3, <2>4, <2>5 DEF Keeps, m, d
<1> QED  BY <1>3, <1>4, <1>5

LEMMA FffeAllKeep ==
    ASSUME NEW n \in Nat, NEW in, NEW c \in [0 .. n -> FffeCoding],
           \A i \in 1 .. n : in[i] \in Byte /\ c[i] = FffeCodeByte(c[i - 1], in[i]),
           NEW i \in 0 .. n
    PROVE  Keeps(c[i], c[n])
<1> DEFINE T == {j \in 0 .. n : i <= j => Keeps(c[i], c[j])}
<1>1. Keeps(c[i], c[i])
  <2>1. Len(c[i].out) \in Nat  BY DEF FffeCoding
  <2> QED  BY <2>1 DEF Keeps
<1>2. 0 \in T
  BY <1>1
<1>3. ASSUME NEW j \in 1 .. n, j - 1 \in T  PROVE j \in T
  <2> SUFFICES ASSUME i <= j  PROVE Keeps(c[i], c[j])
    OBVIOUS
  <2>1. CASE i = j  BY <1>1, <2>1
  <2>2. CASE i <= j - 1
    <3>1. Keeps(c[i], c[j - 1])  BY <1>3, <2>2
    <3>2. c[i] \in FffeCoding /\ c[j - 1] \in FffeCoding /\ in[j] \in Byte  OBVIOUS
    <3> QED  BY <3>1, <3>2, FffeKeeps
  <2> QED  BY <2>1, <2>2
<1> HIDE DEF T
<1>4. 0 .. n \subseteq T  BY <1>2, <1>3, Climb
<1> QED  BY <1>4 DEF T
---------------------------------------------------------------------------
(***************************************************************************)
(* fffeFrame: the decoding loop.                                           *)
(***************************************************************************)
FffeUncoding == [out : Seq(Byte), due : Int]

LEMMA FffeUncodeByteType ==
    ASSUME NEW c \in FffeUncoding, NEW b \in Byte, NEW left \in Int
    PROVE  FffeUncodeByte(c, b, left) \in FffeUncoding
<1> DEFINE gap == IF b > MaxPair \/ b > left THEN 1 ELSE b
           due == IF c.due = -1 THEN gap - 1 ELSE c.due - 1
           got == IF c.due = -1 THEN c.out ELSE Append(c.out, b)
<1>1. c.out \in Seq(Byte) /\ c.due \in Int /\ c = [out |-> c.out, due |-> c.due]  BY DEF FffeUncoding
<1>2. CASE c.due = 0
  <2>1. FffeUncodeByte(c, b, left)
          = [out |-> Append(c.out, b), due |-> IF b = 255 /\ left >= 2 THEN -1 ELSE 0]
    BY <1>2 DEF FffeUncodeByte
  <2> QED  BY <1>1, <2>1 DEF FffeUncoding
<1>3. CASE c.due # 0
  <2>1. gap \in Int /\ due \in Int
    <3>1. b \in Int  BY DEF Byte
    <3>2. gap \in Int  BY <3>1
    <3> HIDE DEF gap
    <3> QED  BY <1>1, <3>2
  <2>2. got \in Seq(Byte) /\ Append(got, 255) \in Seq(Byte)
    <3>1. 255 \in Byte  BY DEF Byte
    <3>2. got \in Seq(Byte)  BY <1>1
    <3> HIDE DEF got
    <3> QED  BY <3>1, <3>2
  <2>3. FffeUncodeByte(c, b, left)
          = IF c.due = -1 /\ b = 0 THEN [c EXCEPT !.due = 0]
            ELSE [out |-> IF due = 0 THEN Append(got, 255) ELSE got, due |-> due]
    BY <1>3 DEF FffeUncodeByte
  <2> HIDE DEF gap, due, got
  <2>4. [c EXCEPT !.due = 0] \in FffeUncoding  BY <1>1 DEF FffeUncoding
  <2>5. [out |-> IF due = 0 THEN Append(got, 255) ELSE got, due |-> due] \in FffeUncoding
    BY <2>1, <2>2 DEF FffeUncoding
  <2> QED  BY <2>3, <2>4, <2>5
<1> QED  BY <1>2, <1>3

\* d[p - 2] is what the loop has made of the bytes up to the p-th.
Decodes(d, s) ==
    /\ d[0] = [out |-> SubSeq(s, 1, 2), due |-> 0]
    /\ \A p \in 3 .. Len(s) : d[p - 2] = FffeUncodeByte(d[p - 3], s[p], Len(s) - p)

LEMMA FffeUncodeLoop ==
    ASSUME NEW s \in Seq(Byte), Len(s) >= 2
    PROVE  \E d : Decodes(d, s) /\ FffeUncode(s) = d[Len(s) - 2].out
<1> DEFINE n == Len(s) - 2
           S == FffeUncoding
           E(x, i) == FffeUncodeByte(x, s[i + 2], n - i)
           base == [out |-> SubSeq(s, 1, 2), due |-> 0]
           Eqn(c) == c = [i \in 0 .. n |-> IF i = 0 THEN base ELSE E(c[i - 1], i)]
           step == [i \in 1 .. n |-> [x \in S |-> E(x, i)]]
           g == CHOOSE c : Eqn(c)
<1>1. n \in Nat /\ base \in S
  <2>1. SubSeq(s, 1, 2) \in Seq(Byte)  OBVIOUS
  <2> QED  BY <2>1 DEF FffeUncoding
<1>2. \A x \in S, i \in 1 .. n : E(x, i) \in S
  <2> TAKE x \in S, i \in 1 .. n
  <2>1. s[i + 2] \in Byte /\ n - i \in Int
    <3>1. i + 2 \in 1 .. Len(s)  OBVIOUS
    <3> QED  BY <3>1
  <2> QED  BY <2>1, FffeUncodeByteType
<1>3. FffeUncode(s) = g[n].out
  BY DEF FffeUncode
<1>4. ASSUME NEW f, f[0] = base, \A i \in 1 .. n : f[i] = E(f[i - 1], i)
      PROVE  Decodes(f, s)
  <2>1. ASSUME NEW p \in 3 .. Len(s)
        PROVE  f[p - 2] = FffeUncodeByte(f[p - 3], s[p], Len(s) - p)
    <3> DEFINE i == p - 2
    <3>1. i \in 1 .. n /\ i + 2 = p /\ i - 1 = p - 3 /\ n - i = Len(s) - p  BY <1>1
    <3>2. f[i] = FffeUncodeByte(f[i - 1], s[i + 2], n - i)  BY <1>4, <3>1
    <3> HIDE DEF i, n
    <3>3. f[i] = FffeUncodeByte(f[p - 3], s[p], Len(s) - p)  BY <3>1, <3>2
    <3> QED  BY <3>3 DEF i
  <2> QED  BY <1>4, <2>1 DEF Decodes
<1> HIDE DEF n, E, S, base
<1>5. PICK f : IsLoop(f, n, S, base, step)
  <2>1. step \in Passes(n, S)  BY <1>2 DEF Passes
  <2> HIDE DEF step
  <2> QED  BY <1>1, <2>1, Recursion
<1>6. \A i \in 1 .. n : f[i] = E(f[i - 1], i)
  <2> TAKE i \in 1 .. n
  <2>1. f[i - 1] \in S /\ f[i] = step[i][f[i - 1]]  BY <1>1, <1>5 DEF IsLoop
  <2>2. step[i][f[i - 1]] = E(f[i - 1], i)  BY <2>1
  <2> QED  BY <2>1, <2>2
<1>7. Eqn(g)
  <2>1. Eqn(f)  BY <1>5, <1>6 DEF IsLoop
  <2> QED  BY <2>1
<1> HIDE DEF g, step
<1>8. g[0] = f[0] /\ \A i \in 1 .. n : g[i - 1] = f[i - 1] => g[i] = f[i]
  BY <1>1, <1>5, <1>6, <1>7 DEF IsLoop
<1>9. \A i \in 0 .. n : g[i] = f[i]  BY <1>1, <1>8, SameLoop, ZenonT(60)
<1>10. f[0] = base  BY <1>5 DEF IsLoop
<1>11. FffeUncode(s) = f[n].out  BY <1>1, <1>3, <1>9
<1> QED  BY <1>4, <1>6, <1>10, <1>11 DEF n

\* The steps of the loop.
LEMMA StepPlain ==
    ASSUME NEW x \in Seq(Byte), NEW b \in Byte, NEW left \in Int, b # 255 \/ left < 2
    PROVE  FffeUncodeByte([out |-> x, due |-> 0], b, left) = [out |-> Append(x, b), due |-> 0]
<1>1. ~ (b = 255 /\ left >= 2)  OBVIOUS
<1> QED  BY <1>1 DEF FffeUncodeByte

LEMMA StepOpens ==
    ASSUME NEW x \in Seq(Byte), NEW left \in Int, left >= 2
    PROVE  FffeUncodeByte([out |-> x, due |-> 0], 255, left) = [out |-> Append(x, 255), due |-> -1]
BY DEF FffeUncodeByte

LEMMA StepAlone ==
    ASSUME NEW x \in Seq(Byte), NEW left \in Int
    PROVE  FffeUncodeByte([out |-> x, due |-> -1], 0, left) = [out |-> x, due |-> 0]
BY DEF FffeUncodeByte

LEMMA StepDistance ==
    ASSUME NEW x \in Seq(Byte), NEW b \in Byte, NEW left \in Int, b # 0, b <= MaxPair, b <= left
    PROVE  FffeUncodeByte([out |-> x, due |-> -1], b, left)
             = [out |-> IF b - 1 = 0 THEN Append(x, 255) ELSE x, due |-> b - 1]
<1>1. b \in Int /\ MaxPair \in Int  BY FrameCodecAssumption DEF Byte
<1>2. ~ (b > MaxPair \/ b > left)  BY <1>1
<1> QED  BY <1>2 DEF FffeUncodeByte

LEMMA StepDue ==
    ASSUME NEW x \in Seq(Byte), NEW b \in Byte, NEW left \in Int, NEW k \in Nat, k # 0
    PROVE  FffeUncodeByte([out |-> x, due |-> k], b, left)
             = [out |-> IF k - 1 = 0 THEN Append(Append(x, b), 255) ELSE Append(x, b), due |-> k - 1]
<1>1. k # -1  OBVIOUS
<1> QED  BY <1>1 DEF FffeUncodeByte

LEMMA AppendLast ==
    ASSUME NEW x \in Seq(Byte), NEW u \in Seq(Byte), NEW e \in Byte
    PROVE  x \o Append(u, e) = Append(x \o u, e)
<1> DEFINE w == Append(u, e)
           t == x \o u
           y == x \o w
           z == Append(t, e)
           m == Len(u)
           n == Len(x)
<1>1. m \in Nat /\ n \in Nat  OBVIOUS
<1>2. w \in Seq(Byte) /\ Len(w) = m + 1 /\ w[m + 1] = e /\ \A k \in 1 .. m : w[k] = u[k]
  OBVIOUS
<1>3. t \in Seq(Byte) /\ Len(t) = n + m /\ \A k \in 1 .. n + m : t[k] = IF k <= n THEN x[k] ELSE u[k - n]
  OBVIOUS
<1> HIDE DEF w, t
<1>4. y \in Seq(Byte) /\ Len(y) = n + m + 1
      /\ \A k \in 1 .. n + m + 1 : y[k] = IF k <= n THEN x[k] ELSE w[k - n]
  BY <1>2
<1>5. z \in Seq(Byte) /\ Len(z) = n + m + 1 /\ z[n + m + 1] = e /\ \A k \in 1 .. n + m : z[k] = t[k]
  BY <1>1, <1>3
<1> HIDE DEF y, z, m, n
<1>6. ASSUME NEW k \in 1 .. n + m + 1  PROVE y[k] = z[k]
  <2>1. CASE k <= n
    <3>1. k \in 1 .. n + m  BY <1>1, <2>1
    <3>2. y[k] = x[k] /\ t[k] = x[k]  BY <1>3, <1>4, <2>1, <3>1
    <3> QED  BY <1>5, <3>1, <3>2
  <2>2. CASE k = n + m + 1
    <3>1. ~ (k <= n) /\ k - n = m + 1  BY <1>1, <2>2
    <3> QED  BY <1>2, <1>4, <1>5, <2>2, <3>1
  <2>3. CASE k > n /\ k <= n + m
    <3>1. ~ (k <= n) /\ k - n \in 1 .. m /\ k \in 1 .. n + m  BY <1>1, <2>3
    <3> QED  BY <1>2, <1>3, <1>4, <1>5, <3>1
  <2> QED  BY <1>1, <2>1, <2>2, <2>3
<1>7. y = z  BY <1>1, <1>4, <1>5, <1>6
<1> QED  BY <1>7 DEF y, z, w, t

LEMMA SubSeqMore ==
    ASSUME NEW s \in Seq(Byte), NEW a \in Nat, a >= 1,
           NEW b \in Nat, a <= b + 1, b + 1 <= Len(s)
    PROVE  SubSeq(s, a, b + 1) = Append(SubSeq(s, a, b), s[b + 1])
<1> DEFINE u == SubSeq(s, a, b)
           v == SubSeq(s, a, b + 1)
           e == s[b + 1]
           m == b - a + 1
<1>1. e \in Byte /\ m \in Nat  OBVIOUS
<1>2. u \in Seq(Byte) /\ Len(u) = m /\ \A k \in 1 .. m : u[k] = s[a + k - 1]
  OBVIOUS
<1>3. v \in Seq(Byte) /\ Len(v) = m + 1 /\ \A k \in 1 .. m + 1 : v[k] = s[a + k - 1]
  OBVIOUS
<1>4. v[m + 1] = e
  <2>1. m + 1 \in 1 .. m + 1 /\ a + (m + 1) - 1 = b + 1  OBVIOUS
  <2> QED  BY <1>3, <2>1
<1> HIDE DEF u, v, e, m
<1> DEFINE w == Append(u, e)
<1>5. w \in Seq(Byte) /\ Len(w) = m + 1 /\ w[m + 1] = e /\ \A k \in 1 .. m : w[k] = u[k]
  BY <1>1, <1>2
<1> HIDE DEF w
<1>6. ASSUME NEW k \in 1 .. m + 1  PROVE v[k] = w[k]
  <2>1. CASE k = m + 1  BY <1>4, <1>5, <2>1
  <2>2. CASE k \in 1 .. m  BY <1>1, <1>2, <1>3, <1>5, <2>2
  <2> QED  BY <1>1, <2>1, <2>2
<1>7. v = w  BY <1>1, <1>3, <1>5, <1>6
<1> QED  BY <1>7 DEF w, u, v, e

LEMMA OneMore ==
    ASSUME NEW s \in Seq(Byte), NEW x \in Seq(Byte), NEW a \in Nat, a >= 1,
           NEW b \in Nat, a <= b + 1, b + 1 <= Len(s)
    PROVE  x \o SubSeq(s, a, b + 1) = Append(x \o SubSeq(s, a, b), s[b + 1])
<1> DEFINE u == SubSeq(s, a, b)
           v == SubSeq(s, a, b + 1)
           e == s[b + 1]
<1>1. e \in Byte /\ u \in Seq(Byte)  OBVIOUS
<1>2. v = Append(u, e)  BY SubSeqMore
<1> HIDE DEF u, v, e
<1>3. x \o Append(u, e) = Append(x \o u, e)  BY <1>1, AppendLast
<1> QED  BY <1>2, <1>3 DEF u, v, e

\* An 0xff without a partner, and what comes up to the next 0xff.
Has(d, p, x, due) == d[p - 2] = [out |-> x, due |-> due]

AloneUpTo(s, d, x, o, q) ==
    /\ s \in Seq(Byte) /\ Decodes(d, s) /\ x \in Seq(Byte)
    /\ o \in Nat /\ 3 <= o /\ q \in Nat /\ o + 1 <= q /\ q <= Len(s)
    /\ d[o - 2] = [out |-> x, due |-> -1] /\ s[o + 1] = 0
    /\ \A p \in o + 2 .. q : s[p] # 255

LEMMA AloneRun ==
    ASSUME NEW s, NEW d, NEW x, NEW o, NEW q, AloneUpTo(s, d, x, o, q)
    PROVE  Has(d, q, x \o SubSeq(s, o + 2, q), 0)
<1> USE DEF AloneUpTo, Has
<1> DEFINE n == q - o - 1
           Y(p) == x \o SubSeq(s, o + 2, p)
           T == {k \in 0 .. n : d[o + k - 1] = [out |-> Y(o + 1 + k), due |-> 0]}
<1>1. n \in Nat /\ Len(s) \in Nat  OBVIOUS
<1>2. \A p \in 3 .. Len(s) : d[p - 2] = FffeUncodeByte(d[p - 3], s[p], Len(s) - p)
  BY DEF Decodes
<1>3. \A p \in o + 1 .. q : Y(p) \in Seq(Byte)
  <2>1. \A p \in o + 1 .. q : SubSeq(s, o + 2, p) \in Seq(Byte)  OBVIOUS
  <2> QED  BY <2>1
<1>4. Y(o + 1) = x
  <2>1. SubSeq(s, o + 2, o + 1) = <<>>  OBVIOUS
  <2> QED  BY <2>1
<1>5. \A p \in o + 2 .. q : Y(p) = Append(Y(p - 1), s[p])
  <2> TAKE p \in o + 2 .. q
  <2> DEFINE b == p - 1
  <2>1. b \in Nat /\ o + 2 <= b + 1 /\ b + 1 <= Len(s) /\ b + 1 = p /\ o + 2 \in Nat /\ o + 2 >= 1  OBVIOUS
  <2> HIDE DEF b
  <2>2. x \o SubSeq(s, o + 2, b + 1) = Append(x \o SubSeq(s, o + 2, b), s[b + 1])  BY <2>1, OneMore, ZenonT(60)
  <2>3. x \o SubSeq(s, o + 2, p) = Append(x \o SubSeq(s, o + 2, b), s[p])  BY <2>1, <2>2
  <2> QED  BY <2>3 DEF b
<1> HIDE DEF Y, n
<1>6. 0 \in T
  <2>1. d[(o + 1) - 2] = FffeUncodeByte(d[(o + 1) - 3], s[o + 1], Len(s) - (o + 1))
    <3>1. o + 1 \in 3 .. Len(s)  BY <1>1
    <3> QED  BY <1>2, <3>1
  <2>2. (o + 1) - 2 = o + 0 - 1 /\ (o + 1) - 3 = o - 2 /\ Len(s) - (o + 1) \in Int /\ o + 1 + 0 = o + 1
    BY <1>1
  <2>3. d[o + 0 - 1] = FffeUncodeByte([out |-> x, due |-> -1], 0, Len(s) - (o + 1))
    BY <2>1, <2>2
  <2>4. 0 \in Byte  BY DEF Byte
  <2>5. d[o + 0 - 1] = [out |-> x, due |-> 0]  BY <2>2, <2>3, StepAlone
  <2>6. Y(o + 1 + 0) = x  BY <1>4, <2>2
  <2>7. 0 \in 0 .. n  BY <1>1
  <2> QED  BY <2>5, <2>6, <2>7
<1>7. ASSUME NEW k \in 1 .. n, k - 1 \in T  PROVE k \in T
  <2> DEFINE p == o + 1 + k
             left == Len(s) - p
  <2>1. /\ p \in 3 .. Len(s) /\ p \in o + 2 .. q /\ left \in Int
        /\ p - 2 = o + k - 1 /\ p - 3 = o + (k - 1) - 1 /\ p - 1 = o + 1 + (k - 1) /\ p - 1 \in o + 1 .. q
    BY <1>1 DEF n
  <2>2. d[o + (k - 1) - 1] = [out |-> Y(o + 1 + (k - 1)), due |-> 0]  BY <1>7
  <2> HIDE DEF p, left
  <2>3. d[p - 3] = [out |-> Y(p - 1), due |-> 0]  BY <2>1, <2>2
  <2>4. d[p - 2] = FffeUncodeByte([out |-> Y(p - 1), due |-> 0], s[p], left)
    BY <1>2, <2>1, <2>3 DEF left
  <2>5. s[p] \in Byte /\ s[p] # 255  BY <2>1, SMTT(30)
  <2>6. d[p - 2] = [out |-> Append(Y(p - 1), s[p]), due |-> 0]
    <3>1. Y(p - 1) \in Seq(Byte)  BY <1>3, <2>1
    <3> DEFINE y == Y(p - 1)
               b == s[p]
    <3>2. y \in Seq(Byte) /\ b \in Byte /\ b # 255 /\ left \in Int  BY <2>1, <2>5, <3>1
    <3> HIDE DEF y, b
    <3>3. FffeUncodeByte([out |-> y, due |-> 0], b, left) = [out |-> Append(y, b), due |-> 0]
      BY <3>2, StepPlain
    <3> QED  BY <2>4, <3>3 DEF y, b
  <2>7. d[p - 2] = [out |-> Y(p), due |-> 0]  BY <1>5, <2>1, <2>6
  <2>8. d[o + k - 1] = [out |-> Y(o + 1 + k), due |-> 0]  BY <2>1, <2>7 DEF p
  <2>9. k \in 0 .. n  BY <1>1
  <2> QED  BY <2>8, <2>9
<1> HIDE DEF T
<1>8. 0 .. n \subseteq T  BY <1>1, <1>6, <1>7, Climb
<1>9. d[o + n - 1] = [out |-> Y(o + 1 + n), due |-> 0]
  <2>1. n \in T  BY <1>1, <1>8
  <2> QED  BY <2>1 DEF T
<1>10. o + n - 1 = q - 2 /\ o + 1 + n = q  BY DEF n
<1> QED  BY <1>9, <1>10 DEF Y

\* An 0xff with a partner g bytes on, and what lies between them.
PairAt(s, d, x, o, g) ==
    /\ s \in Seq(Byte) /\ Decodes(d, s) /\ x \in Seq(Byte)
    /\ o \in Nat /\ 3 <= o /\ g \in Nat /\ 1 <= g /\ g <= MaxPair /\ o + 1 + g <= Len(s)
    /\ d[o - 2] = [out |-> x, due |-> -1] /\ s[o + 1] = g

LEMMA PairRun ==
    ASSUME NEW s, NEW d, NEW x, NEW o, NEW g, PairAt(s, d, x, o, g)
    PROVE  Has(d, o + g, Append(x \o SubSeq(s, o + 2, o + g), 255), 0)
<1> USE DEF PairAt, Has
<1> DEFINE n == g - 1
           Y(p) == x \o SubSeq(s, o + 2, p)
           Z(k) == IF k = n THEN Append(Y(o + 1 + k), 255) ELSE Y(o + 1 + k)
           T == {k \in 0 .. n : d[o + k - 1] = [out |-> Z(k), due |-> n - k]}
<1>1. n \in Nat /\ Len(s) \in Nat  OBVIOUS
<1>2. \A p \in 3 .. Len(s) : d[p - 2] = FffeUncodeByte(d[p - 3], s[p], Len(s) - p)
  BY DEF Decodes
<1>3. \A p \in o + 1 .. o + g : Y(p) \in Seq(Byte)
  <2>1. \A p \in o + 1 .. o + g : SubSeq(s, o + 2, p) \in Seq(Byte)  OBVIOUS
  <2> QED  BY <2>1
<1>4. Y(o + 1) = x
  <2>1. SubSeq(s, o + 2, o + 1) = <<>>  OBVIOUS
  <2> QED  BY <2>1
<1>5. \A p \in o + 2 .. o + g : Y(p) = Append(Y(p - 1), s[p])
  <2> TAKE p \in o + 2 .. o + g
  <2> DEFINE b == p - 1
  <2>1. b \in Nat /\ o + 2 <= b + 1 /\ b + 1 <= Len(s) /\ b + 1 = p /\ o + 2 \in Nat /\ o + 2 >= 1  OBVIOUS
  <2> HIDE DEF b
  <2>2. x \o SubSeq(s, o + 2, b + 1) = Append(x \o SubSeq(s, o + 2, b), s[b + 1])  BY <2>1, OneMore, ZenonT(60)
  <2>3. x \o SubSeq(s, o + 2, p) = Append(x \o SubSeq(s, o + 2, b), s[p])  BY <2>1, <2>2
  <2> QED  BY <2>3 DEF b
<1> HIDE DEF Y
<1>6. 0 \in T
  <2> DEFINE left == Len(s) - (o + 1)
  <2>1. d[(o + 1) - 2] = FffeUncodeByte(d[(o + 1) - 3], s[o + 1], left)
    <3>1. o + 1 \in 3 .. Len(s)  BY <1>1
    <3> QED  BY <1>2, <3>1
  <2>2. (o + 1) - 2 = o + 0 - 1 /\ (o + 1) - 3 = o - 2 /\ o + 1 + 0 = o + 1
    OBVIOUS
  <2>3. left \in Int /\ g <= left /\ g # 0  BY <1>1
  <2>4. g \in Byte
    <3>1. MaxPair \in Nat /\ MaxPair <= 252  BY FrameCodecAssumption
    <3> QED  BY <3>1 DEF Byte
  <2> HIDE DEF left
  <2>5. d[o + 0 - 1] = FffeUncodeByte([out |-> x, due |-> -1], g, left)
    BY <2>1, <2>2
  <2>6. FffeUncodeByte([out |-> x, due |-> -1], g, left)
          = [out |-> IF g - 1 = 0 THEN Append(x, 255) ELSE x, due |-> g - 1]
    BY <2>3, <2>4, StepDistance, SMTT(30)
  <2>7. Z(0) = IF n = 0 THEN Append(x, 255) ELSE x  BY <1>4, <2>2
  <2>8. 0 \in 0 .. n /\ n - 0 = g - 1  BY <1>1
  <2>9. Z(0) = IF g - 1 = 0 THEN Append(x, 255) ELSE x  BY <2>7
  <2> HIDE DEF Z, n
  <2> QED  BY <2>5, <2>6, <2>8, <2>9
<1>7. ASSUME NEW k \in 1 .. n, k - 1 \in T  PROVE k \in T
  <2> DEFINE p == o + 1 + k
             left == Len(s) - p
             y == Y(p - 1)
             b == s[p]
             j == n - (k - 1)
  <2>1. /\ p \in 3 .. Len(s) /\ p \in o + 2 .. o + g /\ left \in Int
        /\ p - 2 = o + k - 1 /\ p - 3 = o + (k - 1) - 1 /\ p - 1 = o + 1 + (k - 1) /\ p - 1 \in o + 1 .. o + g
    BY <1>1
  <2>2. d[o + (k - 1) - 1] = [out |-> Z(k - 1), due |-> j]  BY <1>7
  <2>3. Z(k - 1) = y
    <3>1. k - 1 # n  BY <1>1
    <3> QED  BY <2>1, <3>1
  <2>4. j \in Nat /\ j # 0 /\ j - 1 = n - k  BY <1>1
  <2> HIDE DEF p, left, Z, j
  <2>5. d[p - 2] = FffeUncodeByte([out |-> y, due |-> j], b, left)
    <3>1. d[p - 3] = [out |-> y, due |-> j]  BY <2>1, <2>2, <2>3
    <3> HIDE DEF y
    <3> QED  BY <1>2, <2>1, <3>1 DEF left
  <2>6. y \in Seq(Byte) /\ b \in Byte
    <3>1. y \in Seq(Byte)  BY <1>3, <2>1
    <3> HIDE DEF y
    <3> QED  BY <2>1, <3>1
  <2>7. Y(p) = Append(y, b)  BY <1>5, <2>1
  <2> HIDE DEF y, b
  <2>8. FffeUncodeByte([out |-> y, due |-> j], b, left)
          = [out |-> IF j - 1 = 0 THEN Append(Append(y, b), 255) ELSE Append(y, b), due |-> j - 1]
    BY <2>1, <2>4, <2>6, StepDue
  <2>9. Z(k) = IF j - 1 = 0 THEN Append(Append(y, b), 255) ELSE Append(y, b)
    <3>1. Z(k) = IF k = n THEN Append(Y(p), 255) ELSE Y(p)  BY DEF Z, p
    <3>2. k = n <=> j - 1 = 0
      <4> HIDE DEF n
      <4> QED  BY <1>1, <2>4
    <3> QED  BY <2>7, <3>1, <3>2
  <2>10. d[o + k - 1] = [out |-> Z(k), due |-> n - k]
    <3>1. d[o + k - 1] = FffeUncodeByte([out |-> y, due |-> j], b, left)  BY <2>1, <2>5
    <3>2. [out |-> Z(k), due |-> n - k]
            = [out |-> IF j - 1 = 0 THEN Append(Append(y, b), 255) ELSE Append(y, b), due |-> j - 1]
      BY <2>4, <2>9
    <3> QED  BY <2>8, <3>1, <3>2
  <2>11. k \in 0 .. n  BY <1>1
  <2> QED  BY <2>10, <2>11
<1> HIDE DEF T
<1>8. 0 .. n \subseteq T  BY <1>1, <1>6, <1>7, Climb
<1>9. d[o + n - 1] = [out |-> Z(n), due |-> n - n]
  <2>1. n \in T  BY <1>1, <1>8
  <2> QED  BY <2>1 DEF T
<1>10. o + n - 1 = o + g - 2 /\ n - n = 0 /\ o + 1 + n = o + g  OBVIOUS
<1>11. Z(n) = Append(Y(o + g), 255)  BY <1>10
<1> HIDE DEF Z, n
<1>12. d[o + g - 2] = [out |-> Append(Y(o + g), 255), due |-> 0]  BY <1>9, <1>10, <1>11
<1> QED  BY <1>12 DEF Y

(***************************************************************************)
(* The pairs are taken apart again: decoding what was coded gives what     *)
(* stood between the markers, and the markers.                             *)
(***************************************************************************)
LEMMA FffeUnpairs ==
    ASSUME NEW in \in Seq(Byte)
    PROVE  /\ FffePairUp(in) \in Seq(Byte) /\ Described(FffePairUp(in))
           /\ FffeUncode(FffePairUp(in) \o <<255, 253>>) = <<255, 254>> \o in \o <<255, 253>>
<1> DEFINE n == Len(in)
           base == <<255, 254>>
           X(i) == base \o SubSeq(in, 1, i)
<1>1. PICK c \in [0 .. n -> FffeCoding] :
        /\ c[0] = [out |-> base, open |-> 0]
        /\ \A i \in 1 .. n : c[i] = FffeCodeByte(c[i - 1], in[i])
        /\ FffePairUp(in) = c[n].out
  BY FffePairLoop
<1> DEFINE F == c[n].out
           s == F \o <<255, 253>>
           L(i) == Len(c[i].out)
<1>2. n \in Nat /\ \A i \in 1 .. n : in[i] \in Byte
  OBVIOUS
<1>3. base \in Seq(Byte) /\ 255 \in Byte /\ 253 \in Byte /\ 0 \in Byte
  <2>1. 255 \in Byte /\ 254 \in Byte /\ 253 \in Byte /\ 0 \in Byte  BY DEF Byte
  <2> QED  BY <2>1
<1>4. \A i \in 0 .. n : /\ c[i] \in FffeCoding /\ c[i].out \in Seq(Byte) /\ c[i].open \in Nat /\ L(i) \in Nat
                        /\ L(i) >= 2 /\ (c[i].open # 0 => Waits(c[i].out, c[i].open))
  BY DEF FffeCoding, Described
<1>5. F \in Seq(Byte) /\ Described(F)
  BY <1>2 DEF FffeCoding
<1> HIDE DEF n
<1>6. ASSUME NEW i \in 0 .. n  PROVE Keeps(c[i], c[n])
  <2>1. \A k \in 1 .. n : in[k] \in Byte /\ c[k] = FffeCodeByte(c[k - 1], in[k])
    BY <1>1, <1>2
  <2> QED
    BY ONLY c \in [0 .. n -> FffeCoding], i \in 0 .. n, <1>2, <2>1, FffeAllKeep
<1>7. /\ s \in Seq(Byte) /\ Len(s) = L(n) + 2 /\ s[L(n) + 1] = 255 /\ s[L(n) + 2] = 253
      /\ \A p \in 1 .. L(n) : s[p] = F[p]
  <2> HIDE DEF F
  <2> QED  BY <1>3, <1>5, SMTT(30) DEF F
<1>8. L(n) \in Nat /\ L(n) >= 2  BY <1>2, <1>4
<1> HIDE DEF s
<1>9. PICK d : Decodes(d, s) /\ FffeUncode(s) = d[Len(s) - 2].out
  <2>1. Len(s) >= 2
    <3> HIDE DEF L
    <3> QED  BY <1>7, <1>8
  <2> QED  BY <1>7, <2>1, FffeUncodeLoop
<1> HIDE DEF F, L, X
\* What is in s, seen from the passes.
<1>10. ASSUME NEW i \in 0 .. n
       PROVE  /\ L(i) <= L(n)
              /\ \A p \in 1 .. L(i) : c[i].open = 0 \/ p # c[i].open + 1 => s[p] = c[i].out[p]
  <2>1. /\ L(i) <= L(n)
        /\ \A p \in 1 .. L(i) : c[i].open = 0 \/ p # c[i].open + 1 => F[p] = c[i].out[p]
    BY <1>6 DEF Keeps, L, F
  <2>2. L(i) \in Nat  BY <1>4
  <2> QED  BY <1>7, <1>8, <2>1, <2>2
<1>11. \A i \in 0 .. n : X(i) \in Seq(Byte)
  <2>1. \A i \in 0 .. n : SubSeq(in, 1, i) \in Seq(Byte)  BY DEF n
  <2> QED  BY <1>3, <2>1 DEF X
<1>12. \A i \in 1 .. n : X(i) = Append(X(i - 1), in[i])
  <2> TAKE i \in 1 .. n
  <2> DEFINE b == i - 1
  <2>1. b \in Nat /\ 1 <= b + 1 /\ b + 1 <= Len(in) /\ b + 1 = i /\ 1 \in Nat /\ 1 >= 1  BY <1>2 DEF n
  <2> HIDE DEF b
  <2> HIDE DEF base
  <2>2. base \o SubSeq(in, 1, b + 1) = Append(base \o SubSeq(in, 1, b), in[b + 1])
    BY <1>3, <2>1, OneMore, SMTT(30)
  <2>3. base \o SubSeq(in, 1, i) = Append(base \o SubSeq(in, 1, b), in[i])  BY <2>1, <2>2
  <2> QED  BY <2>3 DEF b, X
<1>13. \A m, i \in 0 .. n : m <= i => X(m) \o SubSeq(in, m + 1, i) = X(i)
  <2> TAKE m, i \in 0 .. n
  <2> HAVE m <= i
  <2> DEFINE u == SubSeq(in, 1, m)
             v == SubSeq(in, m + 1, i)
  <2>1. u \in Seq(Byte) /\ v \in Seq(Byte)  BY DEF n
  <2>2. u \o v = SubSeq(in, 1, i)
    <3>1. 1 \in 1 .. Len(in) + 1 /\ m \in 1 - 1 .. Len(in) /\ i \in m .. Len(in)  BY <1>2 DEF n
    <3> QED  BY <3>1, ConcatAdjacentSubSeq
  <2> HIDE DEF u, v
  <2>3. (base \o u) \o v = base \o (u \o v)  BY <1>3, <2>1, ConcatAssociative, SMTT(30)
  <2>4. (base \o u) \o v = base \o SubSeq(in, 1, i)  BY <2>2, <2>3
  <2> QED  BY <2>4 DEF X, u, v
<1> HIDE DEF base
<1>14. /\ d[0] = [out |-> base, due |-> 0]
       /\ \A p \in 3 .. Len(s) : d[p - 2] = FffeUncodeByte(d[p - 3], s[p], Len(s) - p)
  <2>1. SubSeq(s, 1, 2) = base
    <3>1. s[1] = 255 /\ s[2] = 254
      <4>1. F[1] = 255 /\ F[2] = 254  BY <1>5 DEF Described
      <4> QED  BY <1>7, <1>8, <4>1
    <3>2. SubSeq(s, 1, 2) = <<s[1], s[2]>>
      <4> DEFINE u == SubSeq(s, 1, 2)
      <4>1. Len(s) >= 2 /\ s \in Seq(Byte)  BY <1>7, <1>8
      <4>2. u \in Seq(Byte) /\ Len(u) = 2 /\ u[1] = s[1] /\ u[2] = s[2]  BY <4>1
      <4> HIDE DEF u
      <4>3. u = <<u[1], u[2]>>  BY <4>2
      <4> QED  BY <4>2, <4>3 DEF u
    <3> QED  BY <3>1, <3>2 DEF base
  <2> QED  BY <1>9, <2>1 DEF Decodes
<1> DEFINE Plain(i) == d[L(i) - 2] = [out |-> X(i), due |-> 0]
           Open(i) == \E m \in 1 .. i :
                        /\ d[c[i].open - 2] = [out |-> X(m), due |-> -1]
                        /\ SubSeq(s, c[i].open + 2, L(i)) = SubSeq(in, m + 1, i)
           T == {i \in 0 .. n : IF c[i].open = 0 THEN Plain(i) ELSE Open(i)}
\* An 0xff that has remained alone.
<1>15. ASSUME NEW i \in 0 .. n, c[i].open # 0, Open(i), s[c[i].open + 1] = 0
       PROVE  Plain(i)
  <2> DEFINE o == c[i].open
  <2>1. PICK m \in 1 .. i : /\ d[o - 2] = [out |-> X(m), due |-> -1]
                            /\ SubSeq(s, o + 2, L(i)) = SubSeq(in, m + 1, i)
    BY <1>15
  <2>2. /\ 3 <= o /\ o + 1 <= L(i) /\ o \in Nat /\ L(i) \in Nat
        /\ \A p \in o + 2 .. L(i) : c[i].out[p] # 255
    BY <1>4, <1>15 DEF Waits, L
  <2>3. L(i) <= Len(s)  BY <1>7, <1>8, <1>10, <2>2
  <2>4. s[o + 1] = 0  BY <1>15
  <2>5. X(m) \in Seq(Byte) /\ X(m) \o SubSeq(in, m + 1, i) = X(i)
    <3>1. m \in 0 .. n /\ m <= i  BY <1>2
    <3> QED  BY <1>11, <1>13, <3>1
  <2>6. \A p \in o + 2 .. L(i) : s[p] # 255
    <3> HIDE DEF o
    <3> TAKE p \in o + 2 .. L(i)
    <3>1. p \in 1 .. L(i) /\ p # o + 1  BY <2>2
    <3>2. s[p] = c[i].out[p]  BY <1>10, <3>1 DEF o
    <3> QED  BY <2>2, <3>2
  <2> DEFINE q == L(i)
             x == X(m)
  <2>7. AloneUpTo(s, d, x, o, q)
    BY <1>7, <1>9, <2>1, <2>2, <2>3, <2>4, <2>5, <2>6 DEF AloneUpTo
  <2> HIDE DEF o, q, x
  <2>8. Has(d, q, x \o SubSeq(s, o + 2, q), 0)
    BY <2>7, AloneRun
  <2> QED  BY <2>1, <2>5, <2>8 DEF q, x, o, Has
<1>16. 0 \in T
  <2>1. c[0].open = 0 /\ L(0) = 2
    <3>1. Len(base) = 2  BY DEF base
    <3> QED  BY <1>1, <3>1 DEF L
  <2>2. X(0) = base
    <3>1. SubSeq(in, 1, 0) = <<>>  OBVIOUS
    <3> QED  BY <1>3, <3>1, ConcatEmptySeq DEF X
  <2>3. Plain(0)  BY <1>14, <2>1, <2>2
  <2>4. 0 \in 0 .. n  BY <1>2
  <2> HIDE DEF Plain, Open
  <2> QED  BY <2>1, <2>3, <2>4
<1>17. ASSUME NEW i \in 1 .. n, i - 1 \in T  PROVE i \in T
  <2> DEFINE j == i - 1
             a == c[j]
             o == a.open
             b == in[i]
             p == L(j) + 1
  <2>1. /\ j \in 0 .. n /\ i \in 0 .. n /\ j \in Nat /\ j + 1 = i /\ i \in 1 .. n
        /\ a \in FffeCoding /\ b \in Byte /\ c[i] = FffeCodeByte(a, b)
    BY <1>1, <1>2
  <2>2. X(i) = Append(X(j), b) /\ X(j) \in Seq(Byte) /\ X(i) \in Seq(Byte)
    BY <1>11, <1>12, <2>1
  <2>3. /\ a.out \in Seq(Byte) /\ o \in Nat /\ L(j) \in Nat /\ L(i) \in Nat /\ p \in Nat /\ p >= 3 /\ L(j) >= 2
        /\ L(i) <= L(n) /\ Len(s) = L(n) + 2 /\ L(j) = Len(a.out) /\ L(n) \in Nat
    BY <1>4, <1>7, <1>8, <1>10, <2>1 DEF L
  <2>4. o # 0 => Waits(a.out, o)  BY <1>4, <2>1
  <2>5. IF o = 0 THEN Plain(j) ELSE Open(j)  BY <1>17, <2>1 DEF T
  <2>6. \A q \in 1 .. L(i) : c[i].open = 0 \/ q # c[i].open + 1 => s[q] = c[i].out[q]
    BY <1>10, <2>1
  <2>7. o # 0 => 3 <= o /\ o + 1 <= L(j) /\ a.out[o + 1] = 0  BY <2>3, <2>4 DEF Waits
  <2>8. MaxPair \in Nat  BY FrameCodecAssumption
  <2> DEFINE Goal == IF c[i].open = 0 THEN Plain(i) ELSE Open(i)
  <2> SUFFICES Goal
    BY <2>1 DEF T
  <2> HIDE DEF j, a, b, T, Goal, Plain, Open
  <2>9. CASE b # 255
    <3>1. c[i] = [out |-> Append(a.out, b), open |-> o]  BY <2>1, <2>9, FffeAppend DEF o
    <3> HIDE DEF o
    <3>2. c[i].out = Append(a.out, b) /\ c[i].open = o  BY <3>1
    <3>3. L(i) = p /\ c[i].out[p] = b  BY <2>1, <2>3, <3>2 DEF L
    <3>4. s[p] = b
      <4>1. p \in 1 .. L(i) /\ (c[i].open = 0 \/ p # c[i].open + 1)  BY <2>3, <2>7, <3>2, <3>3
      <4> QED  BY <2>6, <3>3, <4>1
    <3>5. CASE o = 0
      <4>1. d[L(j) - 2] = [out |-> X(j), due |-> 0]  BY <2>5, <3>5 DEF Plain
      <4>2. p \in 3 .. Len(s) /\ p - 3 = L(j) - 2 /\ Len(s) - p \in Int  BY <2>3, <3>3
      <4> HIDE DEF p
      <4>3. d[p - 2] = FffeUncodeByte([out |-> X(j), due |-> 0], b, Len(s) - p)
        BY <1>14, <3>4, <4>1, <4>2
      <4>4. d[p - 2] = [out |-> Append(X(j), b), due |-> 0]
        BY <2>1, <2>2, <2>9, <4>2, <4>3, StepPlain
      <4>5. Plain(i)  BY <2>2, <3>3, <4>4 DEF Plain
      <4> QED  BY <3>2, <3>5, <4>5 DEF Goal
    <3>6. CASE o # 0
      <4>1. PICK m \in 1 .. j : /\ d[o - 2] = [out |-> X(m), due |-> -1]
                                /\ SubSeq(s, o + 2, L(j)) = SubSeq(in, m + 1, j)
        BY <2>5, <3>6 DEF Open, o, a
      <4>2. SubSeq(s, o + 2, p) = Append(SubSeq(s, o + 2, L(j)), b)
        <5> DEFINE k == L(j)
                   f == o + 2
        <5>1. f \in Nat /\ f >= 1 /\ f <= k + 1 /\ k \in Nat /\ k + 1 <= Len(s) /\ s \in Seq(Byte)
          BY <1>7, <2>3, <2>7, <3>3, <3>6
        <5> HIDE DEF k, f
        <5>2. SubSeq(s, f, k + 1) = Append(SubSeq(s, f, k), s[k + 1])
          BY <5>1, SubSeqMore
        <5> QED  BY <3>4, <5>2 DEF k, f
      <4>3. SubSeq(in, m + 1, i) = Append(SubSeq(in, m + 1, j), b)
        <5>1. m + 1 \in Nat /\ m + 1 >= 1 /\ m + 1 <= j + 1 /\ j + 1 <= Len(in)
          BY <1>2, <2>1 DEF n
        <5>2. SubSeq(in, m + 1, j + 1) = Append(SubSeq(in, m + 1, j), in[j + 1])
          BY <2>1, <5>1, SubSeqMore
        <5> QED  BY <2>1, <5>2 DEF b
      <4>4. m \in 1 .. i  BY <2>1
      <4>5. SubSeq(s, o + 2, L(i)) = SubSeq(in, m + 1, i)  BY <3>3, <4>1, <4>2, <4>3
      <4>6. Open(i)  BY <3>2, <4>1, <4>4, <4>5 DEF Open
      <4> QED  BY <3>2, <3>6, <4>6 DEF Goal
    <3> QED  BY <3>5, <3>6
  <2>10. CASE b = 255 /\ (o = 0 \/ L(j) - o > MaxPair)
    <3>1. c[i] = [out |-> a.out \o <<255, 0>>, open |-> p]
      BY <2>1, <2>3, <2>10, FffeOpens, SMTT(30) DEF o
    <3> HIDE DEF o
    <3>2. c[i].out = a.out \o <<255, 0>> /\ c[i].open = p  BY <3>1
    <3>3. L(i) = L(j) + 2 /\ c[i].out[p] = 255 /\ \A q \in 1 .. L(j) : c[i].out[q] = a.out[q]
      <4>1. Len(c[i].out) = Len(a.out) + 2 /\ c[i].out[Len(a.out) + 1] = 255
            /\ \A q \in 1 .. Len(a.out) : c[i].out[q] = a.out[q]
        BY <1>3, <2>3, <3>2
      <4> QED  BY <2>3, <4>1 DEF L
    <3>4. s[p] = 255
      <4>1. p \in 1 .. L(i) /\ p # c[i].open + 1  BY <2>3, <3>2, <3>3
      <4> QED  BY <2>6, <3>3, <4>1
    <3>5. Plain(j)
      <4>1. CASE o = 0  BY <2>5, <4>1
      <4>2. CASE o # 0
        <5>1. Open(j)  BY <2>5, <4>2
        <5>2. o + 1 \in 1 .. L(j)  BY <2>3, <2>7, <4>2
        <5>3. o + 1 \in 1 .. L(i) /\ o + 1 # c[i].open + 1  BY <2>3, <3>2, <3>3, <5>2
        <5>4. s[o + 1] = 0  BY <2>6, <2>7, <3>3, <4>2, <5>2, <5>3
        <5>5. c[j].open # 0 /\ s[c[j].open + 1] = 0  BY <4>2, <5>4 DEF o, a
        <5> QED  BY <1>15, <2>1, <5>1, <5>5
      <4> QED  BY <4>1, <4>2
    <3>6. d[p - 2] = [out |-> X(i), due |-> -1]
      <4>1. d[L(j) - 2] = [out |-> X(j), due |-> 0]  BY <3>5 DEF Plain
      <4>2. p \in 3 .. Len(s) /\ p - 3 = L(j) - 2 /\ Len(s) - p \in Int /\ Len(s) - p >= 2  BY <2>3, <3>3
      <4> DEFINE left == Len(s) - p
                 y == X(j)
      <4> HIDE DEF p
      <4>3. d[p - 2] = FffeUncodeByte([out |-> y, due |-> 0], 255, left)
        BY <1>14, <3>4, <4>1, <4>2
      <4>5. y \in Seq(Byte) /\ left \in Int /\ left >= 2  BY <2>2, <4>2
      <4> HIDE DEF left, y
      <4>6. d[p - 2] = [out |-> Append(y, 255), due |-> -1]
        BY <4>3, <4>5, StepOpens
      <4>4. d[p - 2] = [out |-> Append(X(j), 255), due |-> -1]  BY <4>6 DEF y
      <4> QED  BY <2>2, <2>10, <4>4
    <3>7. SubSeq(s, p + 2, L(i)) = SubSeq(in, i + 1, i)
      <4>1. p + 2 \in Nat /\ L(i) < p + 2  BY <2>3, <3>3
      <4>2. SubSeq(s, p + 2, L(i)) = <<>>  BY <2>3, <4>1, SMTT(30)
      <4>3. SubSeq(in, i + 1, i) = <<>>  BY <2>1
      <4> QED  BY <4>2, <4>3
    <3>8. Open(i)
      <4>1. i \in 1 .. i  BY <2>1
      <4> QED  BY <3>2, <3>6, <3>7, <4>1 DEF Open
    <3> QED  BY <2>3, <3>2, <3>8 DEF Goal
  <2>11. CASE b = 255 /\ ~ (o = 0 \/ L(j) - o > MaxPair)
    <3> DEFINE k == L(j)
               g == k - o
    <3>1. b = 255 /\ o # 0 /\ ~ (k - o > MaxPair)  BY <2>11
    <3>2. k \in Nat /\ o \in Nat /\ 3 <= o /\ o + 1 <= k /\ k + 2 <= Len(s) /\ Len(s) \in Nat
      <4>1. L(j) <= L(i)
        <5>1. c[i] = [out |-> [a.out EXCEPT ![o + 1] = Len(a.out) - o], open |-> 0]
          <6>1. o # 0 /\ Len(a.out) - o <= MaxPair
            <7> HIDE DEF o
            <7> QED  BY <2>3, <2>8, <3>1
          <6> QED  BY <2>1, <3>1, <6>1, FffePairs DEF o
        <5> HIDE DEF o
        <5>2. c[i].out = [a.out EXCEPT ![o + 1] = Len(a.out) - o]  BY <5>1
        <5> DEFINE h == Len(a.out) - o
        <5>3. c[i].out = [a.out EXCEPT ![o + 1] = h]  BY <5>2
        <5> HIDE DEF h
        <5>4. Len(c[i].out) = Len(a.out)  BY <2>3, <5>3
        <5> QED  BY <2>3, <5>4 DEF L
      <4> HIDE DEF o
      <4> QED  BY <2>3, <2>7, <3>1, <4>1
    <3>3. c[i] = [out |-> [a.out EXCEPT ![o + 1] = g], open |-> 0]
      <4>1. o # 0 /\ Len(a.out) - o <= MaxPair
        <5> HIDE DEF o
        <5> QED  BY <2>3, <2>8, <3>1
      <4> QED  BY <2>1, <2>3, <3>1, <4>1, FffePairs DEF o
    <3> HIDE DEF o, k
    <3>3a. /\ g \in Nat /\ 1 <= g /\ g <= MaxPair /\ o + 1 \in 1 .. k
           /\ o + g = k /\ o + 1 + g <= Len(s)
      BY <2>8, <3>1, <3>2
    <3> HIDE DEF g
    <3>4. c[i].out = [a.out EXCEPT ![o + 1] = g] /\ c[i].open = 0  BY <3>3
    <3>5. L(i) = k /\ c[i].out[o + 1] = g  BY <2>3, <3>3a, <3>4 DEF L, k
    <3>6. s[o + 1] = g  BY <2>6, <3>3a, <3>4, <3>5
    <3>7. PICK m \in 1 .. j : /\ d[o - 2] = [out |-> X(m), due |-> -1]
                              /\ SubSeq(s, o + 2, k) = SubSeq(in, m + 1, j)
      BY <2>5, <3>1 DEF Open, o, a, k
    <3>8. m \in 0 .. n /\ m <= j /\ j \in 0 .. n  BY <1>2, <2>1
    <3>9. X(m) \in Seq(Byte) /\ X(m) \o SubSeq(in, m + 1, j) = X(j)  BY <1>11, <1>13, <3>8
    <3> DEFINE x == X(m)
    <3>10. PairAt(s, d, x, o, g)
      BY <1>7, <1>9, <3>2, <3>3a, <3>6, <3>7, <3>9 DEF PairAt
    <3> HIDE DEF x
    <3>11. Has(d, o + g, Append(x \o SubSeq(s, o + 2, o + g), 255), 0)
      BY <3>10, PairRun
    <3>12. Has(d, L(i), Append(X(m) \o SubSeq(in, m + 1, j), 255), 0)
      <4>1. L(i) = o + g /\ o + g = k  BY <3>3a, <3>5
      <4>2. SubSeq(s, o + 2, o + g) = SubSeq(in, m + 1, j)  BY <3>7, <4>1
      <4> QED  BY <3>11, <4>1, <4>2 DEF x
    <3>13. d[L(i) - 2] = [out |-> X(i), due |-> 0]
      BY <2>2, <3>1, <3>9, <3>12 DEF Has
    <3> QED  BY <3>4, <3>13 DEF Goal, Plain
  <2> QED  BY <2>8, <2>9, <2>10, <2>11
<1>18. 0 .. n \subseteq T  BY <1>2, <1>16, <1>17, Climb
<1>19. Plain(n)
  <2>1. n \in T /\ n \in 0 .. n
    <3>1. n \in 0 .. n  BY <1>2
    <3> HIDE DEF T
    <3> QED  BY <1>18, <3>1
  <2>2. c[n].open = 0 \/ Open(n)  BY <2>1 DEF T
  <2>3. ASSUME c[n].open # 0, Open(n)  PROVE Plain(n)
    <3>1. Waits(c[n].out, c[n].open) /\ c[n].open \in Nat  BY <1>4, <2>1, <2>3
    <3>2. F[c[n].open + 1] = 0 /\ c[n].open + 1 \in 1 .. L(n)
      BY <1>8, <3>1 DEF Waits, F, L
    <3>3. s[c[n].open + 1] = 0  BY <1>7, <3>2
    <3> QED  BY <1>15, <2>1, <2>3, <3>3
  <2>4. ASSUME c[n].open = 0  PROVE Plain(n)  BY <2>1, <2>4 DEF T
  <2> QED  BY <2>2, <2>3, <2>4
<1>20. X(n) = base \o in
  <2>1. SubSeq(in, 1, Len(in)) = in  OBVIOUS
  <2> QED  BY <2>1 DEF X, n
<1> DEFINE l == L(n)
           y == base \o in
<1>21. d[l - 2] = [out |-> y, due |-> 0]  BY <1>19, <1>20 DEF Plain
<1>22. y \in Seq(Byte) /\ Append(y, 255) \in Seq(Byte)
  <2>1. y \in Seq(Byte)  BY <1>3
  <2> HIDE DEF y
  <2> QED  BY <1>3, <2>1
<1> HIDE DEF T, Plain, Open, l, y
<1>23. l \in Nat /\ l >= 2 /\ Len(s) = l + 2 /\ s[l + 1] = 255 /\ s[l + 2] = 253
  BY <1>7, <1>8 DEF l
<1>24. d[l - 1] = [out |-> Append(y, 255), due |-> 0]
  <2> DEFINE p == l + 1
  <2>1. p \in 3 .. Len(s) /\ p - 2 = l - 1 /\ p - 3 = l - 2 /\ Len(s) - p = 1 /\ s[p] = 255
    BY <1>23
  <2> HIDE DEF p
  <2>2. d[p - 2] = FffeUncodeByte([out |-> y, due |-> 0], 255, 1)  BY <1>14, <1>21, <2>1
  <2>3. 1 \in Int /\ 1 < 2  OBVIOUS
  <2>4. d[p - 2] = [out |-> Append(y, 255), due |-> 0]  BY <1>3, <1>22, <2>2, <2>3, StepPlain
  <2> QED  BY <2>1, <2>4
<1>25. d[l] = [out |-> Append(Append(y, 255), 253), due |-> 0]
  <2> DEFINE p == l + 2
             z == Append(y, 255)
  <2>1. p \in 3 .. Len(s) /\ p - 2 = l /\ p - 3 = l - 1 /\ Len(s) - p = 0 /\ s[p] = 253
    BY <1>23
  <2>2. z \in Seq(Byte)  BY <1>22
  <2>3. d[l - 1] = [out |-> z, due |-> 0]  BY <1>24
  <2> HIDE DEF p, z
  <2>4. d[p - 2] = FffeUncodeByte([out |-> z, due |-> 0], 253, 0)  BY <1>14, <2>1, <2>3
  <2>5. 0 \in Int /\ 0 < 2  OBVIOUS
  <2>6. d[p - 2] = [out |-> Append(z, 253), due |-> 0]  BY <1>3, <2>2, <2>4, <2>5, StepPlain
  <2> QED  BY <2>1, <2>6 DEF z
<1>26. FffeUncode(s) = Append(Append(y, 255), 253)
  <2>1. Len(s) - 2 = l  BY <1>23
  <2> QED  BY <1>9, <1>25, <2>1
<1>27. Append(Append(y, 255), 253) = y \o <<255, 253>>
  <2>1. <<255, 253>> = Append(<<255>>, 253)  OBVIOUS
  <2>2. <<255>> \in Seq(Byte)  BY <1>3
  <2>3. y \o Append(<<255>>, 253) = Append(y \o <<255>>, 253)  BY <1>3, <1>22, <2>2, AppendLast
  <2>4. y \o <<255>> = Append(y, 255)  BY <1>3, <1>22
  <2> QED  BY <2>1, <2>3, <2>4
<1>28. FffePairUp(in) = F  BY <1>1 DEF F
<1>29. FffeUncode(F \o <<255, 253>>) = y \o <<255, 253>>  BY <1>26, <1>27 DEF s
<1> QED  BY <1>5, <1>28, <1>29 DEF y, base

\* An 0xff without a partner costs a byte, and its partner saves it.
LEMMA FffeGrows ==
    ASSUME NEW in \in Seq(Byte)
    PROVE  Len(FffePairUp(in)) >= Len(in) + 2
<1> DEFINE n == Len(in)
<1>1. PICK c \in [0 .. n -> FffeCoding] :
        /\ c[0] = [out |-> <<255, 254>>, open |-> 0]
        /\ \A i \in 1 .. n : c[i] = FffeCodeByte(c[i - 1], in[i])
        /\ FffePairUp(in) = c[n].out
  BY FffePairLoop
<1>2. n \in Nat /\ \A i \in 1 .. n : in[i] \in Byte
  OBVIOUS
<1> HIDE DEF n
<1> DEFINE L(i) == Len(c[i].out)
           T == {i \in 0 .. n : L(i) >= i + 2 /\ (c[i].open # 0 => L(i) >= i + 3)}
<1>3. \A i \in 0 .. n : c[i] \in FffeCoding /\ c[i].out \in Seq(Byte) /\ L(i) \in Nat /\ c[i].open \in Nat
  BY DEF FffeCoding
<1>4. 0 \in T
  <2>1. L(0) = 2 /\ c[0].open = 0  BY <1>1
  <2> QED  BY <1>2, <2>1
<1>5. ASSUME NEW i \in 1 .. n, i - 1 \in T  PROVE i \in T
  <2> DEFINE a == c[i - 1]
             b == in[i]
             l == Len(a.out)
             o == a.open
  <2>1. /\ a \in FffeCoding /\ b \in Byte /\ c[i] = FffeCodeByte(a, b) /\ i \in 0 .. n /\ i - 1 \in 0 .. n
        /\ a.out \in Seq(Byte) /\ l \in Nat /\ o \in Nat /\ i \in Nat
    BY <1>1, <1>2, <1>3
  <2>2. l >= i + 1 /\ (o # 0 => l >= i + 2)
    <3>1. l >= (i - 1) + 2 /\ (o # 0 => l >= (i - 1) + 3)  BY <1>5
    <3> HIDE DEF l, o
    <3> QED  BY <2>1, <3>1
  <2>3. MaxPair \in Nat  BY FrameCodecAssumption
  <2> SUFFICES L(i) >= i + 2 /\ (c[i].open # 0 => L(i) >= i + 3)
    BY <2>1
  <2> HIDE DEF a, b
  <2>4. CASE b # 255
    <3>1. c[i] = [out |-> Append(a.out, b), open |-> o]  BY <2>1, <2>4, FffeAppend
    <3>2. Len(Append(a.out, b)) = l + 1  BY <2>1
    <3>3. L(i) = l + 1 /\ c[i].open = o  BY <3>1, <3>2
    <3> HIDE DEF l, o, L
    <3> QED  BY <2>1, <2>2, <3>3
  <2>5. CASE b = 255 /\ (o = 0 \/ l - o > MaxPair)
    <3>1. c[i] = [out |-> a.out \o <<255, 0>>, open |-> l + 1]  BY <2>1, <2>5, FffeOpens
    <3>2. Len(a.out \o <<255, 0>>) = l + 2  BY <2>1 DEF Byte
    <3>3. L(i) = l + 2  BY <3>1, <3>2
    <3> HIDE DEF l, o, L
    <3> QED  BY <2>1, <2>2, <3>3
  <2>6. CASE b = 255 /\ ~ (o = 0 \/ l - o > MaxPair)
    <3>1. o # 0 /\ l - o <= MaxPair
      <4> HIDE DEF l, o
      <4> QED  BY <2>1, <2>3, <2>6
    <3>2. c[i] = [out |-> [a.out EXCEPT ![o + 1] = l - o], open |-> 0]  BY <2>1, <2>6, <3>1, FffePairs
    <3> DEFINE g == l - o
    <3>3. c[i].out = [a.out EXCEPT ![o + 1] = g] /\ c[i].open = 0  BY <3>2
    <3> HIDE DEF g
    <3>4. Len(c[i].out) = l  BY <2>1, <3>3
    <3> HIDE DEF o
    <3> QED  BY <2>1, <2>2, <3>1, <3>3, <3>4
  <2> QED  BY <2>4, <2>5, <2>6
<1> HIDE DEF T
<1>6. 0 .. n \subseteq T  BY <1>2, <1>4, <1>5, Climb
<1>7. n \in 0 .. n  BY <1>2
<1>8. L(n) >= n + 2  BY <1>6, <1>7 DEF T
<1> QED  BY <1>1, <1>8 DEF n

(***************************************************************************)
(* What fffeFrame writes is marked at its two ends and nowhere else.       *)
(***************************************************************************)
LEMMA FffeWrittenShape ==
    ASSUME NEW msg \in FffeMsg
    PROVE  LET w == FffeCode(FffeFrame(msg)) n == Len(w) IN
           /\ w \in Seq(Byte) /\ n \in Nat /\ n >= Len(msg.body) + 14
           /\ w[1] = 255 /\ w[2] = 254 /\ w[n - 1] = 255 /\ w[n] = 253
           /\ \A k \in 1 .. n - 1 : /\ w[k] = 255 /\ w[k + 1] = 254 => k = 1
                                    /\ w[k] = 255 /\ w[k + 1] = 253 => k = n - 1
           /\ FffeUncode(w) = FffeFrame(msg)
<1> DEFINE in == FffeIn(msg)
           F == FffePairUp(in)
           w == F \o <<255, 253>>
           n == Len(w)
<1>1. in \in Seq(Byte) /\ Len(in) = Len(msg.body) + 10 /\ Len(msg.body) \in Nat
  BY FffeInIs, FffeMsgParts
<1>2. Interior(FffeFrame(msg), <<255, 254>>) = in /\ FffeFrame(msg) = <<255, 254>> \o in \o <<255, 253>>
  BY FffeFrameIs
<1>3. FffeCode(FffeFrame(msg)) = w
  BY <1>2 DEF FffeCode
<1> HIDE DEF in
<1>4. F \in Seq(Byte) /\ Described(F) /\ FffeUncode(w) = FffeFrame(msg)
  <2>1. in \in Seq(Byte)  BY <1>1
  <2>2. F \in Seq(Byte) /\ Described(F)  BY <2>1, FffeUnpairs
  <2>3. FffeUncode(w) = <<255, 254>> \o in \o <<255, 253>>
    BY <2>1, FffeUnpairs, ZenonT(60)
  <2>4. FffeUncode(w) = FffeFrame(msg)  BY <1>2, <2>3, ZenonT(30)
  <2> QED  BY <2>2, <2>4
<1>5. Len(F) >= Len(in) + 2  BY <1>1, FffeGrows
<1> DEFINE m == Len(F)
<1>6. 255 \in Byte /\ 253 \in Byte  BY DEF Byte
<1> HIDE DEF F
<1>7. m \in Nat /\ n = m + 2 /\ w \in Seq(Byte) /\ w[m + 1] = 255 /\ w[m + 2] = 253
      /\ \A k \in 1 .. m : w[k] = F[k]
  BY <1>4, <1>6
<1>8. F[1] = 255 /\ F[2] = 254
      /\ \A p \in 3 .. m : F[p] = 255 => p + 1 <= m /\ F[p + 1] <= MaxPair
  BY <1>4 DEF Described
<1>9. MaxPair \in Nat /\ MaxPair <= 252  BY FrameCodecAssumption
<1>10. m >= Len(msg.body) + 12  BY <1>1, <1>5, <1>7
<1> HIDE DEF w, m, n
<1>11. /\ w[1] = 255 /\ w[2] = 254 /\ w[n - 1] = 255 /\ w[n] = 253
       /\ n \in Nat /\ n >= Len(msg.body) + 14
  BY <1>1, <1>7, <1>8, <1>10
<1>12. ASSUME NEW k \in 1 .. n - 1, w[k] = 255
       PROVE  /\ w[k + 1] = 254 => k = 1
              /\ w[k + 1] = 253 => k = n - 1
  <2>1. CASE k = 1  BY <1>11, <2>1
  <2>2. CASE k = n - 1  BY <1>11, <2>2
  <2>3. CASE k = 2  BY <1>11, <1>12, <2>3
  <2>4. CASE k \in 3 .. m
    <3>1. F[k] = 255  BY <1>7, <1>12, <2>4
    <3>2. k + 1 <= m /\ F[k + 1] <= MaxPair  BY <1>8, <2>4, <3>1
    <3>3. w[k + 1] = F[k + 1] /\ F[k + 1] \in Int
      <4>1. k + 1 \in 1 .. m  BY <1>7, <2>4, <3>2
      <4>2. F[k + 1] \in Byte  BY <1>4, <4>1 DEF m
      <4> QED  BY <1>7, <4>1, <4>2 DEF Byte
    <3> QED  BY <1>9, <3>2, <3>3
  <2> QED  BY <1>1, <1>7, <1>10, <2>1, <2>2, <2>3, <2>4
<1> QED  BY <1>3, <1>4, <1>7, <1>11, <1>12 DEF n

(***************************************************************************)
(* A frame that was written to its end is decoded to what was framed, and  *)
(* passes the checks.                                                      *)
(***************************************************************************)
THEOREM FffeRoundTrip ==
    ASSUME NEW msg \in FffeMsg, NEW addr, msg.dst = addr
    PROVE  LET w == FffeCode(FffeFrame(msg)) IN
           Accepts("fffe", w, addr) /\ Message("fffe", w, addr) = msg
<1> DEFINE w == FffeCode(FffeFrame(msg))
           u == FffeFrame(msg)
           n == Len(msg.body)
           p == FffePart(msg)
           in == FffeIn(msg)
           crc == FffeCheck(p)
<1>1. n \in Nat /\ msg.body \in Seq(Byte)
      /\ msg = [dst |-> msg.dst, type |-> msg.type, id |-> msg.id, body |-> msg.body]
  BY FffeMsgParts
<1>2. FffeUncode(w) = u /\ Len(w) >= n + 14 /\ Len(w) \in Nat
  BY FffeWrittenShape
<1>3. /\ p \in Seq(Byte) /\ Len(p) = n + 6
      /\ OfLe16(p[1], p[2]) = n + 10 /\ OfLe16(p[3], p[4]) = msg.type /\ OfLe16(p[5], p[6]) = msg.id
      /\ \A i \in 1 .. n : p[i + 6] = msg.body[i]
  BY FffePartIs
<1>4. /\ in \in Seq(Byte) /\ Len(in) = n + 10
      /\ \A k \in 1 .. n + 6 : in[k] = p[k]
      /\ \A k \in 1 .. 4 : in[n + 6 + k] = crc[k]
  BY FffeInIs
<1>5. u = <<255, 254>> \o in \o <<255, 253>>
  BY FffeFrameIs
<1>6. crc \in Seq(Byte) /\ Len(crc) = 4  BY <1>3, FffeCheckType
<1> HIDE DEF w, u, p, in, crc
<1>7. u \in Seq(Byte) /\ Len(u) = n + 14 /\ \A k \in 1 .. n + 10 : u[k + 2] = in[k]
  <2>1. 255 \in Byte /\ 254 \in Byte /\ 253 \in Byte  BY DEF Byte
  <2>0. in \in Seq(Byte)  BY <1>4
  <2>2. u \in Seq(Byte) /\ Len(u) = Len(in) + 4 /\ \A k \in 1 .. Len(in) : u[k + 2] = in[k]
    BY <1>5, <2>0, <2>1, InteriorOfTwo
  <2> QED  BY <1>1, <1>4, <2>2
<1> DEFINE l == Len(u)
<1>8. l \in Nat /\ l = n + 14  BY <1>1, <1>7
<1> HIDE DEF n
<1>9. \A k \in 1 .. n + 6 : u[k + 2] = p[k]  BY <1>1, <1>4, <1>7, SMTT(30)
<1>10. OfLe16(u[3], u[4]) = l - 4 /\ OfLe16(u[5], u[6]) = msg.type /\ OfLe16(u[7], u[8]) = msg.id
  <2>1. u[3] = p[1] /\ u[4] = p[2] /\ u[5] = p[3] /\ u[6] = p[4] /\ u[7] = p[5] /\ u[8] = p[6]
    <3>1. \A k \in 1 .. 6 : u[k + 2] = p[k]  BY <1>1, <1>9
    <3> QED  BY <3>1
  <2>2. OfLe16(u[3], u[4]) = n + 10  BY <1>3, <2>1
  <2>3. l - 4 = n + 10  BY <1>1, <1>8
  <2> QED  BY <1>3, <2>1, <2>2, <2>3
<1> HIDE DEF l
<1>11. SubSeq(u, 3, l - 6) = p
  <2> DEFINE v == SubSeq(u, 3, n + 8)
  <2>1. l - 6 = n + 8  BY <1>1, <1>8
  <2>2. v \in Seq(Byte) /\ Len(v) = n + 6 /\ \A k \in 1 .. n + 6 : v[k] = u[k + 2]
    BY <1>1, <1>7, SMTT(30)
  <2> HIDE DEF v
  <2>3. v = p  BY <1>1, <1>3, <1>9, <2>2, SMTT(30)
  <2> QED  BY <2>1, <2>3 DEF v
<1>12. SubSeq(u, l - 5, l - 2) = crc
  <2> DEFINE v == SubSeq(u, n + 9, n + 12)
  <2>1. l - 5 = n + 9 /\ l - 2 = n + 12  BY <1>1, <1>8
  <2>2. v \in Seq(Byte) /\ Len(v) = 4 /\ \A k \in 1 .. 4 : v[k] = u[n + 8 + k]
    <3>1. v \in Seq(Byte) /\ Len(v) = 4  BY <1>1, <1>7
    <3>2. ASSUME NEW k \in 1 .. 4  PROVE v[k] = u[n + 8 + k]
      <4> DEFINE a == n + 9
                 b == n + 12
      <4>1. a \in 1 .. Len(u) /\ b \in a .. Len(u) /\ k \in 1 .. b - a + 1 /\ a + k - 1 = n + 8 + k
        BY <1>1, <1>7, SMTT(30)
      <4>2. u \in Seq(Byte) /\ v = SubSeq(u, a, b)  BY <1>7
      <4> HIDE DEF a, b, v
      <4>3. v[k] = u[a + k - 1]  BY <4>1, <4>2
      <4> QED  BY <4>1, <4>3
    <3> HIDE DEF v
    <3> QED  BY <3>1, <3>2
  <2>3. \A k \in 1 .. 4 : u[n + 8 + k] = crc[k]
    <3> TAKE k \in 1 .. 4
    <3>1. n + 6 + k \in 1 .. n + 10 /\ (n + 6 + k) + 2 = n + 8 + k  BY <1>1
    <3>2. u[(n + 6 + k) + 2] = in[n + 6 + k]  BY <1>7, <3>1
    <3> QED  BY <1>4, <3>1, <3>2
  <2> HIDE DEF v
  <2>4. v = crc  BY <1>6, <2>2, <2>3
  <2> QED  BY <2>1, <2>4 DEF v
<1>13. SubSeq(u, 9, l - 6) = msg.body
  <2> DEFINE v == SubSeq(u, 9, n + 8)
             body == msg.body
  <2>1. l - 6 = n + 8  BY <1>1, <1>8
  <2>2. v \in Seq(Byte) /\ Len(v) = n /\ \A k \in 1 .. n : v[k] = u[k + 8]
    BY <1>1, <1>7
  <2>3. \A k \in 1 .. n : u[k + 8] = body[k]
    <3> TAKE k \in 1 .. n
    <3>1. k + 6 \in 1 .. n + 6 /\ (k + 6) + 2 = k + 8  BY <1>1
    <3>2. u[(k + 6) + 2] = p[k + 6]  BY <1>9, <3>1
    <3> QED  BY <1>3, <3>1, <3>2
  <2>4. body \in Seq(Byte) /\ Len(body) = n  BY <1>1 DEF n
  <2> HIDE DEF v, body
  <2>5. v = body  BY <1>1, <2>2, <2>3, <2>4
  <2> QED  BY <2>1, <2>5 DEF v, body
<1>14. FffeAccepts(u)
  BY <1>10, <1>11, <1>12 DEF FffeAccepts, l, crc
<1>15. FffeMessage(u, addr) = msg
  <2>1. FffeMessage(u, addr)
          = [dst |-> addr, type |-> OfLe16(u[5], u[6]), id |-> OfLe16(u[7], u[8]),
             body |-> SubSeq(u, 9, l - 6)]
    BY DEF FffeMessage, l
  <2>2. FffeMessage(u, addr) = [dst |-> msg.dst, type |-> msg.type, id |-> msg.id, body |-> msg.body]
    BY <1>10, <1>13, <2>1
  <2> QED  BY <1>1, <2>2
<1>16. MinLen("fffe") = 14  BY DEF MinLen
<1>17. Len(w) >= 14  BY <1>1, <1>2
<1>18. Accepts("fffe", w, addr) /\ Message("fffe", w, addr) = msg
  BY <1>2, <1>14, <1>15, <1>16, <1>17 DEF Accepts, Message
<1> QED  BY <1>18 DEF w
============================================================================
