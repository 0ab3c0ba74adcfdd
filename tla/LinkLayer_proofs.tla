-------------------------- MODULE LinkLayer_proofs --------------------------
(***************************************************************************)
(* What holds of the frame list, of the receive thread's mails and of      *)
(* eth_mux for every size of the list and the chip's queue, and any number *)
(* of frames, opens and failures.                                          *)
(***************************************************************************)
EXTENDS LinkLayer, TLAPS

LEMMA Arithmetic ==
    ASSUME NEW n \in 0 .. NumMod - 1
    PROVE  /\ Inc(n) \in 0 .. NumMod - 1 /\ Dec(n) \in 0 .. NumMod - 1
           /\ n > 0 => Dec(n) = n - 1
           /\ n <= RxBufNum => Inc(n) = n + 1
BY LinkAssumption DEF Inc, Dec

LEMMA FirstOut ==
    ASSUME NEW S, NEW s \in Seq(S), s # <<>>
    PROVE  /\ Head(s) = s[1] /\ s[1] \in S /\ Len(s) \in Nat \ {0}
           /\ Tail(s) \in Seq(S) /\ Len(Tail(s)) = Len(s) - 1
           /\ \A i \in 1 .. Len(s) - 1 : Tail(s)[i] = s[i + 1]
OBVIOUS

LEMMA NoneIn ==
    ASSUME NEW S, NEW s, s = <<>>
    PROVE  s \in Seq(S) /\ Len(s) = 0
OBVIOUS

LEMMA LastIn ==
    ASSUME NEW S, NEW s \in Seq(S), NEW e \in S
    PROVE  /\ Append(s, e) \in Seq(S) /\ Len(Append(s, e)) = Len(s) + 1
           /\ \A i \in 1 .. Len(s) : Append(s, e)[i] = s[i]
           /\ Append(s, e)[Len(s) + 1] = e
OBVIOUS
---------------------------------------------------------------------------
(***************************************************************************)
(* The types, and that every entry of the list holds a frame.              *)
(***************************************************************************)
TypeInv == TypeOK /\ \A i \in 1 .. Len(list) : list[i] # <<>>

\* A thread goes to one of its places.
Places(t) ==
    IF t = "erx" THEN ErxPlaces ELSE IF t = "app" THEN AppPlaces ELSE SendPlaces

PcOK ==
    /\ pc \in [{"erx", "app", "etx"} -> ErxPlaces \cup AppPlaces]
    /\ \A t \in {"erx", "app", "etx"} : pc[t] \in Places(t)

LEMMA GotoKeeps ==
    ASSUME PcOK, NEW t \in {"erx", "app", "etx"}, NEW l \in Places(t), Goto(t, l)
    PROVE  /\ PcOK' /\ pc'[t] = l
           /\ \A u \in {"erx", "app", "etx"} \ {t} : pc'[u] = pc[u]
<1>1. l \in ErxPlaces \cup AppPlaces
  BY DEF Places, AppPlaces
<1>2. /\ pc' \in [{"erx", "app", "etx"} -> ErxPlaces \cup AppPlaces] /\ pc'[t] = l
      /\ \A u \in {"erx", "app", "etx"} \ {t} : pc'[u] = pc[u]
  BY <1>1 DEF Goto, PcOK
<1>3. \A u \in {"erx", "app", "etx"} : pc'[u] \in Places(u)
  BY <1>2 DEF PcOK
<1> QED
  BY <1>2, <1>3 DEF PcOK

\* The types of what belongs to the list, and of the rest.
ListTypes ==
    /\ list \in Seq(Entry) /\ \A i \in 1 .. Len(list) : list[i] # <<>>
    /\ num \in 0 .. NumMod - 1
    /\ stored \in Seq(1 .. MaxFrames) /\ got \in 0 .. MaxFrames
    /\ overlapped \in BOOLEAN

RestTypes ==
    /\ holder \in {"free", "gone", "erx", "app", "etx"} /\ broken \in BOOLEAN
    /\ status \subseteq Irq /\ pbuf \in Entry /\ nopbuf \in 0 .. MaxNoPbuf
    /\ seen \in Seq(Entry) /\ count \in 0 .. NumMod - 1 /\ opening \in BOOLEAN
    /\ refs \in 0 .. MaxOpens /\ indicate \in BOOLEAN

LEMMA TypeParts ==
    /\ TypeInv <=> ChipTypeOK /\ PcOK /\ ListTypes /\ RestTypes
    /\ TypeInv' <=> ChipTypeOK' /\ PcOK' /\ ListTypes' /\ RestTypes'
BY DEF TypeInv, TypeOK, PcOK, Places, ListTypes, RestTypes

LEMMA MutexTypes ==
    ASSUME RestTypes, NEW t \in {"erx", "app", "etx"}, Take(t) \/ Release
    PROVE  holder' \in {"free", "gone", "erx", "app", "etx"} /\ broken' \in BOOLEAN
BY DEF RestTypes, Take, Release

LEMMA RaiseTypes ==
    ASSUME ChipTypeOK, NEW bits \in SUBSET Irq, Raise(bits)
    PROVE  isr' \subseteq Irq /\ rx_notice' \in BOOLEAN /\ mails' \in Nat
<1>1. isr' \subseteq Irq
  BY DEF ChipTypeOK, Raise
<1>2. rx_notice' \in BOOLEAN
  BY DEF ChipTypeOK, Raise
<1>3. mails' \in Nat
  BY DEF ChipTypeOK, Raise
<1> QED
  BY <1>1, <1>2, <1>3

LEMMA ChipKeepsTypes == ChipTypeOK /\ Chip => ChipTypeOK'
<1> SUFFICES ASSUME ChipTypeOK, Chip PROVE ChipTypeOK'
  OBVIOUS
<1> USE ChipAssumption
<1>1. ASSUME NEW kind \in Kind, FrameArrives(kind) PROVE ChipTypeOK'
  <2>1. isr' \subseteq Irq /\ rx_notice' \in BOOLEAN /\ mails' \in Nat
    BY <1>1, RaiseTypes DEF FrameArrives, Irq
  <2>2. qmu' \in Seq(Frame) /\ Len(qmu') <= QmuFrames
    <3>1. [n |-> arrived + 1, kind |-> kind] \in Frame
      BY <1>1 DEF FrameArrives, Frame, ChipTypeOK
    <3> QED
      BY <1>1, <3>1, LastIn DEF FrameArrives, ChipTypeOK
  <2>3. arrived' \in 0 .. MaxFrames
    BY <1>1 DEF FrameArrives, ChipTypeOK
  <2>4. overrun' \in BOOLEAN
    BY <1>1 DEF FrameArrives, ChipTypeOK
  <2> QED
    BY <1>1, <2>1, <2>2, <2>3, <2>4 DEF FrameArrives, ChipTypeOK
<1>2. ASSUME LinkChanges PROVE ChipTypeOK'
  <2>1. isr' \subseteq Irq /\ rx_notice' \in BOOLEAN /\ mails' \in Nat
    BY <1>2, RaiseTypes DEF LinkChanges, Irq
  <2>2. links' \in 0 .. MaxLinks
    BY <1>2 DEF LinkChanges, ChipTypeOK
  <2> QED
    BY <1>2, <2>1, <2>2 DEF LinkChanges, ChipTypeOK
<1>3. ASSUME Sends PROVE ChipTypeOK'
  BY <1>3 DEF Sends, ChipTypeOK, mbox, world
<1> QED
  BY <1>1, <1>2, <1>3 DEF Chip

\* What an action leaves alone keeps its types.
LEMMA Same ==
    ASSUME ChipTypeOK, PcOK, ListTypes
    PROVE  /\ UNCHANGED chipVars => ChipTypeOK'
           /\ UNCHANGED rxList => ListTypes'
           /\ UNCHANGED pc => PcOK'
<1>1. UNCHANGED chipVars => ChipTypeOK'
  BY DEF ChipTypeOK, chipVars, chip, mbox, world
<1>2. UNCHANGED rxList => ListTypes'
  BY DEF ListTypes, rxList
<1>3. UNCHANGED pc => PcOK'
  BY DEF PcOK
<1> QED
  BY <1>1, <1>2, <1>3

LEMMA QueueTypes ==
    ASSUME ChipTypeOK, qmu' = qmu \/ qmu' = <<>>
    PROVE  qmu' \in Seq(Frame) /\ Len(qmu') <= QmuFrames
<1>1. CASE qmu' = qmu
  BY <1>1 DEF ChipTypeOK
<1>2. CASE qmu' = <<>>
  <2>1. qmu' \in Seq(Frame) /\ Len(qmu') = 0
    BY <1>2, NoneIn
  <2> QED
    BY <2>1, ChipAssumption
<1> QED
  BY <1>1, <1>2

LEMMA ReceiveKeepsTypes ==
    ASSUME TypeInv,
           \/ GetMail \/ ClearNotice \/ EnterRx \/ ReadStatus \/ Ack \/ Rcv \/ LinkStatus
           \/ StopRx \/ FlushRx \/ StartRx \/ ClearPsi \/ LeaveRx
    PROVE  TypeInv'
<1>0. ChipTypeOK /\ PcOK /\ ListTypes /\ RestTypes
  BY TypeParts
<1>a. \A l \in ErxPlaces : Goto("erx", l) => PcOK'
  BY <1>0, GotoKeeps DEF Places
<1> USE DEF ErxPlaces
<1>1. CASE GetMail
  <2>1. PcOK'
    BY <1>1, <1>a DEF GetMail
  <2>2. ChipTypeOK'
    BY <1>0, <1>1 DEF GetMail, ChipTypeOK, chip, world
  <2>3. ListTypes' /\ RestTypes'
    BY <1>0, <1>1, Same DEF GetMail, RestTypes, irq, dev, clear
  <2> QED
    BY <2>1, <2>2, <2>3, TypeParts
<1>2. CASE ClearNotice
  <2>1. PcOK'
    BY <1>2, <1>a DEF ClearNotice
  <2>2. ChipTypeOK'
    BY <1>0, <1>2 DEF ClearNotice, ChipTypeOK, chip, world
  <2>3. ListTypes' /\ RestTypes'
    BY <1>0, <1>2, Same DEF ClearNotice, RestTypes, irq, dev, clear
  <2> QED
    BY <2>1, <2>2, <2>3, TypeParts
<1>3. CASE EnterRx
  <2>1. PcOK'
    BY <1>3, <1>a DEF EnterRx
  <2>2. ChipTypeOK' /\ ListTypes'
    BY <1>0, <1>3, Same DEF EnterRx
  <2>3. RestTypes'
    BY <1>0, <1>3, MutexTypes DEF EnterRx, RestTypes, irq, dev, clear
  <2> QED
    BY <2>1, <2>2, <2>3, TypeParts
<1>4. CASE ReadStatus
  <2>1. PcOK'
    BY <1>4, <1>a DEF ReadStatus
  <2>2. ChipTypeOK' /\ ListTypes'
    BY <1>0, <1>4, Same DEF ReadStatus
  <2>3. RestTypes'
    BY <1>0, <1>4 DEF ReadStatus, RestTypes, ChipTypeOK, dev, clear
  <2> QED
    BY <2>1, <2>2, <2>3, TypeParts
<1>5. ASSUME NEW from, NEW bits, NEW to \in ErxPlaces, ClearBits(from, bits, to),
             qmu' \in {qmu, <<>>}, UNCHANGED <<rxe, room>>
      PROVE  TypeInv'
  <2>1. PcOK'
    BY <1>5, <1>a DEF ClearBits
  <2>2. isr' \subseteq Irq
    BY <1>0, <1>5 DEF ClearBits, ChipTypeOK
  <2>3. qmu' \in Seq(Frame) /\ Len(qmu') <= QmuFrames
    BY <1>0, <1>5, QueueTypes
  <2>4. ChipTypeOK'
    BY <1>0, <1>5, <2>2, <2>3 DEF ClearBits, ChipTypeOK, mbox, world
  <2>5. ListTypes' /\ RestTypes'
    BY <1>0, <1>5, Same DEF ClearBits, RestTypes, irq, dev, clear
  <2> QED
    BY <2>1, <2>4, <2>5, TypeParts
<1>6. CASE Ack \/ FlushRx \/ ClearPsi
  <2>1. CASE Ack
    BY <1>5, <2>1 DEF Ack, chip
  <2>2. CASE FlushRx
    BY <1>5, <2>2 DEF FlushRx
  <2>3. CASE ClearPsi
    BY <1>5, <2>3 DEF ClearPsi, chip
  <2> QED
    BY <1>6, <2>1, <2>2, <2>3
<1>7. CASE Rcv
  <2>1. PcOK' /\ ListTypes'
    BY <1>0, <1>7, Same DEF Rcv, threads
  <2>2. qmu' \in Seq(Frame) /\ Len(qmu') <= QmuFrames
    BY <1>0, <1>7, QueueTypes DEF Rcv
  <2>3. ChipTypeOK'
    BY <1>0, <1>7, <2>2 DEF Rcv, ChipTypeOK, mbox, world
  <2>4. pbuf' \in Entry /\ nopbuf' \in 0 .. MaxNoPbuf /\ status' \subseteq Irq
    BY <1>0, <1>7, LinkAssumption DEF Rcv, ChipTypeOK, RestTypes, Entry
  <2>5. RestTypes'
    BY <1>0, <1>7, <2>4 DEF Rcv, RestTypes, threads, dev, clear
  <2> QED
    BY <2>1, <2>3, <2>5, TypeParts
<1>8. CASE LinkStatus
  <2>1. PcOK' /\ ListTypes'
    BY <1>0, <1>8, Same DEF LinkStatus, threads
  <2>2. ChipTypeOK'
    BY <1>0, <1>8 DEF LinkStatus, ChipTypeOK, chip, world
  <2>3. RestTypes'
    BY <1>0, <1>8 DEF LinkStatus, RestTypes, threads, dev, clear
  <2> QED
    BY <2>1, <2>2, <2>3, TypeParts
<1>9. CASE StopRx
  <2>1. PcOK'
    BY <1>9, <1>a DEF StopRx
  <2>2. isr' \subseteq Irq /\ rx_notice' \in BOOLEAN /\ mails' \in Nat
    BY <1>0, <1>9, RaiseTypes DEF StopRx, Irq
  <2>3. ChipTypeOK'
    BY <1>0, <1>9, <2>2 DEF StopRx, ChipTypeOK, world
  <2>4. ListTypes' /\ RestTypes'
    BY <1>0, <1>9, Same DEF StopRx, RestTypes, dev, clear
  <2> QED
    BY <2>1, <2>3, <2>4, TypeParts
<1>10. CASE StartRx
  <2>1. PcOK'
    BY <1>10, <1>a DEF StartRx
  <2>2. ChipTypeOK'
    BY <1>0, <1>10 DEF StartRx, ChipTypeOK, mbox, world
  <2>3. ListTypes' /\ RestTypes'
    BY <1>0, <1>10, Same DEF StartRx, RestTypes, irq, dev, clear
  <2> QED
    BY <2>1, <2>2, <2>3, TypeParts
<1>11. CASE LeaveRx
  <2>1. PcOK'
    <3>1. \E l \in ErxPlaces : Goto("erx", l)
      BY <1>11 DEF LeaveRx
    <3> QED
      BY <3>1, <1>a
  <2>2. ChipTypeOK' /\ ListTypes'
    BY <1>0, <1>11, Same DEF LeaveRx
  <2>3. pbuf' \in Entry
    BY <1>11 DEF LeaveRx, Entry
  <2>4. RestTypes'
    BY <1>0, <1>11, <2>3, MutexTypes DEF LeaveRx, RestTypes, dev, clear
  <2> QED
    BY <2>1, <2>2, <2>4, TypeParts
<1> QED
  BY <1>1, <1>2, <1>3, <1>4, <1>6, <1>7, <1>8, <1>9, <1>10, <1>11

\* A list of entries that all hold a frame.
Filled(l) == l \in Seq(Entry) /\ \A i \in 1 .. Len(l) : l[i] # <<>>

LEMMA TailFilled ==
    ASSUME NEW l, Filled(l), l # <<>>
    PROVE  Filled(Tail(l)) /\ Head(l) = l[1] /\ l[1] \in Entry /\ l[1][1] \in Frame
<1>1. /\ Tail(l) \in Seq(Entry) /\ Len(Tail(l)) = Len(l) - 1 /\ Len(l) \in Nat \ {0}
      /\ \A i \in 1 .. Len(l) - 1 : Tail(l)[i] = l[i + 1]
      /\ Head(l) = l[1] /\ l[1] \in Entry
  BY FirstOut DEF Filled
<1>2. \A i \in 1 .. Len(Tail(l)) : Tail(l)[i] # <<>>
  BY <1>1 DEF Filled
<1>3. l[1] # <<>> /\ l[1] \in Seq(Frame)
  BY <1>1 DEF Filled, Entry
<1>4. l[1][1] \in Frame
  BY <1>3, FirstOut
<1> QED
  BY <1>1, <1>2, <1>4 DEF Filled

LEMMA AppendFilled ==
    ASSUME NEW l, Filled(l), NEW e \in Entry, e # <<>>
    PROVE  Filled(Append(l, e))
<1>1. /\ Append(l, e) \in Seq(Entry) /\ Len(Append(l, e)) = Len(l) + 1
      /\ \A i \in 1 .. Len(l) : Append(l, e)[i] = l[i]
      /\ Append(l, e)[Len(l) + 1] = e
  BY LastIn DEF Filled
<1>2. Len(l) \in Nat
  BY DEF Filled
<1>3. \A i \in 1 .. Len(l) + 1 : i = Len(l) + 1 \/ i \in 1 .. Len(l)
  BY <1>2
<1> QED
  BY <1>1, <1>3 DEF Filled

LEMMA KeptTypes ==
    ASSUME ListTypes
    PROVE  Filled(Kept) /\ KeptNum \in 0 .. NumMod - 1
<1>1. Filled(list) /\ num \in 0 .. NumMod - 1
  BY DEF ListTypes, Filled
<1>2. CASE Evict
  BY <1>1, <1>2, TailFilled, Arithmetic DEF Evict, Kept, KeptNum
<1>3. CASE ~Evict
  BY <1>1, <1>3 DEF Kept, KeptNum
<1> QED
  BY <1>2, <1>3

LEMMA ReadTypes ==
    ASSUME ListTypes, ReadFirst, overlapped' \in BOOLEAN
    PROVE  ListTypes'
<1>1. Filled(list) /\ list # <<>>
  BY DEF ListTypes, Filled, ReadFirst
<1>2. Filled(list') /\ got' = list[1][1].n /\ list[1][1] \in Frame
  BY <1>1, TailFilled DEF ReadFirst
<1>3. got' \in 0 .. MaxFrames
  BY <1>2, ChipAssumption DEF Frame
<1>4. num' \in 0 .. NumMod - 1
  BY Arithmetic DEF ReadFirst, ListTypes
<1> QED
  BY <1>2, <1>3, <1>4 DEF ListTypes, ReadFirst, Filled

LEMMA StoreKeepsTypes ==
    ASSUME TypeInv, Store \/ Indicate
    PROVE  TypeInv'
<1>0. ChipTypeOK /\ PcOK /\ ListTypes /\ RestTypes
  BY TypeParts
<1>1. CASE Store
  <2>1. PcOK'
    <3>1. \E l \in {"indicate", "leave"} : Goto("erx", l)
      BY <1>1 DEF Store
    <3> QED
      BY <1>0, <3>1, GotoKeeps DEF Places, ErxPlaces
  <2>2. Filled(Kept) /\ KeptNum \in 0 .. NumMod - 1
    BY <1>0, KeptTypes
  <2>3. overlapped' \in BOOLEAN
    BY <1>0, <1>1 DEF Store, ListTypes
  <2>4. ListTypes'
    <3>1. CASE ForLinkLayer /\ list' = Put(pbuf) /\ num' = Inc(KeptNum)
               /\ stored' = Append(stored, pbuf[1].n)
      <4>1. pbuf \in Entry /\ pbuf # <<>> /\ pbuf \in Seq(Frame)
        BY <1>0, <3>1 DEF RestTypes, ForLinkLayer, Entry
      <4>2. Filled(list')
        BY <2>2, <3>1, <4>1, AppendFilled DEF Put
      <4>3. pbuf[1] \in Frame
        BY <4>1, FirstOut
      <4>4. stored' \in Seq(1 .. MaxFrames)
        BY <1>0, <3>1, <4>3, LastIn DEF ListTypes, Frame
      <4>5. num' \in 0 .. NumMod - 1
        BY <2>2, <3>1, Arithmetic
      <4> QED
        BY <1>0, <1>1, <2>3, <4>2, <4>4, <4>5 DEF ListTypes, Filled, Store
    <3>2. CASE list' = Kept /\ num' = KeptNum /\ UNCHANGED stored
      BY <1>0, <1>1, <2>2, <2>3, <3>2 DEF ListTypes, Filled, Store
    <3>3. CASE UNCHANGED <<list, num, stored, overlapped>>
      BY <1>0, <1>1, <3>3 DEF ListTypes, Store
    <3> QED
      BY <1>1, <3>1, <3>2, <3>3 DEF Store
  <2>5. ChipTypeOK' /\ RestTypes'
    BY <1>0, <1>1, Same DEF Store, RestTypes, irq, dev, clear
  <2> QED
    BY <2>1, <2>4, <2>5, TypeParts
<1>2. CASE Indicate
  <2>1. PcOK'
    BY <1>0, <1>2, GotoKeeps DEF Indicate, Places, ErxPlaces
  <2>2. ListTypes'
    <3>1. CASE ReadFirst /\ overlapped' = (overlapped \/ Clearing)
      <4>1. overlapped' \in BOOLEAN
        BY <1>0, <3>1 DEF ListTypes
      <4> QED
        BY <1>0, <3>1, <4>1, ReadTypes
    <3>2. CASE UNCHANGED rxList
      BY <1>0, <3>2, Same
    <3> QED
      BY <1>2, <3>1, <3>2 DEF Indicate
  <2>3. ChipTypeOK' /\ RestTypes'
    BY <1>0, <1>2, Same DEF Indicate, RestTypes, irq, dev, clear
  <2> QED
    BY <2>1, <2>2, <2>3, TypeParts
<1> QED
  BY <1>1, <1>2

\* An open that is still clearing has a reference left to take.
OpenOK == opening => Clearing /\ refs < MaxOpens

LEMMA AppGoto ==
    ASSUME PcOK, NEW l \in AppPlaces, Goto("app", l)
    PROVE  PcOK' /\ pc'["app"] = l /\ pc'["erx"] = pc["erx"]
BY GotoKeeps DEF Places

LEMMA ApplicationKeepsTypes ==
    ASSUME TypeInv, OpenOK, Application
    PROVE  TypeInv'
<1>0. ChipTypeOK /\ PcOK /\ ListTypes /\ RestTypes
  BY TypeParts
<1> USE DEF AppPlaces, SendPlaces
<1>1. ASSUME NEW op \in BOOLEAN, StartClear(op)
      PROVE  PcOK' /\ ListTypes' /\ seen' \in Seq(Entry) /\ opening' \in BOOLEAN
  <2>1. PcOK'
    BY <1>0, <1>1, AppGoto, Same DEF StartClear
  <2>2. ListTypes'
    BY <1>0, <1>1, Same DEF StartClear
  <2>3. seen' \in Seq(Entry) /\ opening' \in BOOLEAN
    BY <1>0, <1>1 DEF StartClear, ListTypes
  <2> QED
    BY <2>1, <2>2, <2>3
<1>2. CASE Open
  <2>1. PcOK' /\ ListTypes' /\ seen' \in Seq(Entry) /\ opening' \in BOOLEAN
    BY <1>1, <1>2 DEF Open
  <2>2. refs' \in 0 .. MaxOpens
    BY <1>0, <1>2, LinkAssumption DEF Open, RestTypes
  <2>3. count' = count
    BY <1>2 DEF Open, StartClear
  <2>4. ChipTypeOK' /\ RestTypes'
    BY <1>0, <1>2, <2>1, <2>2, <2>3, Same DEF Open, RestTypes, irq
  <2> QED
    BY <2>1, <2>4, TypeParts
<1>3. CASE Close
  <2>1. PcOK' /\ ListTypes' /\ seen' \in Seq(Entry) /\ opening' \in BOOLEAN
    BY <1>1, <1>3 DEF Close
  <2>2. refs' \in 0 .. MaxOpens
    BY <1>0, <1>3, LinkAssumption DEF Close, RestTypes
  <2>3. count' = count
    BY <1>3 DEF Close, StartClear
  <2>4. ChipTypeOK'
    BY <1>0, <1>3 DEF Close, ChipTypeOK, chip, mbox
  <2>5. RestTypes'
    BY <1>0, <1>3, <2>1, <2>2, <2>3 DEF Close, RestTypes, irq
  <2> QED
    BY <2>1, <2>4, <2>5, TypeParts
<1>4. CASE Unref
  <2>1. refs' \in 0 .. MaxOpens
    BY <1>0, <1>4, LinkAssumption DEF Unref, RestTypes
  <2>2. ChipTypeOK' /\ PcOK' /\ ListTypes'
    BY <1>0, <1>4, Same DEF Unref, threads
  <2>3. RestTypes'
    BY <1>0, <1>4, <2>1 DEF Unref, RestTypes, threads, irq, clear
  <2> QED
    BY <2>2, <2>3, TypeParts
<1>5. CASE ClearFree
  <2>1. PcOK'
    BY <1>0, <1>5, AppGoto DEF ClearFree
  <2>2. Filled(list') /\ broken' \in BOOLEAN
    BY <1>0, <1>5, TailFilled DEF ClearFree, ListTypes, Filled
  <2>3. ListTypes'
    BY <1>0, <1>5, <2>2 DEF ClearFree, ListTypes, Filled
  <2>4. seen' \in Seq(Entry)
    BY <1>5, NoneIn DEF ClearFree
  <2>5. ChipTypeOK' /\ RestTypes'
    BY <1>0, <1>5, <2>2, <2>4, Same DEF ClearFree, RestTypes, irq, dev
  <2> QED
    BY <2>1, <2>3, <2>5, TypeParts
<1>6. CASE ClearLoad
  <2>1. PcOK'
    BY <1>0, <1>6, AppGoto DEF ClearLoad
  <2>2. ChipTypeOK' /\ ListTypes'
    BY <1>0, <1>6, Same DEF ClearLoad
  <2>3. RestTypes'
    BY <1>0, <1>6 DEF ClearLoad, RestTypes, ListTypes, irq, dev
  <2> QED
    BY <2>1, <2>2, <2>3, TypeParts
<1>7. CASE ClearStore
  <2>1. PcOK'
    BY <1>0, <1>7, AppGoto DEF ClearStore
  <2>2. num' \in 0 .. NumMod - 1 /\ 0 \in 0 .. NumMod - 1
    BY <1>0, <1>7, Arithmetic, LinkAssumption DEF ClearStore, RestTypes
  <2>3. refs' \in 0 .. MaxOpens
    BY <1>0, <1>7, LinkAssumption DEF ClearStore, RestTypes, OpenOK
  <2>4. ListTypes'
    BY <1>0, <1>7, <2>2 DEF ClearStore, ListTypes
  <2>5. ChipTypeOK' /\ RestTypes'
    BY <1>0, <1>7, <2>2, <2>3, Same DEF ClearStore, RestTypes, irq
  <2> QED
    BY <2>1, <2>4, <2>5, TypeParts
<1>8. CASE SetIndicate
  <2>1. ChipTypeOK' /\ PcOK' /\ ListTypes'
    BY <1>0, <1>8, Same DEF SetIndicate, threads
  <2>2. RestTypes'
    BY <1>0, <1>8 DEF SetIndicate, RestTypes, threads, irq, clear
  <2> QED
    BY <2>1, <2>2, TypeParts
<1>9. CASE Read
  <2>1. ListTypes'
    <3>1. CASE ReadFirst /\ UNCHANGED <<broken, overlapped>>
      <4>1. overlapped' \in BOOLEAN
        BY <1>0, <3>1 DEF ListTypes
      <4> QED
        BY <1>0, <3>1, <4>1, ReadTypes
    <3>2. CASE UNCHANGED rxList
      BY <1>0, <3>2, Same
    <3> QED
      BY <1>9, <3>1, <3>2 DEF Read
  <2>2. ChipTypeOK' /\ PcOK'
    BY <1>0, <1>9, Same DEF Read
  <2>3. RestTypes'
    BY <1>0, <1>9 DEF Read, RestTypes, irq, dev, clear
  <2> QED
    BY <2>1, <2>2, <2>3, TypeParts
<1> QED
  BY <1>2, <1>3, <1>4, <1>5, <1>6, <1>7, <1>8, <1>9 DEF Application

LEMMA ApplicationKeepsOpen ==
    ASSUME PcOK, OpenOK, Application
    PROVE  OpenOK'
<1> USE DEF AppPlaces, SendPlaces
<1>0. ASSUME NEW l \in {"free", "load", "store"}, Goto("app", l) PROVE Clearing'
  BY <1>0, AppGoto DEF Clearing
<1>1. CASE Open
  BY <1>0, <1>1 DEF Open, StartClear, OpenOK
<1>2. CASE Close
  BY <1>2 DEF Close, StartClear, OpenOK
<1>3. CASE Unref \/ SetIndicate \/ Read
  <2>1. /\ opening' = opening /\ pc' = pc /\ (refs' = refs \/ pc["app"] = "idle")
    BY <1>3 DEF Unref, SetIndicate, Read, threads, clear, dev, At
  <2> QED
    BY <2>1 DEF OpenOK, Clearing
<1>4. CASE ClearFree \/ ClearLoad
  BY <1>0, <1>4 DEF ClearFree, ClearLoad, OpenOK, dev
<1>5. CASE ClearStore
  BY <1>5 DEF ClearStore, OpenOK
<1> QED
  BY <1>1, <1>2, <1>3, <1>4, <1>5 DEF Application

LEMMA SendKeepsTypes ==
    ASSUME TypeInv, NEW t \in Senders, Send(t)
    PROVE  TypeInv'
<1>0. ChipTypeOK /\ PcOK /\ ListTypes /\ RestTypes /\ t \in {"app", "etx"}
  BY TypeParts, LinkAssumption
<1>1. \A l \in SendPlaces : Goto(t, l) => PcOK'
  BY <1>0, GotoKeeps DEF Places, AppPlaces
<1>2. PcOK'
  BY <1>1 DEF Send, StartSend, EnterTx, Transmit, SendPlaces
<1>3. ListTypes'
  BY <1>0, Same DEF Send, StartSend, EnterTx, Transmit
<1>4. ChipTypeOK'
  <2>1. CASE Transmit(t)
    BY <1>0, <2>1 DEF Transmit, ChipTypeOK, mbox, world
  <2>2. CASE StartSend(t) \/ EnterTx(t)
    BY <1>0, <2>2, Same DEF StartSend, EnterTx
  <2> QED
    BY <2>1, <2>2 DEF Send
<1>5. RestTypes'
  <2>1. CASE StartSend(t)
    BY <1>0, <2>1 DEF StartSend, RestTypes, irq, dev, clear
  <2>2. CASE EnterTx(t) \/ Transmit(t)
    <3>1. holder' \in {"free", "gone", "erx", "app", "etx"} /\ broken' \in BOOLEAN
      BY <1>0, <2>2, MutexTypes DEF EnterTx, Transmit
    <3> QED
      BY <1>0, <2>2, <3>1 DEF EnterTx, Transmit, RestTypes, irq, dev, clear
  <2> QED
    BY <2>1, <2>2 DEF Send
<1> QED
  BY <1>2, <1>3, <1>4, <1>5, TypeParts

\* Neither the chip nor the other threads take part in a clear.
ChipStep == Chip /\ ~broken /\ UNCHANGED <<threads, irq, rxList, dev, clear>>

LEMMA ReceiveDoesNotClear ==
    ASSUME PcOK, EthRx
    PROVE  UNCHANGED <<dev, clear>> /\ pc'["app"] = pc["app"]
<1>1. \A l \in ErxPlaces : Goto("erx", l) => pc'["app"] = pc["app"]
  BY GotoKeeps DEF Places
<1>2. pc'["app"] = pc["app"]
  BY <1>1
     DEF EthRx, GetMail, ClearNotice, EnterRx, ReadStatus, Ack, ClearBits, Rcv, LinkStatus,
         StopRx, FlushRx, StartRx, ClearPsi, Store, Indicate, LeaveRx, ErxPlaces, threads
<1>3. UNCHANGED <<dev, clear>>
  BY DEF EthRx, GetMail, ClearNotice, EnterRx, ReadStatus, Ack, ClearBits, Rcv, LinkStatus,
         StopRx, FlushRx, StartRx, ClearPsi, Store, Indicate, LeaveRx
<1> QED
  BY <1>2, <1>3

LEMMA OthersDoNotClear ==
    ASSUME PcOK, ChipStep \/ EthRx \/ \E t \in Senders : Send(t)
    PROVE  /\ UNCHANGED <<dev, clear>>
           /\ \/ pc'["app"] = pc["app"]
              \/ {pc["app"], pc'["app"]} \subseteq SendPlaces
<1>1. CASE ChipStep
  BY <1>1 DEF ChipStep, threads
<1>2. CASE EthRx
  BY <1>2, ReceiveDoesNotClear
<1>3. ASSUME NEW t \in Senders, Send(t)
      PROVE  /\ UNCHANGED <<dev, clear>>
             /\ \/ pc'["app"] = pc["app"]
                \/ {pc["app"], pc'["app"]} \subseteq SendPlaces
  <2>1. t \in {"app", "etx"}
    BY LinkAssumption
  <2>2. UNCHANGED <<dev, clear>>
    BY <1>3 DEF Send, StartSend, EnterTx, Transmit
  <2>3. \E l \in SendPlaces : Goto(t, l) /\ pc[t] \in SendPlaces
    BY <1>3 DEF Send, StartSend, EnterTx, Transmit, SendPlaces, At
  <2>4. pc'[t] \in SendPlaces /\ (t # "app" => pc'["app"] = pc["app"])
    BY <2>1, <2>3, GotoKeeps DEF Places, AppPlaces
  <2> QED
    BY <2>2, <2>3, <2>4
<1> QED
  BY <1>1, <1>2, <1>3

LEMMA TypeInit == Init => TypeInv /\ OpenOK
<1> SUFFICES ASSUME Init PROVE TypeInv /\ OpenOK
  OBVIOUS
<1> USE ChipAssumption, LinkAssumption
<1>1. /\ qmu \in Seq(Frame) /\ Len(qmu) = 0 /\ pbuf \in Entry
      /\ list \in Seq(Entry) /\ Len(list) = 0 /\ seen \in Seq(Entry)
      /\ stored \in Seq(1 .. MaxFrames)
  BY NoneIn DEF Init, ChipInit, Entry
<1>2. ChipTypeOK
  <2>1. /\ isr \subseteq Irq /\ {rxe, room, attached, rx_notice, overrun} \subseteq BOOLEAN
        /\ mails = 0 /\ arrived = 0 /\ links = 0
    BY DEF Init, ChipInit
  <2> QED
    BY <1>1, <2>1 DEF ChipTypeOK
<1>3. PcOK
  BY DEF Init, PcOK, Places, ErxPlaces, AppPlaces, SendPlaces
<1>4. ListTypes
  <2>1. num = 0 /\ got = 0 /\ overlapped \in BOOLEAN
    BY DEF Init
  <2> QED
    BY <1>1, <2>1 DEF ListTypes
<1>5. RestTypes
  <2>1. /\ holder = "free" /\ {broken, opening, indicate} \subseteq BOOLEAN
        /\ status \subseteq Irq /\ nopbuf = 0 /\ count = 0 /\ refs = 0
    BY DEF Init
  <2> QED
    BY <1>1, <2>1 DEF RestTypes
<1> QED
  BY <1>2, <1>3, <1>4, <1>5, TypeParts DEF Init, OpenOK

LEMMA TypeNext == TypeInv /\ OpenOK /\ [Next]_vars => (TypeInv /\ OpenOK)'
<1> SUFFICES ASSUME TypeInv, OpenOK, [Next]_vars PROVE TypeInv' /\ OpenOK'
  OBVIOUS
<1>0. ChipTypeOK /\ PcOK /\ ListTypes /\ RestTypes
  BY TypeParts
<1>1. CASE ChipStep
  <2>1. ChipTypeOK' /\ PcOK' /\ ListTypes'
    BY <1>0, <1>1, ChipKeepsTypes, Same DEF ChipStep, threads
  <2>2. RestTypes'
    BY <1>0, <1>1 DEF ChipStep, RestTypes, threads, irq, dev, clear
  <2> QED
    BY <1>1, <2>1, <2>2, TypeParts DEF ChipStep, OpenOK, Clearing, threads, dev, clear
<1>2. CASE EthRx \/ \E t \in Senders : Send(t)
  <2>1. TypeInv'
    BY <1>2, ReceiveKeepsTypes, StoreKeepsTypes, SendKeepsTypes DEF EthRx
  <2>2. OpenOK'
    BY <1>0, <1>2, OthersDoNotClear DEF OpenOK, Clearing, SendPlaces, dev, clear
  <2> QED
    BY <2>1, <2>2
<1>3. CASE Application
  BY <1>0, <1>3, ApplicationKeepsTypes, ApplicationKeepsOpen
<1>4. CASE UNCHANGED vars
  BY <1>0, <1>4, Same, TypeParts
     DEF vars, threads, irq, dev, clear, RestTypes, OpenOK, Clearing
<1> QED
  BY <1>1, <1>2, <1>3, <1>4 DEF Next, ChipStep

(***************************************************************************)
(* Every variable of the port keeps its type: the counter its width, the   *)
(* list its frames, the reference count its bound.                         *)
(***************************************************************************)
THEOREM PortTypeOK == Spec => []TypeOK
<1>1. TypeInv /\ OpenOK => TypeOK
  BY DEF TypeInv
<1> QED
  BY <1>1, TypeInit, TypeNext, PTL DEF Spec
---------------------------------------------------------------------------
(***************************************************************************)
(* The counter.  An entry that is being cleared leaves the list first and  *)
(* the counter later; what erx does to the list meanwhile is overlapped.   *)
(***************************************************************************)
CountOK ==
    ~overlapped =>
      /\ num = Len(list) + (IF pc["app"] \in {"load", "store"} THEN 1 ELSE 0)
      /\ num <= RxBufNum
      /\ pc["app"] = "store" => count = num

LEMMA CountStays ==
    ASSUME CountOK, UNCHANGED <<list, num, overlapped, count>>,
           \/ pc'["app"] = pc["app"]
           \/ {pc["app"], pc'["app"]} \subseteq SendPlaces \cup {"free"}
    PROVE  CountOK'
BY DEF CountOK, SendPlaces

LEMMA KeptCount ==
    ASSUME TypeInv, CountOK, ~overlapped, ~Clearing
    PROVE  KeptNum = Len(Kept) /\ Len(Kept) < RxBufNum
<1>1. /\ list \in Seq(Entry) /\ num \in 0 .. NumMod - 1 /\ num = Len(list)
      /\ num <= RxBufNum /\ RxBufNum \in Nat \ {0} /\ Len(list) \in Nat
  BY LinkAssumption DEF TypeInv, TypeOK, CountOK, Clearing
<1>2. CASE Evict
  <2>1. Len(Tail(list)) = Len(list) - 1 /\ num > 0
    BY <1>1, <1>2, FirstOut DEF Evict
  <2>2. Dec(num) = num - 1
    BY <1>1, <2>1, Arithmetic
  <2> QED
    BY <1>1, <1>2, <2>1, <2>2 DEF Kept, KeptNum
<1>3. CASE ~Evict
  <2>1. num # RxBufNum
    <3> SUFFICES ASSUME num = RxBufNum PROVE FALSE
      OBVIOUS
    <3>1. list = <<>>
      BY <1>1, <1>3 DEF Evict, Full
    <3> QED
      BY <1>1, <3>1, NoneIn
  <2> QED
    BY <1>1, <1>3, <2>1 DEF Kept, KeptNum
<1> QED
  BY <1>2, <1>3

LEMMA ReadCount ==
    ASSUME TypeInv, CountOK, ReadFirst, ~overlapped => ~Clearing \/ overlapped',
           UNCHANGED <<count>>, pc'["app"] = pc["app"], overlapped => overlapped'
    PROVE  CountOK'
<1> SUFFICES ASSUME ~overlapped, ~Clearing PROVE CountOK'
  BY DEF CountOK
<1>1. /\ list \in Seq(Entry) /\ list # <<>> /\ num \in 0 .. NumMod - 1 /\ num = Len(list)
      /\ num <= RxBufNum /\ RxBufNum \in Nat
  BY LinkAssumption DEF TypeInv, TypeOK, CountOK, Clearing, ReadFirst
<1>2. Len(Tail(list)) = Len(list) - 1 /\ Len(list) \in Nat \ {0}
  BY <1>1, FirstOut
<1>3. num' = num - 1 /\ list' = Tail(list)
  BY <1>1, <1>2, Arithmetic DEF ReadFirst
<1> QED
  BY <1>1, <1>2, <1>3 DEF CountOK, Clearing

LEMMA StoreCount ==
    ASSUME TypeInv, CountOK, Store, ~broken
    PROVE  CountOK'
<1>1. pc'["app"] = pc["app"] /\ count' = count
  <2>1. PcOK
    BY TypeParts
  <2> QED
    BY <2>1, ReceiveDoesNotClear DEF EthRx, clear
<1>2. CASE UNCHANGED <<list, num, overlapped>>
  BY <1>1, <1>2, CountStays
<1>3. CASE overlapped \/ Clearing
  <2>1. CASE ForLinkLayer /\ overlapped' = (overlapped \/ Clearing)
    BY <1>3, <2>1 DEF CountOK
  <2>2. CASE list' = Kept /\ num' = KeptNum /\ overlapped' = (overlapped \/ (Clearing /\ Evict))
    <3>1. CASE Evict
      BY <1>3, <2>2, <3>1 DEF CountOK
    <3>2. CASE ~Evict
      BY <1>1, <2>2, <3>2, CountStays DEF Kept, KeptNum, CountOK
    <3> QED
      BY <3>1, <3>2
  <2> QED
    BY <1>2, <2>1, <2>2 DEF Store
<1>4. CASE ~overlapped /\ ~Clearing
  <2>1. KeptNum = Len(Kept) /\ Len(Kept) < RxBufNum /\ Kept \in Seq(Entry)
        /\ KeptNum \in 0 .. NumMod - 1 /\ RxBufNum \in Nat
    BY <1>4, KeptCount, KeptTypes, TypeParts, LinkAssumption DEF Filled
  <2>2. CASE ForLinkLayer /\ list' = Put(pbuf) /\ num' = Inc(KeptNum)
    <3>1. Len(list') = Len(Kept) + 1
      BY <2>1, <2>2, TypeParts, LastIn DEF Put, RestTypes
    <3>2. num' = KeptNum + 1
      BY <2>1, <2>2, Arithmetic
    <3> QED
      BY <1>1, <1>4, <2>1, <3>1, <3>2 DEF CountOK, Clearing
  <2>3. CASE list' = Kept /\ num' = KeptNum
    BY <1>1, <1>4, <2>1, <2>3 DEF CountOK, Clearing
  <2> QED
    BY <1>2, <2>2, <2>3 DEF Store
<1> QED
  BY <1>3, <1>4

LEMMA CountNext ==
    ASSUME TypeInv, CountOK, Next, ~broken'
    PROVE  CountOK'
<1>0. PcOK /\ ListTypes /\ RestTypes
  BY TypeParts
<1>1. CASE ChipStep \/ \E t \in Senders : Send(t)
  <2>1. UNCHANGED <<list, num, overlapped, count>>
    BY <1>0, <1>1, OthersDoNotClear
       DEF ChipStep, rxList, clear, Send, StartSend, EnterTx, Transmit
  <2>2. \/ pc'["app"] = pc["app"]
        \/ {pc["app"], pc'["app"]} \subseteq SendPlaces
    BY <1>0, <1>1, OthersDoNotClear
  <2> QED
    BY <2>1, <2>2, CountStays
<1>2. CASE EthRx
  <2>1. pc'["app"] = pc["app"] /\ count' = count
    BY <1>0, <1>2, ReceiveDoesNotClear DEF clear
  <2>2. CASE Store
    BY <2>2, StoreCount DEF Store, At
  <2>3. CASE Indicate
    <3>1. CASE ReadFirst /\ overlapped' = (overlapped \/ Clearing)
      BY <2>1, <3>1, ReadCount
    <3>2. CASE UNCHANGED rxList
      BY <2>1, <3>2, CountStays DEF rxList
    <3> QED
      BY <2>3, <3>1, <3>2 DEF Indicate
  <2>4. CASE UNCHANGED rxList
    BY <2>1, <2>4, CountStays DEF rxList
  <2> QED
    BY <1>2, <2>2, <2>3, <2>4
       DEF EthRx, GetMail, ClearNotice, EnterRx, ReadStatus, Ack, ClearBits, Rcv, LinkStatus,
           StopRx, FlushRx, StartRx, ClearPsi, LeaveRx
<1>3. CASE Open \/ Close
  <2>1. UNCHANGED <<list, num, overlapped, count>>
    BY <1>3 DEF Open, Close, StartClear, rxList
  <2>2. pc["app"] = "idle" /\ (pc' = pc \/ Goto("app", "free"))
    BY <1>3 DEF Open, Close, StartClear, At
  <2>3. pc'["app"] \in {"idle", "free"}
    BY <1>0, <2>2, AppGoto DEF AppPlaces
  <2> QED
    BY <2>1, <2>2, <2>3, CountStays DEF SendPlaces
<1>4. CASE Unref \/ SetIndicate
  BY <1>4, CountStays DEF Unref, SetIndicate, rxList, threads, clear
<1>5. CASE ClearFree
  <2>1. pc["app"] = "free" /\ pc'["app"] = "load" /\ UNCHANGED <<num, overlapped>>
    BY <1>0, <1>5, AppGoto DEF ClearFree, At, AppPlaces
  <2>2. list \in Seq(Entry) /\ list # <<>> /\ list' = Tail(list)
    BY <1>0, <1>5 DEF ClearFree, ListTypes
  <2>3. Len(list') = Len(list) - 1 /\ Len(list) \in Nat
    BY <2>2, FirstOut
  <2> QED
    BY <2>1, <2>3 DEF CountOK
<1>6. CASE ClearLoad
  <2>1. pc["app"] = "load" /\ pc'["app"] = "store" /\ count' = num /\ UNCHANGED rxList
    BY <1>0, <1>6, AppGoto DEF ClearLoad, At, AppPlaces
  <2> QED
    BY <2>1 DEF CountOK, rxList
<1>7. CASE ClearStore
  <2>1. pc["app"] = "store" /\ pc'["app"] = "idle" /\ num' = Dec(count)
        /\ UNCHANGED <<list, overlapped>>
    BY <1>0, <1>7, AppGoto DEF ClearStore, At, AppPlaces, SendPlaces
  <2>2. ~overlapped => count = Len(list) + 1 /\ count <= RxBufNum
    BY <2>1 DEF CountOK
  <2>3. Len(list) \in Nat /\ count \in 0 .. NumMod - 1 /\ RxBufNum \in Nat
    BY <1>0, LinkAssumption DEF ListTypes, RestTypes
  <2>4. count > 0 => Dec(count) = count - 1
    BY <2>3, Arithmetic
  <2>5. ~overlapped => num' = Len(list) /\ num' <= RxBufNum
    BY <2>1, <2>2, <2>3, <2>4
  <2> QED
    BY <2>1, <2>5 DEF CountOK
<1>8. CASE Read
  <2>1. pc' = pc /\ count' = count /\ pc["app"] = "idle"
    BY <1>8 DEF Read, clear, At
  <2>2. CASE ReadFirst /\ UNCHANGED <<broken, overlapped>>
    BY <2>1, <2>2, ReadCount DEF Clearing
  <2>3. CASE UNCHANGED rxList
    BY <2>1, <2>3, CountStays DEF rxList
  <2> QED
    BY <1>8, <2>2, <2>3 DEF Read
<1> QED
  BY <1>1, <1>2, <1>3, <1>4, <1>5, <1>6, <1>7, <1>8 DEF Next, ChipStep, Application

\* Once something is broken nothing is modelled any more.
LEMMA BrokenStays ==
    ASSUME Next PROVE ~broken
BY DEF Next, EthRx, GetMail, ClearNotice, EnterRx, ReadStatus, Ack, ClearBits, Rcv, LinkStatus,
       StopRx, FlushRx, StartRx, ClearPsi, Store, Indicate, LeaveRx, Application, Open, Close,
       Unref, ClearFree, ClearLoad, ClearStore, SetIndicate, Read, Send, StartSend, EnterTx,
       Transmit, At

CountInv == TypeInv /\ OpenOK /\ (~broken => CountOK)

LEMMA CountInvInductive ==
    /\ Init => CountInv
    /\ CountInv /\ [Next]_vars => CountInv'
<1>1. Init => CountInv
  <2> SUFFICES ASSUME Init PROVE CountOK
    BY TypeInit DEF CountInv
  <2>1. num = 0 /\ Len(list) = 0 /\ pc["app"] = "idle" /\ RxBufNum \in Nat
    BY NoneIn, LinkAssumption DEF Init
  <2> QED
    BY <2>1 DEF CountOK
<1>2. ASSUME CountInv, [Next]_vars PROVE CountInv'
  <2>1. TypeInv' /\ OpenOK'
    BY <1>2, TypeNext DEF CountInv
  <2>2. ASSUME Next, ~broken' PROVE CountOK'
    BY <1>2, <2>2, BrokenStays, CountNext DEF CountInv
  <2>3. ASSUME UNCHANGED vars, ~broken' PROVE CountOK'
    BY <1>2, <2>3, CountStays DEF CountInv, vars, threads, rxList, clear
  <2> QED
    BY <1>2, <2>1, <2>2, <2>3 DEF CountInv
<1> QED
  BY <1>1, <1>2

(***************************************************************************)
(* rx_lep_buf_num counts the list and keeps to its limit, for every limit, *)
(* however receiving, evicting, reading, opening and closing interleave,   *)
(* as long as a clear without eth_mux is not overlapped.                   *)
(***************************************************************************)
THEOREM CounterIsRight == Spec => []CountIsLength
<1>1. CountInv => CountIsLength
  BY DEF CountInv, CountOK, CountIsLength, Clearing
<1> QED
  BY <1>1, CountInvInductive, PTL DEF Spec
---------------------------------------------------------------------------
(***************************************************************************)
(* The order.  Frames go from the chip to the pbuf and from the pbuf to    *)
(* the list: what is further on arrived earlier.  The list is the end of   *)
(* what was stored, and the reader has had nothing that is still in it.    *)
(***************************************************************************)
Pending == IF pc["erx"] \in {"indicate", "leave"} THEN <<>> ELSE pbuf

Ahead(k) ==
    /\ k <= arrived
    /\ \A i \in 1 .. Len(Pending) : k < Pending[i].n
    /\ \A i \in 1 .. Len(qmu) : k < qmu[i].n

ChipOrder ==
    /\ \A i \in 1 .. Len(qmu) : qmu[i].n <= arrived
    /\ \A i \in 1 .. Len(Pending) :
         /\ Pending[i].n <= arrived
         /\ \A j \in 1 .. Len(qmu) : Pending[i].n < qmu[j].n
    /\ \A i \in 1 .. Len(stored) : Ahead(stored[i])
    /\ Ahead(got)

\* The list l is the end of what was stored, s, and all of it is newer than g.
EndOf(l, s, g) ==
    /\ Len(l) <= Len(s)
    /\ \A i \in 1 .. Len(l) : l[i][1].n = s[Len(s) - Len(l) + i]
    /\ \A i, j \in 1 .. Len(s) : i < j => s[i] < s[j]
    /\ \A i \in 1 .. Len(l) : g < l[i][1].n

\* The numbers that are compared.
LEMMA Numbers ==
    ASSUME TypeInv
    PROVE  /\ qmu \in Seq(Frame) /\ Pending \in Seq(Frame)
           /\ \A i \in 1 .. Len(qmu) : qmu[i].n \in Nat
           /\ \A i \in 1 .. Len(Pending) : Pending[i].n \in Nat
           /\ stored \in Seq(Nat) /\ \A i \in 1 .. Len(stored) : stored[i] \in Nat
           /\ list \in Seq(Entry) /\ \A i \in 1 .. Len(list) : list[i][1].n \in Nat
           /\ arrived \in Nat /\ got \in Nat
<1>1. qmu \in Seq(Frame) /\ pbuf \in Seq(Frame) /\ list \in Seq(Entry)
      /\ stored \in Seq(1 .. MaxFrames) /\ arrived \in Nat /\ got \in Nat
      /\ \A i \in 1 .. Len(list) : list[i] # <<>>
  BY ChipAssumption DEF TypeInv, TypeOK, ChipTypeOK, Entry
<1>2. Pending \in Seq(Frame)
  BY <1>1, NoneIn DEF Pending
<1>3. \A f \in Frame : f.n \in Nat
  BY ChipAssumption DEF Frame
<1>4. ASSUME NEW i \in 1 .. Len(list) PROVE list[i][1].n \in Nat
  <2>1. list[i] \in Seq(Frame) /\ list[i] # <<>>
    BY <1>1, <1>4 DEF Entry
  <2>2. list[i][1] \in Frame
    BY <2>1, FirstOut
  <2> QED
    BY <1>3, <2>2
<1>5. \A i \in 1 .. Len(stored) : stored[i] \in Nat
  BY <1>1, ChipAssumption
<1>6. stored \in Seq(Nat)
  BY <1>1, ChipAssumption
<1>7. \A i \in 1 .. Len(qmu) : qmu[i].n \in Nat
  BY <1>1, <1>3
<1>8. \A i \in 1 .. Len(Pending) : Pending[i].n \in Nat
  BY <1>2, <1>3
<1> QED
  BY <1>1, <1>2, <1>4, <1>5, <1>6, <1>7, <1>8

\* Frames are lost or stay where they are.
LEMMA OrderStays ==
    ASSUME ChipOrder, UNCHANGED <<arrived, stored, got>>,
           qmu' = qmu \/ Len(qmu') = 0, Pending' = Pending \/ Len(Pending') = 0
    PROVE  ChipOrder'
BY DEF ChipOrder, Ahead

\* The pbuf gets the frames of the queue.
LEMMA OrderTaken ==
    ASSUME ChipOrder, UNCHANGED <<arrived, stored, got>>, Len(qmu') = 0, Pending' = qmu
    PROVE  ChipOrder'
BY DEF ChipOrder, Ahead

LEMMA OrderArrives ==
    ASSUME TypeInv, ChipOrder, UNCHANGED <<stored, got>>, Pending' = Pending,
           NEW kind \in Kind, FrameArrives(kind)
    PROVE  ChipOrder'
<1>1. \A k \in Nat : k <= arrived => k <= arrived' /\ k < arrived + 1
  BY Numbers DEF FrameArrives
<1>2. CASE qmu' = qmu
  BY <1>1, <1>2, Numbers DEF ChipOrder, Ahead
<1>3. CASE qmu' = Append(qmu, [n |-> arrived + 1, kind |-> kind])
  <2>1. [n |-> arrived + 1, kind |-> kind] \in Frame
    BY ChipAssumption DEF FrameArrives, Frame, TypeInv, TypeOK, ChipTypeOK
  <2>2. /\ Len(qmu') = Len(qmu) + 1 /\ qmu'[Len(qmu) + 1].n = arrived + 1
        /\ \A i \in 1 .. Len(qmu) : qmu'[i] = qmu[i]
    BY <1>3, <2>1, Numbers, LastIn
  <2>3. \A i \in 1 .. Len(qmu') : i \in 1 .. Len(qmu) \/ qmu'[i].n = arrived + 1
    <3>1. Len(qmu) \in Nat
      BY Numbers
    <3> QED
      BY <2>2, <3>1
  <2>4. ASSUME NEW k \in Nat, Ahead(k) PROVE Ahead(k)'
    BY <1>1, <2>2, <2>3, <2>4 DEF Ahead
  <2>5. \A i \in 1 .. Len(qmu') : qmu'[i].n <= arrived'
    <3> SUFFICES ASSUME NEW i \in 1 .. Len(qmu') PROVE qmu'[i].n <= arrived'
      OBVIOUS
    <3>1. arrived \in Nat /\ arrived' = arrived + 1
      BY Numbers DEF FrameArrives
    <3>2. CASE i \in 1 .. Len(qmu)
      BY <1>1, <2>2, <3>1, <3>2, Numbers DEF ChipOrder
    <3>3. CASE qmu'[i].n = arrived + 1
      BY <3>1, <3>3
    <3> QED
      BY <2>3, <3>2, <3>3
  <2>6. \A i \in 1 .. Len(Pending) : \A j \in 1 .. Len(qmu') :
          Pending[i].n <= arrived' /\ Pending[i].n < qmu'[j].n
    BY <1>1, <2>2, <2>3, Numbers DEF ChipOrder
  <2>7. \A i \in 1 .. Len(Pending) : Pending[i].n <= arrived'
    BY <1>1, Numbers DEF ChipOrder
  <2> QED
    BY <2>4, <2>5, <2>6, <2>7, Numbers DEF ChipOrder
<1> QED
  BY <1>2, <1>3 DEF FrameArrives

\* The first entry leaves the list, to a reader or not.
LEMMA HeadOrder ==
    ASSUME NEW l \in Seq(Entry), NEW s \in Seq(Nat), NEW g, EndOf(l, s, g), l # <<>>
    PROVE  /\ EndOf(Tail(l), s, g) /\ EndOf(Tail(l), s, l[1][1].n)
           /\ \E i \in 1 .. Len(s) : l[1][1].n = s[i]
<1> DEFINE d == Len(s) - Len(l)
           t == Tail(l)
<1>1. /\ Len(t) = Len(l) - 1 /\ Len(l) \in Nat \ {0} /\ Len(s) \in Nat
      /\ \A i \in 1 .. Len(l) - 1 : t[i] = l[i + 1]
  BY FirstOut
<1> HIDE DEF t
<1>2. d \in Nat /\ \A i \in 1 .. Len(l) : l[i][1].n = s[d + i] /\ d + i \in 1 .. Len(s)
  BY <1>1 DEF EndOf
<1>3. \A i \in 1 .. Len(t) :
        /\ i + 1 \in 1 .. Len(l) /\ t[i] = l[i + 1]
        /\ Len(s) - Len(t) + i = d + (i + 1)
  BY <1>1
<1>4. \A i \in 1 .. Len(t) : t[i][1].n = s[Len(s) - Len(t) + i]
  BY <1>2, <1>3
<1>5. \A i \in 1 .. Len(t) : g < t[i][1].n
  BY <1>3 DEF EndOf
<1>6. \A i \in 1 .. Len(t) : l[1][1].n < t[i][1].n
  <2> SUFFICES ASSUME NEW i \in 1 .. Len(t) PROVE l[1][1].n < t[i][1].n
    OBVIOUS
  <2>1. d + 1 \in 1 .. Len(s) /\ d + (i + 1) \in 1 .. Len(s) /\ d + 1 < d + (i + 1)
    BY <1>1, <1>2, <1>3
  <2>2. s[d + 1] < s[d + (i + 1)]
    BY <2>1 DEF EndOf
  <2>3. l[1][1].n = s[d + 1]
    BY <1>1, <1>2
  <2>4. t[i][1].n = s[d + (i + 1)]
    BY <1>2, <1>3
  <2> QED
    BY <2>2, <2>3, <2>4
<1>7. \E i \in 1 .. Len(s) : l[1][1].n = s[i]
  <2>1. l[1][1].n = s[d + 1] /\ d + 1 \in 1 .. Len(s)
    BY <1>1, <1>2
  <2> QED
    BY <2>1
<1>8. EndOf(t, s, g) /\ EndOf(t, s, l[1][1].n)
  BY <1>1, <1>4, <1>5, <1>6 DEF EndOf
<1> QED
  BY <1>7, <1>8 DEF t

\* An entry is added to the list and to what was stored.
LEMMA LastOrder ==
    ASSUME NEW l \in Seq(Entry), NEW s \in Seq(Nat), NEW g, EndOf(l, s, g),
           NEW e \in Entry, e[1].n \in Nat, g < e[1].n,
           \A i \in 1 .. Len(s) : s[i] < e[1].n
    PROVE  EndOf(Append(l, e), Append(s, e[1].n), g)
<1> DEFINE m == Append(l, e)
           r == Append(s, e[1].n)
<1>1. /\ Len(m) = Len(l) + 1 /\ m[Len(l) + 1] = e /\ Len(l) \in Nat
      /\ \A i \in 1 .. Len(l) : m[i] = l[i]
  BY LastIn
<1>2. /\ Len(r) = Len(s) + 1 /\ r[Len(s) + 1] = e[1].n /\ Len(s) \in Nat
      /\ \A i \in 1 .. Len(s) : r[i] = s[i]
  BY LastIn
<1> HIDE DEF m, r
<1>3. /\ \A i \in 1 .. Len(m) : i \in 1 .. Len(l) \/ i = Len(l) + 1
      /\ \A i \in 1 .. Len(r) : i \in 1 .. Len(s) \/ i = Len(s) + 1
      /\ Len(r) - Len(m) = Len(s) - Len(l) /\ Len(m) <= Len(r)
  BY <1>1, <1>2 DEF EndOf
<1>4. ASSUME NEW i \in 1 .. Len(m) PROVE m[i][1].n = r[Len(r) - Len(m) + i] /\ g < m[i][1].n
  <2>1. CASE i \in 1 .. Len(l)
    <3>1. Len(s) - Len(l) + i \in 1 .. Len(s)
      BY <1>1, <1>2, <2>1 DEF EndOf
    <3> QED
      BY <1>1, <1>2, <1>3, <2>1, <3>1 DEF EndOf
  <2>2. CASE i = Len(l) + 1
    <3>1. Len(s) - Len(l) + i = Len(s) + 1
      BY <1>1, <1>2, <2>2
    <3> QED
      BY <1>1, <1>2, <1>3, <2>2, <3>1
  <2> QED
    BY <1>3, <2>1, <2>2
<1>5. ASSUME NEW i \in 1 .. Len(r), NEW j \in 1 .. Len(r), i < j PROVE r[i] < r[j]
  <2>1. i \in 1 .. Len(s)
    BY <1>2, <1>5
  <2>2. CASE j \in 1 .. Len(s)
    BY <1>2, <1>5, <2>1, <2>2 DEF EndOf
  <2>3. CASE j = Len(s) + 1
    BY <1>2, <2>1, <2>3
  <2> QED
    BY <1>3, <2>2, <2>3
<1>6. EndOf(m, r, g)
  BY <1>3, <1>4, <1>5 DEF EndOf
<1> QED
  BY <1>6 DEF m, r

OrderOK == ChipOrder /\ EndOf(list, stored, got)

\* The list stays as it is.
LEMMA ListStays ==
    ASSUME OrderOK, UNCHANGED <<list, stored, got, arrived>>,
           qmu' = qmu \/ Len(qmu') = 0, Pending' = Pending \/ Len(Pending') = 0
    PROVE  OrderOK'
BY OrderStays DEF OrderOK

LEMMA ReadOrder ==
    ASSUME TypeInv, OrderOK, ReadFirst, UNCHANGED <<arrived, qmu>>,
           Pending' = Pending \/ Len(Pending') = 0
    PROVE  OrderOK'
<1>1. /\ list \in Seq(Entry) /\ list # <<>> /\ stored \in Seq(Nat)
      /\ list' = Tail(list) /\ stored' = stored /\ got' = list[1][1].n
  BY Numbers, FirstOut DEF ReadFirst
<1>2. EndOf(list', stored', got') /\ \E i \in 1 .. Len(stored) : got' = stored[i]
  BY <1>1, HeadOrder DEF OrderOK
<1>3. \A i \in 1 .. Len(Pending') : Pending' = Pending
  OBVIOUS
<1>4. Ahead(got) /\ (\A i \in 1 .. Len(stored) : Ahead(stored[i])) /\ Ahead(got')
  BY <1>2 DEF OrderOK, ChipOrder
<1>5. ChipOrder'
  <2>1. ASSUME NEW k, Ahead(k)
        PROVE  /\ k <= arrived' /\ \A i \in 1 .. Len(qmu') : k < qmu'[i].n
               /\ \A i \in 1 .. Len(Pending') : k < Pending'[i].n
    BY <1>3, <2>1 DEF Ahead
  <2>2. Ahead(got)'
    BY <1>4, <2>1 DEF Ahead
  <2>3. ASSUME NEW i \in 1 .. Len(stored') PROVE Ahead(stored[i])'
    <3>1. stored'[i] = stored[i] /\ Ahead(stored[i])
      BY <1>1, <1>4
    <3> QED
      BY <2>1, <3>1 DEF Ahead
  <2> QED
    BY <1>1, <1>3, <2>2, <2>3 DEF OrderOK, ChipOrder
<1> QED
  BY <1>2, <1>5 DEF OrderOK

LEMMA StoreOrder ==
    ASSUME TypeInv, OrderOK, Store
    PROVE  OrderOK'
<1>1. Pending = pbuf /\ Len(Pending') = 0 /\ UNCHANGED <<arrived, qmu, got>>
  <2>1. pc["erx"] = "irq" /\ \E l \in {"indicate", "leave"} : Goto("erx", l)
    BY DEF Store, At
  <2>2. pc'["erx"] \in {"indicate", "leave"}
    BY <2>1, TypeParts, GotoKeeps DEF Places, ErxPlaces
  <2>3. Len(Pending') = 0
    BY <2>2, NoneIn DEF Pending
  <2>4. Pending = pbuf
    BY <2>1 DEF Pending
  <2> QED
    BY <2>3, <2>4 DEF Store, chipVars, chip, world
<1>2. EndOf(Kept, stored, got) /\ Kept \in Seq(Entry) /\ stored \in Seq(Nat)
  <2>1. list \in Seq(Entry) /\ stored \in Seq(Nat) /\ EndOf(list, stored, got)
    BY Numbers DEF OrderOK
  <2>2. CASE Evict
    BY <2>1, <2>2, HeadOrder, FirstOut DEF Kept, Evict
  <2>3. CASE ~Evict
    BY <2>1, <2>3 DEF Kept
  <2> QED
    BY <2>1, <2>2, <2>3
<1>3. CASE ForLinkLayer /\ list' = Put(pbuf) /\ stored' = Append(stored, pbuf[1].n)
  <2>1. pbuf \in Entry /\ pbuf # <<>> /\ pbuf \in Seq(Frame)
    BY <1>3, TypeParts DEF RestTypes, ForLinkLayer, Entry
  <2>2. 1 \in 1 .. Len(pbuf)
    BY <2>1, FirstOut
  <2>3. pbuf[1].n \in Nat /\ got < pbuf[1].n /\ pbuf[1].n <= arrived
        /\ (\A i \in 1 .. Len(stored) : stored[i] < pbuf[1].n)
        /\ (\A j \in 1 .. Len(qmu) : pbuf[1].n < qmu[j].n)
    BY <1>1, <2>2, Numbers DEF OrderOK, ChipOrder, Ahead
  <2>4. EndOf(list', stored', got')
    BY <1>1, <1>2, <1>3, <2>1, <2>3, LastOrder DEF Put
  <2>5. ASSUME NEW i \in 1 .. Len(stored')
        PROVE  stored'[i] <= arrived /\ \A j \in 1 .. Len(qmu) : stored'[i] < qmu[j].n
    <3>1. /\ Len(stored') = Len(stored) + 1 /\ stored'[Len(stored) + 1] = pbuf[1].n
          /\ \A k \in 1 .. Len(stored) : stored'[k] = stored[k]
          /\ Len(stored) \in Nat
      BY <1>2, <1>3, <2>3, LastIn
    <3>2. i \in 1 .. Len(stored) \/ i = Len(stored) + 1
      BY <3>1
    <3>3. CASE i \in 1 .. Len(stored)
      BY <3>1, <3>3 DEF OrderOK, ChipOrder, Ahead
    <3>4. CASE i = Len(stored) + 1
      BY <2>3, <3>1, <3>4
    <3> QED
      BY <3>2, <3>3, <3>4
  <2>6. ChipOrder'
    BY <1>1, <2>5 DEF OrderOK, ChipOrder, Ahead
  <2> QED
    BY <2>4, <2>6 DEF OrderOK
<1>4. CASE list' = Kept /\ UNCHANGED stored
  <2>1. ChipOrder'
    BY <1>1, <1>4, OrderStays DEF OrderOK
  <2> QED
    BY <1>1, <1>2, <1>4, <2>1 DEF OrderOK
<1>5. CASE UNCHANGED <<list, stored>>
  BY <1>1, <1>5, ListStays
<1> QED
  BY <1>3, <1>4, <1>5 DEF Store

LEMMA ReceiveOrder ==
    ASSUME TypeInv, OrderOK, EthRx
    PROVE  OrderOK'
<1>0. PcOK
  BY TypeParts
<1>1. \A l \in ErxPlaces : Goto("erx", l) => pc'["erx"] = l
  BY <1>0, GotoKeeps DEF Places
<1> USE DEF ErxPlaces
<1>2. CASE Store
  BY <1>2, StoreOrder
<1>3. CASE Indicate
  <2>1. Len(Pending') = 0 /\ UNCHANGED <<arrived, qmu>>
    BY <1>1, <1>3, NoneIn DEF Indicate, Pending, chipVars, chip, world
  <2>2. CASE ReadFirst
    BY <2>1, <2>2, ReadOrder
  <2>3. CASE UNCHANGED rxList
    BY <2>1, <2>3, ListStays DEF rxList
  <2> QED
    BY <1>3, <2>2, <2>3 DEF Indicate
<1>4. CASE Rcv
  <2>1. pc["erx"] = "irq" /\ pc' = pc /\ UNCHANGED <<list, stored, got, arrived>>
    BY <1>4 DEF Rcv, At, threads, rxList, world
  <2>2. Pending = pbuf /\ Pending' = pbuf'
    BY <2>1 DEF Pending
  <2>3. CASE pbuf' = qmu /\ qmu' = <<>>
    <3>1. ChipOrder'
      BY <2>1, <2>2, <2>3, NoneIn, OrderTaken DEF OrderOK
    <3> QED
      BY <2>1, <3>1 DEF OrderOK
  <2>4. CASE UNCHANGED <<qmu, pbuf>>
    BY <2>1, <2>2, <2>4, ListStays
  <2> QED
    BY <1>4, <2>3, <2>4 DEF Rcv
<1>5. CASE LeaveRx
  <2>1. UNCHANGED <<list, stored, got, arrived, qmu>> /\ pbuf' = <<>>
    BY <1>5 DEF LeaveRx, chipVars, chip, world, rxList
  <2>2. Len(Pending') = 0
    BY <2>1, NoneIn DEF Pending
  <2> QED
    BY <2>1, <2>2, ListStays
<1>6. CASE \/ GetMail \/ ClearNotice \/ EnterRx \/ ReadStatus \/ Ack \/ LinkStatus
           \/ StopRx \/ FlushRx \/ StartRx \/ ClearPsi
  <2>1. UNCHANGED <<list, stored, got, arrived, pbuf>> /\ (qmu' = qmu \/ qmu' = <<>>)
    BY <1>6
       DEF GetMail, ClearNotice, EnterRx, ReadStatus, Ack, LinkStatus, StopRx, FlushRx, StartRx,
           ClearPsi, ClearBits, chipVars, chip, world, irq, rxList
  <2>2. /\ pc["erx"] \notin {"indicate", "leave"}
        /\ \E l \in ErxPlaces \ {"indicate", "leave"} : pc' = pc \/ Goto("erx", l)
    BY <1>6
       DEF GetMail, ClearNotice, EnterRx, ReadStatus, Ack, LinkStatus, StopRx, FlushRx, StartRx,
           ClearPsi, ClearBits, At, threads
  <2>3. Pending' = Pending
    BY <1>1, <2>1, <2>2 DEF Pending
  <2> QED
    BY <2>1, <2>3, NoneIn, ListStays
<1> QED
  BY <1>2, <1>3, <1>4, <1>5, <1>6 DEF EthRx

LEMMA ApplicationOrder ==
    ASSUME TypeInv, OrderOK, Application, ~broken'
    PROVE  OrderOK'
<1>0. PcOK
  BY TypeParts
<1>1. \A l \in AppPlaces : Goto("app", l) => pc'["erx"] = pc["erx"]
  BY <1>0, AppGoto
<1>2. UNCHANGED <<arrived, qmu, pbuf>> /\ pc'["erx"] = pc["erx"]
  BY <1>1
     DEF Application, Open, Close, Unref, ClearFree, ClearLoad, ClearStore, SetIndicate, Read,
         StartClear, AppPlaces, SendPlaces, chipVars, chip, world, irq, threads
<1>3. Pending' = Pending
  BY <1>2 DEF Pending
<1>4. CASE ClearFree
  <2>1. /\ list \in Seq(Entry) /\ list # <<>> /\ stored \in Seq(Nat)
        /\ list' = Tail(list) /\ stored' = stored /\ got' = got
    BY <1>4, Numbers DEF ClearFree
  <2>2. EndOf(list', stored', got')
    BY <2>1, HeadOrder DEF OrderOK
  <2>3. ChipOrder'
    BY <1>2, <1>3, <2>1, OrderStays DEF OrderOK
  <2> QED
    BY <2>2, <2>3 DEF OrderOK
<1>5. CASE ReadFirst
  BY <1>2, <1>3, <1>5, ReadOrder
<1>6. CASE UNCHANGED <<list, stored, got>>
  BY <1>2, <1>3, <1>6, ListStays
<1> QED
  BY <1>4, <1>5, <1>6
     DEF Application, Open, Close, Unref, ClearLoad, ClearStore, SetIndicate, Read,
         StartClear, rxList

LEMMA OthersOrder ==
    ASSUME TypeInv, OrderOK, ChipStep \/ \E t \in Senders : Send(t)
    PROVE  OrderOK'
<1>0. PcOK
  BY TypeParts
<1>1. CASE ChipStep
  <2>1. Pending' = Pending /\ UNCHANGED <<list, stored, got>>
    BY <1>1 DEF ChipStep, Pending, threads, irq, rxList
  <2>2. ASSUME NEW kind \in Kind, FrameArrives(kind) PROVE ChipOrder'
    BY <2>1, <2>2, OrderArrives DEF OrderOK
  <2>3. CASE LinkChanges \/ Sends
    BY <2>1, <2>3, ListStays DEF LinkChanges, Sends, world
  <2> QED
    BY <1>1, <2>1, <2>2, <2>3 DEF ChipStep, Chip, OrderOK
<1>2. ASSUME NEW t \in Senders, Send(t) PROVE OrderOK'
  <2>1. UNCHANGED <<list, stored, got, arrived, qmu, pbuf>>
    BY <1>2 DEF Send, StartSend, EnterTx, Transmit, chipVars, chip, world, irq, rxList
  <2>2. t \in {"app", "etx"} /\ \E l \in SendPlaces : Goto(t, l)
    BY <1>2, LinkAssumption DEF Send, StartSend, EnterTx, Transmit, SendPlaces
  <2>3. pc'["erx"] = pc["erx"]
    BY <1>0, <2>2, GotoKeeps DEF Places, AppPlaces
  <2> QED
    BY <2>1, <2>3, ListStays DEF Pending
<1> QED
  BY <1>1, <1>2

OrderInv == TypeInv /\ OpenOK /\ (~broken => OrderOK)

LEMMA OrderInvInductive ==
    /\ Init => OrderInv
    /\ OrderInv /\ [Next]_vars => OrderInv'
<1>1. Init => OrderInv
  <2> SUFFICES ASSUME Init PROVE OrderOK
    BY TypeInit DEF OrderInv
  <2>1. /\ Len(qmu) = 0 /\ Len(Pending) = 0 /\ Len(list) = 0 /\ Len(stored) = 0
        /\ got = 0 /\ arrived = 0
    BY NoneIn DEF Init, ChipInit, Pending
  <2> QED
    BY <2>1 DEF OrderOK, ChipOrder, Ahead, EndOf
<1>2. ASSUME OrderInv, [Next]_vars PROVE OrderInv'
  <2>1. TypeInv' /\ OpenOK'
    BY <1>2, TypeNext DEF OrderInv
  <2>2. ASSUME Next, ~broken' PROVE OrderOK'
    BY <1>2, <2>2, BrokenStays, ReceiveOrder, ApplicationOrder, OthersOrder
       DEF OrderInv, Next, ChipStep
  <2>3. ASSUME UNCHANGED vars, ~broken' PROVE OrderOK'
    BY <1>2, <2>3, ListStays
       DEF OrderInv, Pending, vars, threads, irq, rxList, chipVars, chip, world
  <2> QED
    BY <1>2, <2>1, <2>2, <2>3 DEF OrderInv
<1> QED
  BY <1>1, <1>2

LEMMA OrderImplies ==
    ASSUME TypeInv, EndOf(list, stored, got)
    PROVE  /\ [i \in DOMAIN list |-> list[i][1].n]
                 = SubSeq(stored, Len(stored) - Len(list) + 1, Len(stored))
           /\ \A i \in DOMAIN list : got < list[i][1].n
<1> DEFINE m == Len(stored) - Len(list) + 1
           r == SubSeq(stored, m, Len(stored))
<1>1. DOMAIN list = 1 .. Len(list) /\ Len(list) \in Nat /\ stored \in Seq(Nat)
      /\ Len(stored) \in Nat /\ Len(list) <= Len(stored)
  BY Numbers DEF EndOf
<1>2. r = [i \in 1 .. Len(list) |-> stored[i + m - 1]]
  BY <1>1
<1>3. \A i \in 1 .. Len(list) : list[i][1].n = stored[i + m - 1]
  BY <1>1 DEF EndOf
<1>4. [i \in DOMAIN list |-> list[i][1].n] = r
  BY <1>1, <1>2, <1>3
<1> QED
  BY <1>1, <1>4 DEF EndOf

(***************************************************************************)
(* The list is always the newest frames in the order of their arrival, and *)
(* the reader gets none twice and none late, for every size of the list,   *)
(* every number of frames and every interleaving with open and close.      *)
(***************************************************************************)
THEOREM ListIsNewest == Spec => []NewestInOrder
<1>1. OrderInv => NewestInOrder
  BY OrderImplies DEF OrderInv, OrderOK, NewestInOrder
<1> QED
  BY <1>1, OrderInvInductive, PTL DEF Spec
---------------------------------------------------------------------------
(***************************************************************************)
(* No wake-up is lost.  Short of an overrun, a failed pbuf_alloc and a     *)
(* close, what the receive thread knows of the chip depends on its place:  *)
(* a bit that is set is answered by a mail, by one that the link change    *)
(* still to be handled will post, or by a further call of fmc_eth_rx,      *)
(* which the frames in pbuf, or those still to be read, bring about.       *)
(***************************************************************************)
Quiet == ~overrun /\ nopbuf = 0 /\ attached

Noticed == mails > 0 \/ "LCI" \in status

Waiting == isr # {} => mails > 0

Current == qmu # <<>> <=> "RXI" \in isr

\* The bit may be left of frames that have been read already.
Taking ==
    /\ qmu # <<>> => "RXI" \in isr
    /\ "RXI" \in isr /\ qmu = <<>> => mails > 0 \/ "LCI" \in isr

Acking ==
    /\ status \subseteq isr
    /\ qmu # <<>> => "RXI" \in isr
    /\ isr # status => Noticed \/ ("RXI" \in status /\ qmu # <<>>)
    /\ "RXI" \in isr \ status => Noticed /\ qmu # <<>>
    /\ "RXI" \in isr /\ qmu = <<>> => Noticed

Handling ==
    /\ qmu # <<>> => "RXI" \in isr \cup status
    /\ "RXI" \in status => pbuf = <<>>
    /\ isr # {} => Noticed \/ pbuf # <<>> \/ ("RXI" \in status /\ qmu # <<>>)
    /\ "RXI" \in isr => (qmu # <<>> \/ pbuf # <<>>) /\ (Noticed \/ "LCI" \in isr)

Leaving ==
    /\ qmu # <<>> => "RXI" \in isr
    /\ isr # {} => mails > 0 \/ pbuf # <<>>
    /\ "RXI" \in isr => (qmu # <<>> \/ pbuf # <<>>) /\ (mails > 0 \/ "LCI" \in isr)

NoticeOK ==
    /\ pc["erx"] \notin {"flush", "start", "psi"}
    /\ isr \subseteq {"RXI", "LCI"} /\ status \subseteq {"RXI", "LCI"}
    /\ pc["erx"] \notin {"ack", "irq"} => status = {}
    /\ pc["erx"] \notin {"irq", "indicate", "leave"} => pbuf = <<>>
    /\ rx_notice => mails > 0 \/ pc["erx"] = "notice"
    /\ pc["erx"] = "wait" => Waiting
    /\ pc["erx"] \in {"wait", "notice"} => Current
    /\ pc["erx"] \in {"take", "status"} => Taking
    /\ pc["erx"] = "ack" => Acking
    /\ pc["erx"] = "irq" => Handling
    /\ pc["erx"] \in {"indicate", "leave"} => Leaving

LEMMA NoticeSame ==
    ASSUME NoticeOK, UNCHANGED <<qmu, isr, rx_notice, mails, status, pbuf>>,
           pc'["erx"] = pc["erx"]
    PROVE  NoticeOK'
BY DEF NoticeOK, Waiting, Current, Taking, Acking, Handling, Leaving, Noticed

LEMMA RaisePosts ==
    ASSUME TypeInv, NoticeOK, attached, NEW bits, Raise(bits), pc' = pc
    PROVE  /\ isr' = isr \cup bits /\ (mails > 0 => mails' > 0)
           /\ isr = {} /\ pc["erx"] # "notice" => mails' > 0
           /\ rx_notice' => mails' > 0 \/ pc["erx"] = "notice"
<1>1. mails \in Nat /\ rx_notice \in BOOLEAN
  BY TypeParts DEF ChipTypeOK
<1>2. CASE isr = {} /\ ~rx_notice
  BY <1>1, <1>2 DEF Raise
<1>3. CASE isr = {} /\ rx_notice
  BY <1>1, <1>3 DEF Raise, NoticeOK
<1>4. CASE isr # {}
  <2>1. isr' = isr \cup bits /\ rx_notice' = rx_notice /\ mails' = mails
    BY <1>1, <1>4 DEF Raise
  <2> QED
    BY <1>4, <2>1 DEF NoticeOK
<1> QED
  BY <1>2, <1>3, <1>4

LEMMA ChipNotice ==
    ASSUME TypeInv, NoticeOK, Quiet, Quiet', ChipStep
    PROVE  NoticeOK'
<1> DEFINE p == pc["erx"]
<1>0. pc' = pc /\ status' = status /\ pbuf' = pbuf
  BY DEF ChipStep, threads, irq
<1>1. ASSUME NEW kind \in Kind, FrameArrives(kind) PROVE NoticeOK'
  <2>1. Raise({"RXI"}) /\ qmu' # <<>>
    <3>1. Raise({"RXI"}) /\ qmu' = Append(qmu, [n |-> arrived + 1, kind |-> kind])
      BY <1>1 DEF FrameArrives, Quiet
    <3>2. qmu \in Seq(Frame) /\ [n |-> arrived + 1, kind |-> kind] \in Frame
      BY <1>1, TypeParts, ChipAssumption DEF FrameArrives, Frame, ChipTypeOK
    <3>3. Len(qmu') = Len(qmu) + 1 /\ Len(qmu) \in Nat
      BY <3>1, <3>2, LastIn
    <3>4. Len(qmu') # 0
      BY <3>3
    <3> QED
      BY <3>1, <3>4, NoneIn
  <2>2. /\ isr' = isr \cup {"RXI"} /\ (mails > 0 => mails' > 0)
        /\ isr = {} /\ p # "notice" => mails' > 0
        /\ rx_notice' => mails' > 0 \/ p = "notice"
    BY <1>0, <2>1, RaisePosts DEF Quiet
  <2>3. p = "wait" => Waiting'
    BY <2>2 DEF NoticeOK, Waiting
  <2>4. Current'
    BY <2>1, <2>2 DEF Current
  <2>5. p \in {"take", "status"} => Taking'
    BY <2>1, <2>2 DEF Taking
  <2>6. p = "ack" => Acking'
    BY <1>0, <2>1, <2>2 DEF NoticeOK, Acking, Noticed
  <2>7. p = "irq" => Handling'
    BY <1>0, <2>1, <2>2 DEF NoticeOK, Handling, Noticed
  <2>8. p \in {"indicate", "leave"} => Leaving'
    BY <1>0, <2>1, <2>2 DEF NoticeOK, Leaving
  <2> QED
    BY <1>0, <2>2, <2>3, <2>4, <2>5, <2>6, <2>7, <2>8 DEF NoticeOK
<1>2. CASE LinkChanges
  <2>1. Raise({"LCI"}) /\ qmu' = qmu
    BY <1>2 DEF LinkChanges
  <2>2. /\ isr' = isr \cup {"LCI"} /\ (mails > 0 => mails' > 0)
        /\ isr = {} /\ p # "notice" => mails' > 0
        /\ rx_notice' => mails' > 0 \/ p = "notice"
    BY <1>0, <2>1, RaisePosts DEF Quiet
  <2>3. p = "wait" => Waiting'
    BY <2>2 DEF NoticeOK, Waiting
  <2>4. p \in {"wait", "notice"} => Current'
    BY <2>1, <2>2 DEF NoticeOK, Current
  <2>5. p \in {"take", "status"} => Taking'
    BY <2>1, <2>2 DEF NoticeOK, Taking
  <2>6. p = "ack" => Acking'
    BY <1>0, <2>1, <2>2 DEF NoticeOK, Acking, Noticed
  <2>7. p = "irq" => Handling'
    BY <1>0, <2>1, <2>2 DEF NoticeOK, Handling, Noticed
  <2>8. p \in {"indicate", "leave"} => Leaving'
    BY <1>0, <2>1, <2>2 DEF NoticeOK, Leaving
  <2> QED
    BY <1>0, <2>2, <2>3, <2>4, <2>5, <2>6, <2>7, <2>8 DEF NoticeOK
<1>3. CASE Sends
  BY <1>0, <1>3, NoticeSame DEF Sends, mbox
<1> QED
  BY <1>1, <1>2, <1>3 DEF ChipStep, Chip

LEMMA ReceiveNotice ==
    ASSUME TypeInv, NoticeOK, Quiet, Quiet', EthRx
    PROVE  NoticeOK'
<1>0. PcOK /\ mails \in Nat
  BY TypeParts DEF ChipTypeOK
<1>a. \A l \in ErxPlaces : Goto("erx", l) => pc'["erx"] = l
  BY <1>0, GotoKeeps DEF Places
<1> USE DEF ErxPlaces
<1>1. CASE GetMail
  <2>1. /\ pc["erx"] = "wait" /\ pc'["erx"] = "notice"
        /\ UNCHANGED <<qmu, isr, rx_notice, status, pbuf>>
    BY <1>1, <1>a DEF GetMail, At, chip, irq
  <2> QED
    BY <2>1 DEF NoticeOK, Current
<1>2. CASE ClearNotice
  <2>1. /\ pc["erx"] = "notice" /\ pc'["erx"] = "take" /\ rx_notice' = FALSE
        /\ UNCHANGED <<qmu, isr, mails, status, pbuf>>
    BY <1>2, <1>a DEF ClearNotice, At, chip, irq
  <2> QED
    BY <2>1 DEF NoticeOK, Current, Taking
<1>3. CASE EnterRx
  <2>1. /\ pc["erx"] = "take" /\ pc'["erx"] = "status"
        /\ UNCHANGED <<qmu, isr, rx_notice, mails, status, pbuf>>
    BY <1>3, <1>a DEF EnterRx, At, chipVars, chip, mbox, irq
  <2> QED
    BY <2>1 DEF NoticeOK, Taking
<1>4. CASE ReadStatus
  <2>1. /\ pc["erx"] = "status" /\ pc'["erx"] = "ack" /\ status' = isr
        /\ UNCHANGED <<qmu, isr, rx_notice, mails, pbuf>>
    BY <1>4, <1>a DEF ReadStatus, At, chipVars, chip, mbox
  <2>2. Acking'
    BY <2>1 DEF NoticeOK, Taking, Acking, Noticed
  <2> QED
    BY <2>1, <2>2 DEF NoticeOK
<1>5. CASE Ack
  <2>1. /\ pc["erx"] = "ack" /\ pc'["erx"] = "irq" /\ isr' = isr \ status
        /\ UNCHANGED <<qmu, rx_notice, mails, status, pbuf>>
    BY <1>5, <1>a DEF Ack, ClearBits, At, chip, mbox, irq
  <2>2. isr' # {} => isr # status
    BY <2>1
  <2>3. Handling'
    BY <2>1, <2>2 DEF NoticeOK, Acking, Handling, Noticed
  <2> QED
    BY <2>1, <2>3 DEF NoticeOK
<1>6. CASE Rcv
  <2>1. /\ pc["erx"] = "irq" /\ pc' = pc /\ "RXI" \in status /\ status' = status \ {"RXI"}
        /\ UNCHANGED <<isr, rx_notice, mails>>
    BY <1>6 DEF Rcv, At, mbox, threads
  <2>2. pbuf' = qmu /\ qmu' = <<>>
    BY <1>6, TypeParts DEF Rcv, Quiet, RestTypes
  <2>3. Handling'
    BY <2>1, <2>2 DEF NoticeOK, Handling, Noticed
  <2> QED
    BY <2>1, <2>3 DEF NoticeOK
<1>7. CASE LinkStatus
  <2>1. /\ pc["erx"] = "irq" /\ pc' = pc /\ "RXI" \notin status
        /\ status' = status \ {"LCI"} /\ mails' = mails + 1
        /\ UNCHANGED <<qmu, isr, rx_notice, pbuf>>
    BY <1>7 DEF LinkStatus, At, chip, threads
  <2>2. mails' > 0
    BY <1>0, <2>1
  <2>3. Handling'
    BY <2>1, <2>2 DEF NoticeOK, Handling, Noticed
  <2> QED
    BY <2>1, <2>2, <2>3 DEF NoticeOK
<1>8. CASE StopRx \/ FlushRx \/ StartRx \/ ClearPsi
  <2>1. pc["erx"] = "irq" /\ status # {} /\ "RXI" \notin status /\ "LCI" \notin status
    BY <1>8 DEF StopRx, FlushRx, StartRx, ClearPsi, ClearBits, At, NoticeOK
  <2> QED
    BY <2>1 DEF NoticeOK
<1>9. CASE Store
  <2>1. /\ pc["erx"] = "irq" /\ status = {} /\ pc'["erx"] \in {"indicate", "leave"}
        /\ UNCHANGED <<qmu, isr, rx_notice, mails, status, pbuf>>
    BY <1>9, <1>a DEF Store, At, chipVars, chip, mbox, irq
  <2>2. Leaving'
    BY <2>1 DEF NoticeOK, Handling, Leaving, Noticed
  <2> QED
    BY <2>1, <2>2 DEF NoticeOK
<1>10. CASE Indicate
  <2>1. /\ pc["erx"] = "indicate" /\ pc'["erx"] = "leave"
        /\ UNCHANGED <<qmu, isr, rx_notice, mails, status, pbuf>>
    BY <1>10, <1>a DEF Indicate, At, chipVars, chip, mbox, irq
  <2> QED
    BY <2>1 DEF NoticeOK, Leaving
<1>11. CASE LeaveRx
  <2>1. /\ pc["erx"] = "leave" /\ pc'["erx"] = (IF pbuf = <<>> THEN "wait" ELSE "take")
        /\ pbuf' = <<>> /\ UNCHANGED <<qmu, isr, rx_notice, mails, status>>
    BY <1>11, <1>a DEF LeaveRx, At, chipVars, chip, mbox
  <2>2. CASE pbuf = <<>>
    BY <2>1, <2>2 DEF NoticeOK, Leaving, Waiting, Current
  <2>3. CASE pbuf # <<>>
    BY <2>1, <2>3 DEF NoticeOK, Leaving, Taking
  <2> QED
    BY <2>2, <2>3
<1> QED
  BY <1>1, <1>2, <1>3, <1>4, <1>5, <1>6, <1>7, <1>8, <1>9, <1>10, <1>11 DEF EthRx

LEMMA OthersNotice ==
    ASSUME TypeInv, NoticeOK, Application \/ \E t \in Senders : Send(t)
    PROVE  NoticeOK'
<1>0. PcOK
  BY TypeParts
<1>1. CASE Application
  <2>1. \A l \in AppPlaces : Goto("app", l) => pc'["erx"] = pc["erx"]
    BY <1>0, AppGoto
  <2>2. UNCHANGED <<qmu, isr, rx_notice, mails, status, pbuf>> /\ pc'["erx"] = pc["erx"]
    BY <1>1, <2>1
       DEF Application, Open, Close, Unref, ClearFree, ClearLoad, ClearStore, SetIndicate, Read,
           StartClear, AppPlaces, SendPlaces, chipVars, chip, mbox, irq, threads
  <2> QED
    BY <2>2, NoticeSame
<1>2. ASSUME NEW t \in Senders, Send(t) PROVE NoticeOK'
  <2>1. UNCHANGED <<qmu, isr, rx_notice, mails, status, pbuf>>
    BY <1>2 DEF Send, StartSend, EnterTx, Transmit, chipVars, chip, mbox, irq
  <2>2. t \in {"app", "etx"} /\ \E l \in SendPlaces : Goto(t, l)
    BY <1>2, LinkAssumption DEF Send, StartSend, EnterTx, Transmit, SendPlaces
  <2>3. pc'["erx"] = pc["erx"]
    BY <1>0, <2>2, GotoKeeps DEF Places, AppPlaces
  <2> QED
    BY <2>1, <2>3, NoticeSame
<1> QED
  BY <1>1, <1>2

\* An overrun, a failed allocation and a close are never taken back.
LEMMA QuietStays ==
    ASSUME TypeInv, Next, Quiet'
    PROVE  Quiet
<1>1. nopbuf \in Nat /\ overrun \in BOOLEAN /\ attached \in BOOLEAN
  BY TypeParts, LinkAssumption DEF RestTypes, ChipTypeOK
<1>a. ASSUME overrun' = overrun \/ overrun' = TRUE, nopbuf' \in {nopbuf, nopbuf + 1},
             attached' = attached \/ attached' = FALSE
      PROVE  Quiet
  <2>1. ~overrun' /\ nopbuf' = 0 /\ attached'
    BY DEF Quiet
  <2>2. nopbuf = 0
    BY <1>1, <1>a, <2>1
  <2>3. ~overrun
    BY <1>a, <2>1
  <2>4. attached
    BY <1>a, <2>1
  <2> QED
    BY <2>2, <2>3, <2>4 DEF Quiet
<1>2. CASE ChipStep
  <2>1. nopbuf' = nopbuf
    BY <1>2 DEF ChipStep, irq
  <2>2. (overrun' = overrun \/ overrun' = TRUE) /\ attached' = attached
    BY <1>2 DEF ChipStep, Chip, FrameArrives, LinkChanges, Sends, world
  <2> QED
    BY <1>a, <2>1, <2>2
<1>3. CASE EthRx
  <2>0. UNCHANGED world
    BY <1>3
       DEF EthRx, GetMail, ClearNotice, EnterRx, ReadStatus, Ack, ClearBits, Rcv, LinkStatus,
           StopRx, FlushRx, StartRx, ClearPsi, Store, Indicate, LeaveRx, chipVars
  <2>1. overrun' = overrun /\ attached' = attached
    BY <2>0 DEF world
  <2>2. nopbuf' \in {nopbuf, nopbuf + 1}
    BY <1>3
       DEF EthRx, GetMail, ClearNotice, EnterRx, ReadStatus, Ack, ClearBits, Rcv, LinkStatus,
           StopRx, FlushRx, StartRx, ClearPsi, Store, Indicate, LeaveRx, irq
  <2> QED
    BY <1>a, <2>1, <2>2
<1>4. CASE Application
  <2>1. nopbuf' = nopbuf /\ overrun' = overrun
    BY <1>4
       DEF Application, Open, Close, Unref, ClearFree, ClearLoad, ClearStore, SetIndicate, Read,
           chipVars, world, irq
  <2>2. attached' = attached \/ attached' = FALSE
    BY <1>4
       DEF Application, Open, Close, Unref, ClearFree, ClearLoad, ClearStore, SetIndicate, Read,
           chipVars, world
  <2> QED
    BY <1>a, <2>1, <2>2
<1>5. CASE \E t \in Senders : Send(t)
  <2>1. nopbuf' = nopbuf /\ overrun' = overrun /\ attached' = attached
    BY <1>5 DEF Send, StartSend, EnterTx, Transmit, chipVars, world, irq
  <2> QED
    BY <1>a, <2>1
<1> QED
  BY <1>2, <1>3, <1>4, <1>5 DEF Next, ChipStep

NoticeInv == TypeInv /\ OpenOK /\ (~broken /\ Quiet => NoticeOK)

LEMMA NoticeInvInductive ==
    /\ Init => NoticeInv
    /\ NoticeInv /\ [Next]_vars => NoticeInv'
<1>1. Init => NoticeInv
  BY TypeInit DEF NoticeInv, Init, ChipInit, NoticeOK, Waiting, Current
<1>2. ASSUME NoticeInv, [Next]_vars PROVE NoticeInv'
  <2>1. TypeInv' /\ OpenOK'
    BY <1>2, TypeNext DEF NoticeInv
  <2>2. ASSUME Next, ~broken', Quiet' PROVE NoticeOK'
    <3>1. ~broken /\ Quiet /\ NoticeOK /\ TypeInv
      BY <1>2, <2>2, BrokenStays, QuietStays DEF NoticeInv
    <3> QED
      BY <2>2, <3>1, ChipNotice, ReceiveNotice, OthersNotice DEF Next, ChipStep
  <2>3. ASSUME UNCHANGED vars, ~broken', Quiet' PROVE NoticeOK'
    BY <1>2, <2>3, NoticeSame
       DEF NoticeInv, Quiet, vars, threads, irq, chipVars, chip, mbox, world
  <2> QED
    BY <1>2, <2>1, <2>2, <2>3 DEF NoticeInv
<1> QED
  BY <1>1, <1>2

(***************************************************************************)
(* No wake-up is lost, for every capacity of the chip's queue, number of   *)
(* frames and of link changes, and every interleaving of the receive       *)
(* thread with the chip, the application and the senders.                  *)
(***************************************************************************)
THEOREM NoWakeUpIsLost == Spec => []FramesNoticed
<1>1. NoticeInv => FramesNoticed
  <2>1. ASSUME NoticeOK, pc["erx"] = "wait" PROVE qmu # <<>> \/ isr # {} => mails > 0
    BY <2>1 DEF NoticeOK, Waiting, Current
  <2> QED
    BY <2>1 DEF NoticeInv, FramesNoticed, Quiet
<1> QED
  BY <1>1, NoticeInvInductive, PTL DEF Spec
---------------------------------------------------------------------------
(***************************************************************************)
(* The mutex.  As long as no close has detached it, who holds it is the    *)
(* only thread inside.                                                     *)
(***************************************************************************)
Users == {"erx", "app", "etx"}

MutexOK == holder # "gone" => \A t \in Users : Inside(t) <=> holder = t

\* What a step may do to the thread that is inside.
Onward(t) ==
    \/ Close
    \/ holder' = t /\ pc'[t] = pc[t] /\ StepsInside(t)' = StepsInside(t)
    \/ holder' = t /\ StepsInside(t)' < StepsInside(t)
    \/ holder' = "free" /\ ~Inside(t)' /\ StepsInside(t) = 1

(***************************************************************************)
(* A step of thread u: it stays outside, takes the mutex, comes nearer to  *)
(* its release, or releases.                                               *)
(***************************************************************************)
StepOf(u) ==
    /\ \A v \in Users \ {u} : pc'[v] = pc[v]
    /\ u # "erx" => status' = status
    /\ \/ ~Inside(u) /\ ~Inside(u)' /\ (holder' = holder \/ (holder' = "gone" /\ Close))
       \/ /\ ~Inside(u) /\ Inside(u)' /\ holder \in {"free", "gone"}
          /\ holder' = IF holder = "free" THEN u ELSE holder
       \/ Inside(u) /\ Inside(u)' /\ holder' = holder /\ StepsInside(u)' < StepsInside(u)
       \/ /\ Inside(u) /\ ~Inside(u)' /\ StepsInside(u) = 1
          /\ holder' = IF holder = "gone" THEN "gone" ELSE "free"

\* A sender is one step from its release; only erx looks at status.
LEMMA SenderSteps ==
    ASSUME PcOK, NEW t \in {"app", "etx"}
    PROVE  StepsInside(t) = 1
BY DEF PcOK, Places, AppPlaces, SendPlaces, StepsInside

LEMMA SameSteps ==
    ASSUME PcOK, PcOK', NEW t \in Users, pc'[t] = pc[t], t = "erx" => status' = status
    PROVE  (Inside(t)' <=> Inside(t)) /\ StepsInside(t)' = StepsInside(t)
<1>1. CASE t = "erx"
  <2>1. status' = status
    BY <1>1
  <2>2. StepsOfIrq' = StepsOfIrq
    BY <2>1 DEF StepsOfIrq
  <2> QED
    BY <2>2 DEF StepsInside, Inside
<1>2. CASE t \in {"app", "etx"}
  <2>1. StepsInside(t) = 1
    BY <1>2, SenderSteps
  <2>2. StepsInside(t)' = 1
    BY <1>2 DEF PcOK, Places, AppPlaces, SendPlaces, StepsInside
  <2> QED
    BY <2>1, <2>2 DEF Inside
<1> QED
  BY <1>1, <1>2 DEF Users

LEMMA StepKeepsMutex ==
    ASSUME MutexOK, PcOK, PcOK', NEW u \in Users, StepOf(u)
    PROVE  /\ MutexOK'
           /\ holder # "gone" => \A t \in Users : Inside(t) => Onward(t)
<1> SUFFICES ASSUME holder # "gone"
             PROVE  MutexOK' /\ \A t \in Users : Inside(t) => Onward(t)
  BY DEF StepOf, MutexOK
<1>0. \A t \in Users : Inside(t) <=> holder = t
  BY DEF MutexOK
<1>1. /\ u \in Users /\ "free" \notin Users /\ "gone" \notin Users
      /\ "erx" \in Users
  BY DEF Users
<1>2. ASSUME NEW t \in Users \ {u}
      PROVE  /\ Inside(t)' <=> Inside(t)
             /\ pc'[t] = pc[t] /\ StepsInside(t)' = StepsInside(t)
  <2>1. pc'[t] = pc[t] /\ (t = "erx" => status' = status)
    BY <1>2 DEF StepOf
  <2> QED
    BY <1>2, <2>1, SameSteps
<1>3. CASE ~Inside(u) /\ ~Inside(u)' /\ (holder' = holder \/ (holder' = "gone" /\ Close))
  BY <1>0, <1>1, <1>2, <1>3 DEF MutexOK, Onward
<1>4. CASE ~Inside(u) /\ Inside(u)' /\ holder = "free" /\ holder' = u
  BY <1>0, <1>1, <1>2, <1>4 DEF MutexOK
<1>5. CASE Inside(u) /\ Inside(u)' /\ holder' = holder /\ StepsInside(u)' < StepsInside(u)
  BY <1>0, <1>1, <1>2, <1>5 DEF MutexOK, Onward
<1>6. CASE Inside(u) /\ ~Inside(u)' /\ StepsInside(u) = 1 /\ holder' = "free"
  BY <1>0, <1>1, <1>2, <1>6 DEF MutexOK, Onward
<1> QED
  BY <1>3, <1>4, <1>5, <1>6 DEF StepOf

\* A step in which no thread moves.
LEMMA NobodyMoves ==
    ASSUME MutexOK, PcOK, PcOK', pc' = pc, holder' = holder, status' = status
    PROVE  /\ MutexOK'
           /\ holder # "gone" => \A t \in Users : Inside(t) => Onward(t)
<1>1. \A t \in Users : (Inside(t)' <=> Inside(t)) /\ StepsInside(t)' = StepsInside(t)
  BY SameSteps
<1> QED
  BY <1>1 DEF MutexOK, Onward

\* ks_irq cleans the queue when it has handled everything else.
CleansLast == pc["erx"] \in {"flush", "start", "psi"} => status = {}

LEMMA ReceiveIsStep ==
    ASSUME TypeInv, CleansLast, EthRx
    PROVE  StepOf("erx")
<1>0. PcOK /\ status \subseteq Irq
  BY TypeParts DEF RestTypes
<1>1. ASSUME NEW l \in ErxPlaces, Goto("erx", l)
      PROVE  pc'["erx"] = l /\ \A v \in Users \ {"erx"} : pc'[v] = pc[v]
  BY <1>0, <1>1, GotoKeeps DEF Places, Users
<1> USE DEF ErxPlaces
<1>2. CASE GetMail \/ ClearNotice
  BY <1>1, <1>2 DEF GetMail, ClearNotice, At, StepOf, Inside
<1>3. CASE EnterRx
  BY <1>1, <1>3 DEF EnterRx, Take, At, StepOf, Inside
<1>4. CASE ReadStatus
  BY <1>1, <1>4 DEF ReadStatus, At, StepOf, Inside, StepsInside
<1>5. StepsOfIrq \in 3 .. 9
  BY DEF StepsOfIrq
<1>6. CASE Ack
  <2>1. /\ pc["erx"] = "ack" /\ pc'["erx"] = "irq" /\ holder' = holder /\ status' = status
        /\ \A v \in Users \ {"erx"} : pc'[v] = pc[v]
    BY <1>1, <1>6 DEF Ack, ClearBits, At, irq
  <2>2. StepsInside("erx") = 10
    BY <2>1 DEF StepsInside
  <2>3. StepsInside("erx")' = StepsOfIrq'
    BY <2>1 DEF StepsInside
  <2>4. StepsOfIrq' = StepsOfIrq
    BY <2>1 DEF StepsOfIrq
  <2> QED
    BY <1>5, <2>1, <2>2, <2>3, <2>4 DEF StepOf, Inside
<1>7. CASE Rcv \/ LinkStatus
  <2>1. /\ pc["erx"] = "irq" /\ pc' = pc /\ holder' = holder
        /\ \/ "RXI" \in status /\ status' = status \ {"RXI"}
           \/ "RXI" \notin status /\ "LCI" \in status /\ status' = status \ {"LCI"}
    BY <1>7 DEF Rcv, LinkStatus, At, threads
  <2>2. StepsInside("erx") = StepsOfIrq /\ StepsInside("erx")' = StepsOfIrq'
    BY <2>1 DEF StepsInside
  <2>3. StepsOfIrq' < StepsOfIrq
    <3>1. CASE "RXI" \in status /\ status' = status \ {"RXI"}
      <4>1. StepsOfIrq = 9
        BY <3>1 DEF StepsOfIrq
      <4>2. StepsOfIrq' \in {3, 7, 8}
        BY <3>1 DEF StepsOfIrq
      <4> QED
        BY <4>1, <4>2
    <3>2. CASE "RXI" \notin status /\ "LCI" \in status /\ status' = status \ {"LCI"}
      <4>1. StepsOfIrq = 8
        BY <3>2 DEF StepsOfIrq
      <4>2. StepsOfIrq' \in {3, 7}
        BY <3>2 DEF StepsOfIrq
      <4> QED
        BY <4>1, <4>2
    <3> QED
      BY <2>1, <3>1, <3>2
  <2> QED
    BY <2>1, <2>2, <2>3 DEF StepOf, Inside
<1>8. CASE StopRx
  <2>1. /\ pc["erx"] = "irq" /\ pc'["erx"] = "flush" /\ holder' = holder
        /\ status # {} /\ status \cap {"RXI", "LCI"} = {}
        /\ \A v \in Users \ {"erx"} : pc'[v] = pc[v]
    BY <1>1, <1>8 DEF StopRx, At
  <2>2. StepsInside("erx") = StepsOfIrq /\ StepsInside("erx")' = 6
    BY <2>1 DEF StepsInside
  <2>3. StepsOfIrq = 7
    <3>1. "RXI" \notin status /\ "LCI" \notin status
      BY <2>1
    <3> QED
      BY <2>1, <3>1 DEF StepsOfIrq
  <2> QED
    BY <2>1, <2>2, <2>3 DEF StepOf, Inside
<1>9. CASE FlushRx \/ StartRx
  BY <1>1, <1>9 DEF FlushRx, StartRx, ClearBits, At, StepOf, Inside, StepsInside
<1>10. CASE ClearPsi
  <2>1. /\ pc["erx"] = "psi" /\ pc'["erx"] = "irq" /\ holder' = holder
        /\ status = {} /\ status' = {}
        /\ \A v \in Users \ {"erx"} : pc'[v] = pc[v]
    BY <1>1, <1>10 DEF ClearPsi, ClearBits, At, irq, CleansLast
  <2>2. StepsInside("erx") = 4 /\ StepsInside("erx")' = StepsOfIrq'
    BY <2>1 DEF StepsInside
  <2>3. StepsOfIrq' = 3
    BY <2>1 DEF StepsOfIrq
  <2> QED
    BY <2>1, <2>2, <2>3 DEF StepOf, Inside
<1>11. CASE Store
  <2>1. /\ pc["erx"] = "irq" /\ status = {} /\ pc'["erx"] \in {"indicate", "leave"}
        /\ holder' = holder /\ \A v \in Users \ {"erx"} : pc'[v] = pc[v]
    BY <1>1, <1>11 DEF Store, At
  <2>2. StepsInside("erx") = 3
    BY <2>1 DEF StepsInside, StepsOfIrq
  <2>3. StepsInside("erx")' \in {1, 2}
    BY <2>1 DEF StepsInside
  <2> QED
    BY <2>1, <2>2, <2>3 DEF StepOf, Inside
<1>12. CASE Indicate
  BY <1>1, <1>12 DEF Indicate, At, StepOf, Inside, StepsInside
<1>13. CASE LeaveRx
  BY <1>1, <1>13 DEF LeaveRx, Release, At, StepOf, Inside, StepsInside
<1> QED
  BY <1>2, <1>3, <1>4, <1>6, <1>7, <1>8, <1>9, <1>10, <1>11, <1>12, <1>13 DEF EthRx

LEMMA ReceiveCleansLast ==
    ASSUME TypeInv, CleansLast, EthRx
    PROVE  CleansLast'
<1>0. PcOK
  BY TypeParts
<1>1. \A l \in ErxPlaces : Goto("erx", l) => pc'["erx"] = l
  BY <1>0, GotoKeeps DEF Places
<1> USE DEF ErxPlaces
<1>2. CASE GetMail \/ ClearNotice \/ EnterRx \/ ReadStatus
  BY <1>1, <1>2 DEF GetMail, ClearNotice, EnterRx, ReadStatus, CleansLast
<1>3. CASE Ack \/ FlushRx \/ StartRx \/ ClearPsi
  BY <1>1, <1>3 DEF Ack, FlushRx, StartRx, ClearPsi, ClearBits, At, CleansLast, irq
<1>4. CASE Rcv \/ LinkStatus
  BY <1>4 DEF Rcv, LinkStatus, At, CleansLast, threads
<1>5. CASE StopRx
  BY <1>5 DEF StopRx, CleansLast
<1>6. CASE Store \/ Indicate \/ LeaveRx
  BY <1>1, <1>6 DEF Store, Indicate, LeaveRx, CleansLast
<1> QED
  BY <1>2, <1>3, <1>4, <1>5, <1>6 DEF EthRx

LEMMA SendIsStep ==
    ASSUME TypeInv, NEW t \in Senders, Send(t)
    PROVE  StepOf(t) /\ t \in Users /\ t # "erx"
<1>0. PcOK /\ t \in {"app", "etx"} /\ t \in Users
  BY TypeParts, LinkAssumption DEF Users
<1>1. ASSUME NEW l \in SendPlaces, Goto(t, l)
      PROVE  pc'[t] = l /\ \A v \in Users \ {t} : pc'[v] = pc[v]
  BY <1>0, <1>1, GotoKeeps DEF Places, AppPlaces, Users
<1>2. status' = status
  BY DEF Send, StartSend, EnterTx, Transmit, irq
<1>3. CASE StartSend(t)
  BY <1>0, <1>1, <1>2, <1>3 DEF StartSend, At, StepOf, Inside, SendPlaces
<1>4. CASE EnterTx(t)
  BY <1>0, <1>1, <1>2, <1>4 DEF EnterTx, Take, At, StepOf, Inside, SendPlaces
<1>5. CASE Transmit(t)
  <2>1. StepsInside(t) = 1
    BY <1>0, SenderSteps
  <2> QED
    BY <1>0, <1>1, <1>2, <1>5, <2>1 DEF Transmit, Release, At, StepOf, Inside, SendPlaces
<1> QED
  BY <1>0, <1>3, <1>4, <1>5 DEF Send

LEMMA ApplicationIsStep ==
    ASSUME TypeInv, Application
    PROVE  \/ StepOf("app")
           \/ pc' = pc /\ holder' = holder /\ status' = status
<1>0. PcOK
  BY TypeParts
<1>1. ASSUME NEW l \in AppPlaces, Goto("app", l)
      PROVE  pc'["app"] = l /\ \A v \in Users \ {"app"} : pc'[v] = pc[v]
  BY <1>0, <1>1, GotoKeeps DEF Places, Users
<1> USE DEF AppPlaces
<1>2. CASE Open \/ Close
  <2>1. /\ pc["app"] = "idle" /\ status' = status
        /\ pc' = pc \/ Goto("app", "free")
        /\ holder' = holder \/ (holder' = "gone" /\ Close)
    BY <1>2 DEF Open, Close, StartClear, At, irq
  <2>2. pc'["app"] \in {"idle", "free"} /\ \A v \in Users \ {"app"} : pc'[v] = pc[v]
    BY <1>1, <2>1
  <2> QED
    BY <2>1, <2>2 DEF StepOf, Inside
<1>3. CASE ClearFree \/ ClearLoad \/ ClearStore
  <2>1. /\ pc["app"] \in {"free", "load", "store"} /\ holder' = holder /\ status' = status
        /\ \E l \in {"load", "store", "idle"} : Goto("app", l)
    BY <1>3 DEF ClearFree, ClearLoad, ClearStore, At, irq
  <2>2. /\ pc'["app"] \in {"load", "store", "idle"}
        /\ \A v \in Users \ {"app"} : pc'[v] = pc[v]
    BY <1>1, <2>1 DEF SendPlaces
  <2> QED
    BY <2>1, <2>2 DEF StepOf, Inside
<1>4. CASE Unref \/ SetIndicate \/ Read
  BY <1>4 DEF Unref, SetIndicate, Read, threads, irq
<1> QED
  BY <1>2, <1>3, <1>4 DEF Application

MutexInv == TypeInv /\ OpenOK /\ MutexOK /\ CleansLast

\* The invariant is kept, and with it every step says what MutexComesBack asks.
LEMMA MutexStep ==
    ASSUME MutexInv, Next
    PROVE  /\ MutexInv'
           /\ holder # "gone" => \A t \in Users : Inside(t) => Onward(t)
<1>0. TypeInv /\ OpenOK /\ MutexOK /\ CleansLast
  BY DEF MutexInv
<1>1. TypeInv' /\ OpenOK'
  BY <1>0, TypeNext
<1>2. PcOK /\ PcOK'
  BY <1>0, <1>1, TypeParts
<1> DEFINE Goal == MutexOK' /\ (holder # "gone" => \A t \in Users : Inside(t) => Onward(t))
<1>3. ASSUME pc' = pc, holder' = holder, status' = status
      PROVE  Goal /\ CleansLast'
  BY <1>0, <1>2, <1>3, NobodyMoves DEF CleansLast
<1>4. CASE ChipStep
  <2>1. pc' = pc /\ holder' = holder /\ status' = status
    BY <1>4 DEF ChipStep, threads, irq
  <2> QED
    BY <1>0, <1>1, <1>3, <2>1 DEF MutexInv
<1>5. CASE EthRx
  <2>1. StepOf("erx") /\ CleansLast' /\ "erx" \in Users
    BY <1>0, <1>5, ReceiveIsStep, ReceiveCleansLast DEF Users
  <2>2. Goal
    BY <1>0, <1>2, <2>1, StepKeepsMutex
  <2> QED
    BY <1>1, <2>1, <2>2 DEF MutexInv
<1>6. ASSUME NEW u \in Users, u # "erx", StepOf(u)
      PROVE  Goal /\ CleansLast'
  <2>1. Goal
    BY <1>0, <1>2, <1>6, StepKeepsMutex
  <2>2. status' = status /\ pc'["erx"] = pc["erx"]
    BY <1>6 DEF StepOf, Users
  <2> QED
    BY <1>0, <2>1, <2>2 DEF CleansLast
<1>7. CASE Application
  <2>1. "app" \in Users /\ "app" # "erx"
    BY DEF Users
  <2>2. Goal /\ CleansLast'
    BY <1>0, <1>3, <1>6, <1>7, <2>1, ApplicationIsStep
  <2> QED
    BY <1>1, <2>2 DEF MutexInv
<1>8. CASE \E t \in Senders : Send(t)
  <2>1. Goal /\ CleansLast'
    BY <1>0, <1>6, <1>8, SendIsStep
  <2> QED
    BY <1>1, <2>1 DEF MutexInv
<1> QED
  BY <1>4, <1>5, <1>7, <1>8 DEF Next, ChipStep

LEMMA MutexInvInductive ==
    /\ Init => MutexInv
    /\ MutexInv /\ [Next]_vars => MutexInv'
<1>1. Init => MutexInv
  BY TypeInit DEF MutexInv, Init, MutexOK, CleansLast, Inside, Users
<1>2. MutexInv /\ UNCHANGED vars => MutexInv'
  <2> SUFFICES ASSUME MutexInv, UNCHANGED vars PROVE MutexInv'
    OBVIOUS
  <2>1. pc' = pc /\ holder' = holder /\ status' = status
    BY DEF vars, threads, irq
  <2>2. TypeInv' /\ OpenOK'
    BY TypeNext DEF MutexInv
  <2>3. MutexOK' /\ CleansLast'
    BY <2>1 DEF MutexInv, MutexOK, CleansLast, Inside
  <2> QED
    BY <2>2, <2>3 DEF MutexInv
<1> QED
  BY <1>1, <1>2, MutexStep

(***************************************************************************)
(* Whatever the chip, the senders and the application do: short of a close *)
(* the mutex has one holder at a time, and every step of the holder brings *)
(* it nearer to its release (ks_irq, fmc_eth_rx, fmc_eth_tx).              *)
(***************************************************************************)
THEOREM MutexIsGivenBack == Spec => MutexComesBack
<1>1. MutexInv /\ [Next]_vars =>
        [holder # "gone" => \A t \in {"erx", "app", "etx"} :
           /\ Inside(t) <=> holder = t
           /\ Inside(t) =>
                \/ Close
                \/ holder' = t /\ pc'[t] = pc[t] /\ StepsInside(t)' = StepsInside(t)
                \/ holder' = t /\ StepsInside(t)' < StepsInside(t)
                \/ holder' = "free" /\ ~Inside(t)' /\ StepsInside(t) = 1]_vars
  BY MutexStep DEF MutexInv, MutexOK, Users, Onward
<1> QED
  BY <1>1, MutexInvInductive, PTL DEF Spec, MutexComesBack
=============================================================================
