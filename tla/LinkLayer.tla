----------------------------- MODULE LinkLayer -----------------------------
(***************************************************************************)
(* One port of board/ports/ksz8851/drv_fmc_eth.c with link-layer           *)
(* communication: the receive thread of RT-Thread's Ethernet framework     *)
(* (thread "erx") takes frames from the chip and keeps copies of those     *)
(* that are not IP in a bounded list (drv_link_layer_list.c), from which   *)
(* an application (thread "app") reads; "app" and lwIP's transmit thread   *)
(* ("etx") send.  eth_mux is held by whoever receives, reads or sends,     *)
(* but not by open and close.                                              *)
(***************************************************************************)
EXTENDS Ksz8851, Integers

CONSTANTS
    RxBufNum,     \* BSP_LINK_LAYER_RX_BUF_NUM
    NumMod,       \* rx_lep_buf_num wraps around here (2^32 in the code)
    PbufFrames,   \* (short) frames that fit one pbuf
    Senders,      \* the threads that send
    MaxOpens,     \* bound on the opens that are not closed
    MaxNoPbuf     \* bound on the failures of pbuf_alloc

ASSUME LinkAssumption ==
    /\ RxBufNum \in Nat \ {0}
    /\ NumMod \in Nat /\ NumMod > RxBufNum + 1
    /\ PbufFrames \in Nat \ {0}
    /\ Senders \subseteq {"app", "etx"}
    /\ MaxOpens \in Nat
    /\ MaxNoPbuf \in Nat

VARIABLES
    pc,           \* where the threads are
    holder,       \* the thread that holds eth_mux, "free", or "gone" once detached
    status,       \* ks_irq: the interrupts it has still to handle
    pbuf,         \* fmc_eth_rx: what ks_irq returned, empty for NULL
    list,         \* link_layer_buf.rx_head->list: the frames of each S_LEP_BUF
    num,          \* link_layer_buf.rx_lep_buf_num
    indicate,     \* dev->rx_indicate is set
    refs,         \* dev->ref_count
    seen,         \* lep_eth_if_clear: the list when it took its first entry
    count,        \* lep_eth_if_clear: the counter it is about to decrement
    opening,      \* lep_eth_if_clear was called by fmc_eth_open
    nopbuf,       \* failures of pbuf_alloc so far
    broken,       \* the list, the heap or the mutex has been damaged
    overlapped,   \* history: the list changed during a clear
    stored,       \* history: the first frame of every entry put into the list
    got           \* history: the first frame of the last entry read, or 0

threads == <<pc, holder, broken>>
irq     == <<status, pbuf, nopbuf>>
rxList  == <<list, num, overlapped, stored, got>>
dev     == <<indicate, refs>>
clear   == <<seen, count, opening>>
vars    == <<chipVars, threads, irq, rxList, dev, clear>>

Clearing == pc["app"] \in {"free", "load", "store"}
Entry    == Seq(Frame)

\* The places of the threads in the code below.
ErxPlaces  == {"wait", "notice", "take", "status", "ack", "irq", "flush", "start", "psi",
               "indicate", "leave"}
SendPlaces == {"idle", "want", "room"}
AppPlaces  == SendPlaces \cup {"free", "load", "store"}

TypeOK ==
    /\ ChipTypeOK
    /\ pc \in [{"erx", "app", "etx"} -> ErxPlaces \cup AppPlaces]
    /\ pc["erx"] \in ErxPlaces /\ pc["app"] \in AppPlaces /\ pc["etx"] \in SendPlaces
    /\ holder \in {"free", "gone", "erx", "app", "etx"}
    /\ status \subseteq Irq
    /\ pbuf \in Entry /\ list \in Seq(Entry) /\ seen \in Seq(Entry)
    /\ stored \in Seq(1 .. MaxFrames) /\ got \in 0 .. MaxFrames
    /\ {num, count} \subseteq 0 .. NumMod - 1
    /\ refs \in 0 .. MaxOpens
    /\ nopbuf \in 0 .. MaxNoPbuf
    /\ {indicate, opening, broken, overlapped} \subseteq BOOLEAN

Init ==
    /\ ChipInit
    /\ pc = [t \in {"erx", "app", "etx"} |-> IF t = "erx" THEN "wait" ELSE "idle"]
    /\ holder = "free"
    /\ status = {} /\ pbuf = <<>>
    /\ list = <<>> /\ num = 0 /\ indicate = FALSE /\ refs = 0
    /\ seen = <<>> /\ count = 0 /\ opening = FALSE /\ nopbuf = 0
    /\ broken = FALSE /\ overlapped = FALSE
    /\ stored = <<>> /\ got = 0

At(t, l) == pc[t] = l /\ ~broken
Goto(t, l) == pc' = [pc EXCEPT ![t] = l]

(***************************************************************************)
(* A mutex that fmc_eth_close has detached is no object any more: what     *)
(* rt_mutex_take and rt_mutex_release do with it is an assertion or chance *)
(***************************************************************************)
Take(t) ==
    /\ holder \in {"free", "gone"}
    /\ holder' = IF holder = "free" THEN t ELSE holder
    /\ broken' = (holder = "gone")

Release ==
    /\ holder' = IF holder = "gone" THEN "gone" ELSE "free"
    /\ broken' = (holder = "gone")
---------------------------------------------------------------------------
(***************************************************************************)
(* eth_rx_thread_entry of RT-Thread: for a mail it calls eth_rx until      *)
(* there is nothing more.                                                  *)
(***************************************************************************)
GetMail ==
    /\ At("erx", "wait") /\ mails > 0
    /\ mails' = mails - 1
    /\ Goto("erx", "notice")
    /\ UNCHANGED <<chip, isr, rx_notice, world, holder, broken, irq, rxList, dev, clear>>

ClearNotice ==
    /\ At("erx", "notice")
    /\ rx_notice' = FALSE
    /\ Goto("erx", "take")
    /\ UNCHANGED <<chip, isr, mails, world, holder, broken, irq, rxList, dev, clear>>

\* fmc_eth_rx
EnterRx ==
    /\ At("erx", "take")
    /\ Take("erx")
    /\ Goto("erx", "status")
    /\ UNCHANGED <<chipVars, irq, rxList, dev, clear>>

\* ks_irq
ReadStatus ==
    /\ At("erx", "status")
    /\ status' = isr
    /\ Goto("erx", "ack")
    /\ UNCHANGED <<chipVars, holder, broken, pbuf, nopbuf, rxList, dev, clear>>

\* A write of KSZ8851_ISR that clears the given bits.
ClearBits(from, bits, to) ==
    /\ At("erx", from)
    /\ isr' = isr \ bits
    /\ Goto("erx", to)
    /\ UNCHANGED <<mbox, world, holder, broken, irq, rxList, dev, clear>>

\* Mutant: everything is acknowledged, what came after the status was read included.
AckAll == ClearBits("ack", Irq, "irq") /\ UNCHANGED chip

Ack == ClearBits("ack", status, "irq") /\ UNCHANGED chip

(***************************************************************************)
(* ks_rcv: all the frames that wait become one pbuf.  Without a pbuf they  *)
(* stay where they are, but their interrupt has been acknowledged.         *)
(***************************************************************************)
Rcv ==
    /\ At("erx", "irq") /\ "RXI" \in status
    /\ status' = status \ {"RXI"}
    /\ \/ pbuf' = qmu /\ qmu' = <<>> /\ UNCHANGED nopbuf
       \/ /\ qmu # <<>> /\ nopbuf < MaxNoPbuf
          /\ nopbuf' = nopbuf + 1
          /\ UNCHANGED <<qmu, pbuf>>
    /\ UNCHANGED <<isr, rxe, room, mbox, world, threads, rxList, dev, clear>>

\* ks_update_link_status: eth_device_linkchange posts a mail of its own.
LinkStatus ==
    /\ At("erx", "irq") /\ "RXI" \notin status /\ "LCI" \in status
    /\ status' = status \ {"LCI"}
    /\ mails' = mails + 1
    /\ UNCHANGED <<chip, isr, rx_notice, world, threads, pbuf, nopbuf, rxList, dev, clear>>

\* ks_clean_rx_queue: stop, flush, start again, clear the bit that the stop has set.
StopRx ==
    /\ At("erx", "irq") /\ status # {} /\ status \cap {"RXI", "LCI"} = {}
    /\ rxe' = FALSE
    /\ Raise({"RXPSI"})
    /\ status' = {}
    /\ Goto("erx", "flush")
    /\ UNCHANGED <<qmu, room, world, holder, broken, pbuf, nopbuf, rxList, dev, clear>>

FlushRx == ClearBits("flush", {"RXI"}, "start") /\ qmu' = <<>> /\ UNCHANGED <<rxe, room>>

StartRx ==
    /\ At("erx", "start")
    /\ rxe' = TRUE
    /\ Goto("erx", "psi")
    /\ UNCHANGED <<qmu, room, isr, mbox, world, holder, broken, irq, rxList, dev, clear>>

ClearPsi == ClearBits("psi", {"RXPSI"}, "irq") /\ UNCHANGED chip
---------------------------------------------------------------------------
(***************************************************************************)
(* The list.  What erx does to it while it holds eth_mux is one step: the  *)
(* application's thread has a lower priority.                              *)
(***************************************************************************)
Inc(n) == (n + 1) % NumMod

\* Mutant: the counter does not wrap.
DecNoWrap(n) == n - 1

Dec(n) == (n - 1) % NumMod

ForLinkLayer == pbuf # <<>> /\ Len(pbuf) <= PbufFrames /\ pbuf[1].kind # "ip"

\* Mutant: the oldest entry makes room one entry late.
LateFull == num > RxBufNum

Full == num >= RxBufNum

\* lep_eth_if_clear, one entry, as a full list calls it.
Evict == Full /\ list # <<>>

Kept    == IF Evict THEN Tail(list) ELSE list
KeptNum == IF Evict THEN Dec(num) ELSE num

\* Mutant: a new entry is inserted behind the head.
PutFirst(e) == <<e>> \o Kept

Put(e) == Append(Kept, e)

\* The rest of fmc_eth_rx: the entry is dropped when rt_malloc has no memory.
Store ==
    /\ At("erx", "irq") /\ status = {}
    /\ \/ /\ ForLinkLayer
          /\ list' = Put(pbuf) /\ num' = Inc(KeptNum)
          /\ stored' = Append(stored, pbuf[1].n)
          /\ overlapped' = (overlapped \/ Clearing)
          /\ Goto("erx", "indicate")
       \/ /\ ForLinkLayer
          /\ list' = Kept /\ num' = KeptNum
          /\ overlapped' = (overlapped \/ (Clearing /\ Evict))
          /\ Goto("erx", "leave")
          /\ UNCHANGED stored
       \/ /\ ~ForLinkLayer
          /\ Goto("erx", "leave")
          /\ UNCHANGED <<list, num, stored, overlapped>>
    /\ UNCHANGED <<chipVars, holder, broken, irq, got, dev, clear>>

\* fmc_eth_read, while eth_mux is held: the first entry, if there is one.
ReadFirst ==
    /\ list # <<>>
    /\ got' = Head(list)[1].n /\ list' = Tail(list) /\ num' = Dec(num)
    /\ UNCHANGED stored

\* dev->rx_indicate, called with eth_mux held: it may read, as linklayer_test's does.
Indicate ==
    /\ At("erx", "indicate")
    /\ \/ /\ indicate /\ refs > 0
          /\ ReadFirst
          /\ overlapped' = (overlapped \/ Clearing)
       \/ UNCHANGED rxList
    /\ Goto("erx", "leave")
    /\ UNCHANGED <<chipVars, holder, broken, irq, dev, clear>>

\* Mutant: the mutex is kept when there was nothing to receive.
LeaveHolding ==
    /\ At("erx", "leave")
    /\ IF pbuf = <<>> THEN UNCHANGED <<holder, broken>> ELSE Release
    /\ Goto("erx", IF pbuf = <<>> THEN "wait" ELSE "take")
    /\ pbuf' = <<>>
    /\ UNCHANGED <<chipVars, status, nopbuf, rxList, dev, clear>>

LeaveRx ==
    /\ At("erx", "leave")
    /\ Release
    /\ Goto("erx", IF pbuf = <<>> THEN "wait" ELSE "take")
    /\ pbuf' = <<>>
    /\ UNCHANGED <<chipVars, status, nopbuf, rxList, dev, clear>>

EthRx ==
    \/ GetMail \/ ClearNotice
    \/ EnterRx \/ ReadStatus \/ Ack \/ Rcv \/ LinkStatus
    \/ StopRx \/ FlushRx \/ StartRx \/ ClearPsi
    \/ Store \/ Indicate \/ LeaveRx
---------------------------------------------------------------------------
(***************************************************************************)
(* The application.  rt_device_open calls fmc_eth_open every time,         *)
(* rt_device_close calls fmc_eth_close for the last reference only.  Both  *)
(* clear the list without eth_mux, and erx may come in anywhere.           *)
(***************************************************************************)

\* lep_eth_if_clear takes the first entry; of an empty list there is none.
StartClear(op) ==
    /\ seen' = list
    /\ opening' = (op /\ list # <<>>)
    /\ IF list = <<>> THEN UNCHANGED pc ELSE Goto("app", "free")
    /\ UNCHANGED <<rxList, count>>

Open ==
    /\ At("app", "idle") /\ refs < MaxOpens
    /\ StartClear(TRUE)
    /\ refs' = IF list = <<>> THEN refs + 1 ELSE refs
    /\ UNCHANGED <<chipVars, holder, broken, irq, indicate>>

\* The mutex and the interrupt are detached, and no open attaches them again.
Close ==
    /\ At("app", "idle") /\ refs = 1
    /\ refs' = 0
    /\ holder' = "gone" /\ attached' = FALSE /\ indicate' = FALSE
    /\ StartClear(FALSE)
    /\ UNCHANGED <<chip, isr, mbox, arrived, links, overrun, broken, irq>>

\* A close that is not the last one.
Unref ==
    /\ At("app", "idle") /\ refs > 1
    /\ refs' = refs - 1
    /\ UNCHANGED <<chipVars, threads, irq, rxList, indicate, clear>>

(***************************************************************************)
(* rt_list_remove and rt_free of the entry.  If erx has evicted or read it *)
(* meanwhile, it is freed twice.  If it was alone and erx has appended     *)
(* another, the list may have been linked past that one.                   *)
(***************************************************************************)
ClearFree ==
    /\ At("app", "free")
    /\ IF list # <<>> /\ Head(list) = Head(seen)
       THEN /\ list' = Tail(list)
            /\ broken' \in (IF Len(seen) = 1 /\ Len(list) > 1 THEN BOOLEAN ELSE {FALSE})
       ELSE broken' = TRUE /\ UNCHANGED list
    /\ seen' = <<>>
    /\ Goto("app", "load")
    /\ UNCHANGED <<chipVars, holder, irq, num, overlapped, stored, got, dev, count, opening>>

\* rx_lep_buf_num--, a load and a store; then the function returns, whatever the mode.
ClearLoad ==
    /\ At("app", "load")
    /\ count' = num
    /\ Goto("app", "store")
    /\ UNCHANGED <<chipVars, holder, broken, irq, rxList, dev, seen, opening>>

ClearStore ==
    /\ At("app", "store")
    /\ num' = Dec(count)
    /\ refs' = IF opening THEN refs + 1 ELSE refs
    /\ count' = 0 /\ opening' = FALSE
    /\ Goto("app", "idle")
    /\ UNCHANGED <<chipVars, holder, broken, irq, list, overlapped, stored, got, indicate, seen>>

\* rt_device_set_rx_indicate
SetIndicate ==
    /\ At("app", "idle") /\ ~indicate
    /\ indicate' = TRUE
    /\ UNCHANGED <<chipVars, threads, irq, rxList, refs, clear>>

\* fmc_eth_read by the application, from taking eth_mux to its release.
Read ==
    /\ At("app", "idle") /\ refs > 0
    /\ \/ holder = "free" /\ ReadFirst /\ UNCHANGED <<broken, overlapped>>
       \/ holder = "gone" /\ broken' = TRUE /\ UNCHANGED rxList
    /\ UNCHANGED <<chipVars, pc, holder, irq, dev, clear>>

(***************************************************************************)
(* fmc_eth_write and fmc_eth_tx: with eth_mux held, they wait until the    *)
(* chip has room for the frame.                                            *)
(***************************************************************************)
StartSend(t) ==
    /\ At(t, "idle") /\ (t = "app" => refs > 0)
    /\ Goto(t, "want")
    /\ UNCHANGED <<chipVars, holder, broken, irq, rxList, dev, clear>>

EnterTx(t) ==
    /\ At(t, "want")
    /\ Take(t)
    /\ Goto(t, "room")
    /\ UNCHANGED <<chipVars, irq, rxList, dev, clear>>

Transmit(t) ==
    /\ At(t, "room") /\ room
    /\ room' = FALSE
    /\ Release
    /\ Goto(t, "idle")
    /\ UNCHANGED <<qmu, rxe, isr, mbox, world, irq, rxList, dev, clear>>

Send(t) == StartSend(t) \/ EnterTx(t) \/ Transmit(t)

Application ==
    \/ Open \/ Close \/ Unref \/ ClearFree \/ ClearLoad \/ ClearStore
    \/ SetIndicate \/ Read

\* Nothing is said of what happens once something is broken.
Next ==
    \/ Chip /\ ~broken /\ UNCHANGED <<threads, irq, rxList, dev, clear>>
    \/ EthRx
    \/ Application
    \/ \E t \in Senders : Send(t)

Spec == Init /\ [][Next]_vars

(***************************************************************************)
(* The threads run when they can.  rt_mutex_release hands the mutex to a   *)
(* waiting thread, so that nobody is passed over for ever.  The chip sends *)
(* what it was given.                                                      *)
(***************************************************************************)
FairSpec ==
    /\ Spec
    /\ WF_vars(EthRx) /\ SF_vars(EnterRx)
    /\ \A t \in Senders : SF_vars(EnterTx(t)) /\ WF_vars(Transmit(t))
    /\ WF_vars(Sends /\ UNCHANGED <<threads, irq, rxList, dev, clear>>)
---------------------------------------------------------------------------
(***************************************************************************)
(* rx_lep_buf_num is the number of entries and never exceeds the limit,    *)
(* whoever reads, receives and evicts, unless erx changed the list while   *)
(* fmc_eth_open or fmc_eth_close was clearing it without the mutex.        *)
(***************************************************************************)
CountIsLength ==
    ~broken /\ ~overlapped /\ ~Clearing => num = Len(list) /\ num <= RxBufNum

(***************************************************************************)
(* The list holds the newest entries without a gap, and the reader has got *)
(* none of them: entries are read in the order of their arrival, none      *)
(* twice, and it is the oldest that a full list gives up (fmc_eth_rx,      *)
(* fmc_eth_read, lep_eth_if_clear).                                        *)
(***************************************************************************)
NewestInOrder ==
    ~broken =>
      /\ [i \in DOMAIN list |-> list[i][1].n]
           = SubSeq(stored, Len(stored) - Len(list) + 1, Len(stored))
      /\ \A i \in DOMAIN list : got < list[i][1].n

(***************************************************************************)
(* The receive thread is never left asleep with work to do: whenever it    *)
(* waits for a mail and the chip holds a frame, or only keeps its line low *)
(* so that no edge can come any more, a mail is in the box.  ks_irq reads  *)
(* the status, acknowledges and reads the queue in three steps between     *)
(* which frames and link changes arrive, eth_device_ready posts only one   *)
(* mail at a time and fmc_eth_rx is called once more after each pbuf; an   *)
(* overrun, a failed pbuf_alloc and a close are excepted.                  *)
(***************************************************************************)
FramesNoticed ==
    ~broken /\ ~overrun /\ nopbuf = 0 /\ attached /\ pc["erx"] = "wait" =>
      (qmu # <<>> \/ isr # {} => mails > 0)

(***************************************************************************)
(* No frame is left in the chip: although the pin interrupts on the        *)
(* edge only and ks_irq acknowledges before it reads, the frames are all   *)
(* taken, unless the queue has overrun, pbuf_alloc has failed or the port  *)
(* has been closed.                                                        *)
(***************************************************************************)
FramesTaken ==
    qmu # <<>> ~> qmu = <<>> \/ overrun \/ nopbuf > 0 \/ holder = "gone" \/ broken

(***************************************************************************)
(* After the interrupt has been acknowledged no frames are left in the     *)
(* queue (ksz8851.c:395), after an overrun neither.                        *)
(***************************************************************************)
QueueIsEmptied ==
    qmu # <<>> ~> qmu = <<>> \/ nopbuf > 0 \/ holder = "gone" \/ broken

\* Between taking eth_mux and its release, and how many steps are left at most.
Inside(t) ==
    pc[t] \in {"status", "ack", "irq", "flush", "start", "psi", "indicate", "leave", "room"}

StepsOfIrq ==
    CASE status = {}       -> 3
      [] "RXI" \in status -> 9
      [] "RXI" \notin status /\ "LCI" \in status -> 8
      [] status # {} /\ status \cap {"RXI", "LCI"} = {} -> 7

StepsInside(t) ==
    CASE pc[t] = "status"   -> 11
      [] pc[t] = "ack"      -> 10
      [] pc[t] = "irq"      -> StepsOfIrq
      [] pc[t] = "flush"    -> 6
      [] pc[t] = "start"    -> 5
      [] pc[t] = "psi"      -> 4
      [] pc[t] = "indicate" -> 2
      [] OTHER              -> 1

(***************************************************************************)
(* eth_mux is always on its way back: as long as no close detaches it, who *)
(* has taken it is the only thread inside, each of its steps brings it     *)
(* nearer to its release and no step of the chip, of the application or of *)
(* another sender takes it back or throws it out, whatever arrives         *)
(* meanwhile; and with the release nobody holds it (ks_irq, fmc_eth_rx,    *)
(* fmc_eth_read, fmc_eth_tx).                                              *)
(***************************************************************************)
MutexComesBack ==
    [][holder # "gone" => \A t \in {"erx", "app", "etx"} :
         /\ Inside(t) <=> holder = t
         /\ Inside(t) =>
              \/ Close
              \/ holder' = t /\ pc'[t] = pc[t] /\ StepsInside(t)' = StepsInside(t)
              \/ holder' = t /\ StepsInside(t)' < StepsInside(t)
              \/ holder' = "free" /\ ~Inside(t)' /\ StepsInside(t) = 1]_vars

(***************************************************************************)
(* Who wants to send gets to send, although the receive thread and the     *)
(* other sender hold eth_mux while they wait for the chip.                 *)
(***************************************************************************)
SendersProceed == \A t \in Senders : pc[t] = "want" ~> pc[t] = "idle" \/ broken
=============================================================================
