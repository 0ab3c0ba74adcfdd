------------------------------ MODULE Ksz8851 ------------------------------
(***************************************************************************)
(* The KSZ8851 Ethernet chip of one port as board/ports/ksz8851/ksz8851.c  *)
(* sees it, the interrupt line to the processor and the mailbox of         *)
(* RT-Thread's Ethernet receive thread.  Chip and mailbox are outside the  *)
(* repository; the registers are the ones ksz8851.c reads and writes.      *)
(***************************************************************************)
EXTENDS Naturals, Sequences

CONSTANTS
    QmuFrames,    \* frames that the chip's receive queue (QMU) has room for
    MaxFrames,    \* bound on the frames that arrive
    MaxLinks      \* bound on the changes of the link

ASSUME ChipAssumption ==
    /\ QmuFrames \in Nat \ {0}
    /\ MaxFrames \in Nat
    /\ MaxLinks \in Nat

VARIABLES
    qmu,          \* the frames in the receive queue
    isr,          \* the bits set in KSZ8851_ISR
    rxe,          \* RXCR1_RXE: the chip receives
    room,         \* the transmit queue has room for a frame
    attached,     \* the falling edge of the interrupt pin calls fmc_eth_irq_callback
    rx_notice,    \* eth_device: a mail for the receive thread is on its way
    mails,        \* mails in the receive thread's mailbox
    arrived,      \* frames that have arrived so far
    links,        \* changes of the link so far
    overrun       \* a frame has met a full queue

\* The chip's registers and queues, the interrupt bits, the mailbox, the world.
chip  == <<qmu, rxe, room>>
mbox  == <<rx_notice, mails>>
world == <<attached, arrived, links, overrun>>
chipVars == <<chip, isr, mbox, world>>

(***************************************************************************)
(* A frame is link-layer data or IP.  Damaged ones do not get here: the    *)
(* driver does not ask for them (ks_setup).                                *)
(***************************************************************************)
Kind  == {"link", "ip"}
Frame == [n : 1 .. MaxFrames, kind : Kind]

\* The interrupts ks_setup_int enables.
Irq == {"RXI", "RXOI", "RXPSI", "LCI"}

ChipTypeOK ==
    /\ qmu \in Seq(Frame) /\ Len(qmu) <= QmuFrames
    /\ isr \subseteq Irq
    /\ rxe \in BOOLEAN /\ room \in BOOLEAN
    /\ attached \in BOOLEAN /\ rx_notice \in BOOLEAN
    /\ mails \in Nat
    /\ arrived \in 0 .. MaxFrames
    /\ links \in 0 .. MaxLinks
    /\ overrun \in BOOLEAN

ChipInit ==
    /\ qmu = <<>> /\ isr = {} /\ rxe = TRUE /\ room = TRUE
    /\ attached = TRUE /\ rx_notice = FALSE /\ mails = 0
    /\ arrived = 0 /\ links = 0 /\ overrun = FALSE

(***************************************************************************)
(* The line is low as long as a bit is set, and the pin interrupts on the  *)
(* falling edge only: no bit set while another one is pending is noticed.  *)
(* The callback posts a mail unless one is on its way (eth_device_ready).  *)
(***************************************************************************)
Raise(bits) ==
    LET edge == isr = {} /\ attached IN
    /\ isr' = isr \cup bits
    /\ rx_notice' = (rx_notice \/ edge)
    /\ mails' = IF edge /\ ~rx_notice THEN mails + 1 ELSE mails

FrameArrives(kind) ==
    /\ rxe /\ arrived < MaxFrames
    /\ arrived' = arrived + 1
    /\ IF Len(qmu) < QmuFrames
       THEN /\ qmu' = Append(qmu, [n |-> arrived + 1, kind |-> kind]) /\ Raise({"RXI"})
            /\ UNCHANGED overrun
       ELSE UNCHANGED qmu /\ Raise({"RXOI"}) /\ overrun' = TRUE
    /\ UNCHANGED <<rxe, room, attached, links>>

LinkChanges ==
    /\ links < MaxLinks
    /\ links' = links + 1
    /\ Raise({"LCI"})
    /\ UNCHANGED <<qmu, rxe, room, attached, arrived, overrun>>

\* The chip puts a frame on the wire.
Sends ==
    /\ ~room /\ room' = TRUE
    /\ UNCHANGED <<qmu, isr, rxe, mbox, world>>

Chip == (\E kind \in Kind : FrameArrives(kind)) \/ LinkChanges \/ Sends
=============================================================================
