----------------------------- MODULE FrameLink -----------------------------
(***************************************************************************)
(* Two ends of a serial line that talk in the frames of FrameCodec: one    *)
(* sends commands and answers, the other accepts whatever has come when    *)
(* its device says so.  The line and the device belong to the user of the  *)
(* packages: it damages and loses bytes, takes less than it is given, and  *)
(* hands over any number of bytes at a time.                               *)
(***************************************************************************)
EXTENDS FrameCodec, FiniteSetsExt, SequencesExt

CONSTANTS
    UsedProtos,      \* the formats that are looked at
    Addr, OtherAddr, \* addr of the accepting end, and somebody else's
    Bodies,          \* what the user sends
    Types, Acks,     \* types of commands, HDLC_ACK_* and FF_ACK_*
    FirstIds,        \* id_count and snCount to begin with: any, after enough calls
    AckIds,          \* the ids that are answered
    MaxLens,         \* sizes of rx_buffer
    Chunks,          \* sizes accept is called with
    NoiseBytes,      \* what a damaged byte may become
    Cuts,            \* how many bytes a short write takes
    MaxSent, MaxNoise, MaxFrame   \* bounds: calls, damaged bytes, bytes of a frame

\* Types leave the two highest bits to the acks, and lengths fit their fields.
ASSUME FrameLinkAssumption ==
    /\ UsedProtos \subseteq Protos
    /\ Addr # OtherAddr /\ {Addr, OtherAddr} \subseteq Byte
    /\ Bodies \subseteq Seq(Byte) /\ \A b \in Bodies : 2 * Len(b) + 28 < 65536
    /\ \A p \in UsedProtos : Types \subseteq 0 .. (IF p = "hdlc" THEN 63 ELSE 16383)
    /\ Acks \subseteq 1 .. 2
    /\ FirstIds \subseteq Nat /\ AckIds \subseteq Nat
    /\ MaxLens \subseteq Nat /\ Chunks \subseteq Nat
    /\ \A m \in MaxLens : \A k \in Chunks : k \in 1 .. m
    /\ NoiseBytes \subseteq Byte /\ Cuts \subseteq Nat
    /\ MaxSent \in Nat /\ MaxNoise \in Nat /\ MaxFrame \in Nat

VARIABLES
    proto,        \* which of the two packages it is
    maxlen,       \* the size of rx_buffer
    id_count,     \* of the sending end; snCount in fffeFrame
    rx_buffer,    \* rx_buffer[0 .. rx_len - 1] of the accepting end
    line,         \* the bytes on their way; as in rx_buffer, each with the call
                  \* it comes from and its place in what that call wrote
    sent,         \* the calls, whether they succeeded, whether noise hit their bytes
    delivered,    \* what rx_indicate was called with, and whose end marker that was
    noise         \* how many bytes were damaged or lost

vars == <<proto, maxlen, id_count, rx_buffer, line, sent, delivered, noise>>

IdRange == IF proto = "hdlc" THEN 256 ELSE 65536

\* fffeFrame has no addresses: there are two ends.
Destinations == IF proto = "hdlc" THEN {Addr, OtherAddr} ELSE {Addr}

Messages ==
    [dst : Destinations, type : 0 .. IdRange - 1, id : 0 .. IdRange - 1, body : Bodies]

\* A byte of a call.
Sent == [byte : Byte, call : DOMAIN sent, pos : Nat \ {0}]

TypeOK ==
    /\ proto \in UsedProtos /\ maxlen \in MaxLens
    /\ id_count \in 0 .. IdRange - 1
    /\ rx_buffer \in Seq(Sent) /\ Len(rx_buffer) <= maxlen
    /\ line \in Seq(Sent)
    /\ sent \in Seq([msg : Messages, ok : BOOLEAN, hit : BOOLEAN]) /\ Len(sent) <= MaxSent
    /\ \A i \in DOMAIN delivered : delivered[i].call \in DOMAIN sent
    /\ noise \in 0 .. MaxNoise

Init ==
    /\ proto \in UsedProtos /\ maxlen \in MaxLens
    /\ id_count \in FirstIds /\ id_count < IdRange
    /\ rx_buffer = <<>> /\ line = <<>> /\ sent = <<>> /\ delivered = <<>>
    /\ noise = 0
---------------------------------------------------------------------------
(***************************************************************************)
(* Hdlc7c7eFrame_type, fffeFrame_cmd and the two _ack: under tx_mutex the  *)
(* frame is built, coded and written.  The call fails, and returns 0, when *)
(* write takes less than it was given, or when there is nothing to write.  *)
(***************************************************************************)
Send(msg) ==
    LET bytes == Written(proto, OtherAddr, msg)
        put(n, ok) ==
          /\ line' = line \o [i \in 1 .. n |-> [byte |-> bytes[i], call |-> Len(sent) + 1, pos |-> i]]
          /\ sent' = Append(sent, [msg |-> msg, ok |-> ok, hit |-> FALSE])
    IN  /\ Len(sent) < MaxSent /\ Len(bytes) <= MaxFrame
        /\ \/ put(Len(bytes), bytes # <<>>)
           \/ \E n \in Cuts : n < Len(bytes) /\ put(n, FALSE)
        /\ UNCHANGED <<proto, maxlen, rx_buffer, delivered, noise>>

\* The bits of an ack are the two highest ones of the type.
AckBit(ack) == (IF proto = "hdlc" THEN 64 ELSE 16384) * ack

\* Mutant: id_count is wider than the field it goes into.
CmdCounts ==
    /\ \E dst \in Destinations, t \in Types, b \in Bodies :
         Send([dst |-> dst, type |-> t, id |-> id_count, body |-> b])
    /\ id_count' = id_count + 1

Cmd ==
    /\ \E dst \in Destinations, t \in Types, b \in Bodies :
         Send([dst |-> dst, type |-> t, id |-> id_count, body |-> b])
    /\ id_count' = (id_count + 1) % IdRange

Ack ==
    /\ \E t \in Types, a \in Acks, b \in Bodies, id \in AckIds :
         /\ id < IdRange
         /\ Send([dst |-> Addr, type |-> t + AckBit(a), id |-> id, body |-> b])
    /\ UNCHANGED id_count
---------------------------------------------------------------------------
\* The line, external: a byte changes or is lost.
Noise ==
    /\ noise < MaxNoise /\ noise' = noise + 1
    /\ \E i \in DOMAIN line :
         /\ sent' = [sent EXCEPT ![line[i].call].hit = TRUE]
         /\ \/ \E b \in NoiseBytes \ {line[i].byte} : line' = [line EXCEPT ![i].byte = b]
            \/ line' = RemoveAt(line, i)
    /\ UNCHANGED <<proto, maxlen, id_count, rx_buffer, delivered>>
---------------------------------------------------------------------------
(***************************************************************************)
(* Hdlc7c7eFrame_accept and fffeFrame_accept, a block of them: a size      *)
(* beyond maxlen is taken in blocks of maxlen, which is what calls with    *)
(* these sizes do.  All of it runs under rx_mutex.                         *)
(***************************************************************************)
At(s, mark) ==
    {n \in DOMAIN s : /\ n + Len(mark) - 1 <= Len(s)
                      /\ \A k \in DOMAIN mark : s[n + k - 1].byte = mark[k]}

\* Where frames end: at an end marker, the first after a start marker.
Ends(s) ==
    LET starts == At(s, StartMark(proto))
        ends   == At(s, EndMark(proto))
    IN  {e \in ends : \E b \in starts : b < e /\ \A n \in b + 1 .. e - 1 : n \notin starts \cup ends}

\* The frame that ends at e begins at the last start marker before.
FrameTo(s, e) ==
    LET b == Max({n \in At(s, StartMark(proto)) : n < e})
    IN  [i \in 1 .. e + Len(EndMark(proto)) - b |-> s[b + i - 1].byte]

\* The calls of rx_indicate on the way through s.
Indicated(s) ==
    LET ends == Ends(s)
        msgs[n \in 0 .. Len(s)] ==
          IF n = 0 THEN <<>>
          ELSE IF n \in ends /\ Accepts(proto, FrameTo(s, n), Addr)
          THEN Append(msgs[n - 1], [msg |-> Message(proto, FrameTo(s, n), Addr), call |-> s[n].call])
          ELSE msgs[n - 1]
    IN  msgs[Len(s)]

\* Mutant: the bytes of a frame that is not complete yet are forgotten.
RestDropped(s) == <<>>

\* What stays in the buffer: from the frame that is not complete yet, or behind the last.
Rest(s) ==
    IF At(s, StartMark(proto)) = {} THEN <<>>
    ELSE LET b == Max(At(s, StartMark(proto))) IN
         IF Ends(s) # {} /\ Max(Ends(s)) > b
         THEN SubSeq(s, Max(Ends(s)) + Len(EndMark(proto)), Len(s))
         ELSE SubSeq(s, b, Len(s))

\* Too much for the buffer: what it holds is given up.
Kept(n) == IF Len(rx_buffer) + n > maxlen THEN <<>> ELSE rx_buffer

Accept(n) ==
    LET r   == Min({n, Len(line)})
        got == Kept(n) \o SubSeq(line, 1, r)
    IN  /\ r > 0
        /\ line' = SubSeq(line, r + 1, Len(line))
        /\ IF Len(got) < MinLen(proto)
           THEN rx_buffer' = got /\ UNCHANGED delivered
           ELSE rx_buffer' = Rest(got) /\ delivered' = delivered \o Indicated(got)
        /\ UNCHANGED <<proto, maxlen, id_count, sent, noise>>

Next == Cmd \/ Ack \/ Noise \/ \E n \in Chunks : Accept(n)

Spec == Init /\ [][Next]_vars
---------------------------------------------------------------------------
ForMe(call) == call.msg.dst = Addr /\ call.ok

(***************************************************************************)
(* Whatever noise, short writes and a small buffer do to the bytes, what   *)
(* rx_indicate gets was sent by a call that succeeded, to this end, is     *)
(* unchanged, comes once and in the order of the calls (the length, the    *)
(* sum and the CRC that accept looks at, and tx_mutex).                    *)
(***************************************************************************)
NothingInvented ==
    /\ \A i \in DOMAIN delivered :
         LET call == sent[delivered[i].call] IN ForMe(call) /\ delivered[i].msg = call.msg
    /\ \A i, j \in DOMAIN delivered : i < j => delivered[i].call < delivered[j].call

\* Room for a frame that has lost its end, a byte of the next, and what comes.
Roomy == \A k \in Chunks : maxlen > MaxFrame + k

(***************************************************************************)
(* In a buffer with room for a frame and a chunk, a frame whose bytes were *)
(* not damaged reaches rx_indicate, however the bytes are cut into chunks  *)
(* and whatever came before it.  fffeFrame keeps that only while no frame  *)
(* is damaged at all: see the README.                                      *)
(***************************************************************************)
IntactArrive ==
    line = <<>> /\ Roomy /\ (proto = "hdlc" \/ noise = 0) =>
      \A c \in DOMAIN sent : ForMe(sent[c]) /\ ~sent[c].hit =>
        [msg |-> sent[c].msg, call |-> c] \in Range(delivered)
===========================================================================
