----------------------------- MODULE HttpStream -----------------------------
(***************************************************************************)
(* src/remoting/httpstream.cpp: ReadHttpPacket over one HttpStream.  The   *)
(* connection hands over chunks of any size; _inboundBuffer keeps what is  *)
(* not yet a whole packet, and the packet returned last until the next     *)
(* call.  DapMessageStream::GetDapMessage is one such call.                *)
(*                                                                         *)
(* A byte is its place in the packet it belongs to.  The module is made to *)
(* be instantiated: RemoteController reads one connection with two.        *)
(***************************************************************************)
EXTENDS Integers, Sequences

CONSTANT CopyOrders     \* in which direction memcpy may copy: "up", "down"

VARIABLES
    packets,            \* what the client sent: bytes of header and of body,
                        \* and the Content-Length, of each packet
    wire,               \* bytes on their way
    closed,             \* the client has closed the connection
    inboundBuffer,      \* _inboundBuffer
    lastPacketSize,     \* _lastPacketSize
    readPc,             \* ReadHttpPacket: not running, in its await, or it has
                        \* returned an empty packet
    packetsRead,        \* history: the packets it returned, 0 for one that is
                        \* not as it was sent
    overlapped          \* history: the ranges of a memcpy overlapped

connection == <<packets, wire, closed>>

Byte(n, i) == [packet |-> n, at |-> i]
Bytes(n)   == [i \in 1 .. packets[n].head + packets[n].body |-> Byte(n, i)]

\* HttpParser: a whole header at the beginning of the buffer.
Header(buffer) ==
    /\ buffer # <<>>
    /\ LET n == buffer[1].packet IN
         /\ packets[n].head <= Len(buffer)
         /\ \A i \in 1 .. packets[n].head : buffer[i] = Byte(n, i)

\* Mutant of PacketSize: Content-Length is not looked at.
PacketSize_Header(buffer) == packets[buffer[1].packet].head

PacketSize(buffer) ==
    LET n == buffer[1].packet IN packets[n].head + packets[n].length

Complete(buffer) == Header(buffer) /\ PacketSize(buffer) <= Len(buffer)

Contents(bytes) == IF bytes = Bytes(bytes[1].packet) THEN bytes[1].packet ELSE 0

\* PopLastPacketBytes moves what is behind the last packet to the front with
\* memcpy.  Ranges that overlap are undefined: copied from the end, a byte that
\* was already overwritten is copied in place of the original.
Left     == Len(inboundBuffer) - lastPacketSize
Overlaps == lastPacketSize # 0 /\ Left > lastPacketSize

Popped(order) ==
    IF lastPacketSize = 0 THEN inboundBuffer
    ELSE [i \in 1 .. Left |->
            IF order = "up" THEN inboundBuffer[i + lastPacketSize]
            ELSE inboundBuffer[i + lastPacketSize *
                                 ((Len(inboundBuffer) - i) \div lastPacketSize)]]

Init ==
    /\ inboundBuffer = <<>> /\ lastPacketSize = 0
    /\ readPc = "idle" /\ packetsRead = <<>>

\* Mutant of GetNextPacket: the size is kept before the body is there.
GetNextPacket_SizeFirst(buffer) ==
    /\ inboundBuffer' = buffer
    /\ lastPacketSize' = IF Header(buffer) THEN PacketSize(buffer) ELSE 0
    /\ IF Complete(buffer)
       THEN /\ packetsRead' = Append(packetsRead, Contents(SubSeq(buffer, 1, PacketSize(buffer))))
            /\ readPc' = "idle"
       ELSE /\ readPc' = "await"
            /\ UNCHANGED packetsRead

\* One turn of the loop of ReadHttpPacket, up to its return or its next await.
GetNextPacket(buffer) ==
    /\ inboundBuffer' = buffer
    /\ IF Complete(buffer)
       THEN /\ lastPacketSize' = PacketSize(buffer)
            /\ packetsRead' = Append(packetsRead, Contents(SubSeq(buffer, 1, PacketSize(buffer))))
            /\ readPc' = "idle"
       ELSE /\ lastPacketSize' = 0
            /\ readPc' = "await"
            /\ UNCHANGED packetsRead

\* Mutant of ReadHttpPacket: it awaits before it looks into the buffer.
ReadHttpPacket_Awaits ==
    /\ readPc = "idle"
    /\ \E order \in CopyOrders : inboundBuffer' = Popped(order)
    /\ lastPacketSize' = 0
    /\ readPc' = "await"
    /\ overlapped' = (overlapped \/ Overlaps)
    /\ UNCHANGED <<connection, packetsRead>>

\* ReadHttpPacket is called: the last packet is popped before the next is sought.
ReadHttpPacket ==
    /\ readPc = "idle"
    /\ \E order \in CopyOrders : GetNextPacket(Popped(order))
    /\ overlapped' = (overlapped \/ Overlaps)
    /\ UNCHANGED connection

\* Mutant of AppendBytes: a chunk replaces what is left of the one before.
AppendBytes_Replaces ==
    /\ readPc = "await"
    /\ \E n \in 1 .. Len(wire) :
         /\ GetNextPacket(SubSeq(wire, 1, n))
         /\ wire' = SubSeq(wire, n + 1, Len(wire))
    /\ UNCHANGED <<packets, closed, overlapped>>

\* A chunk arrives.  AppendBytes pops too, but in the await nothing is left to.
AppendBytes ==
    /\ readPc = "await"
    /\ \E n \in 1 .. Len(wire) :
         /\ GetNextPacket(inboundBuffer \o SubSeq(wire, 1, n))
         /\ wire' = SubSeq(wire, n + 1, Len(wire))
    /\ UNCHANGED <<packets, closed, overlapped>>

\* Mutant of Eof: half a packet is waited for.
Eof_Whole ==
    /\ readPc = "await"
    /\ closed /\ wire = <<>> /\ inboundBuffer = <<>>
    /\ readPc' = "ended"
    /\ UNCHANGED <<connection, inboundBuffer, lastPacketSize, packetsRead, overlapped>>

\* The read returns nothing: so does ReadHttpPacket, whatever is in the buffer.
Eof ==
    /\ readPc = "await"
    /\ closed /\ wire = <<>>
    /\ readPc' = "ended"
    /\ UNCHANGED <<connection, inboundBuffer, lastPacketSize, packetsRead, overlapped>>

Next == ReadHttpPacket \/ AppendBytes \/ Eof
=============================================================================
