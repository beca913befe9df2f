---------------------------- MODULE RemoteProofs ----------------------------
(***************************************************************************)
(* Theorems about RemoteController: that the session reads the packets     *)
(* that follow the handshake (PacketStream), and which clients make memcpy *)
(* overlap.  Every byte has a position in all that the client sent; start  *)
(* is where each packet begins, before its first byte.                     *)
(***************************************************************************)
EXTENDS StreamProofs

\* Packets do not overlap and none is empty.
Increasing(start) == \A m, n \in DOMAIN start : m < n => start[m] < start[n]

\* The byte is the one that the packet at a position has there.
IsAt(start, byte, position) ==
    \E n \in Nat :
       /\ n \in DOMAIN start /\ n + 1 \in DOMAIN start
       /\ start[n] < position /\ position <= start[n + 1]
       /\ byte = [packet |-> n, at |-> position - start[n]]

\* So are all bytes of a sequence that begins behind a position.
At(start, bytes, position) ==
    \A i \in 1 .. Len(bytes) : IsAt(start, bytes[i], position + i)

Starts(N) == [1 .. N + 1 -> Nat]

(* Positions.                                                               *)

LEMMA InOrder ==
    ASSUME NEW N \in Nat, NEW start \in Starts(N), Increasing(start),
           NEW m \in 1 .. N + 1, NEW n \in 1 .. N + 1, m <= n
    PROVE  start[m] \in Nat /\ start[n] \in Nat /\ start[m] <= start[n]
<1>1. start[m] \in Nat /\ start[n] \in Nat /\ m \in DOMAIN start /\ n \in DOMAIN start
  BY DEF Starts
<1>2. CASE m = n
  BY <1>1, <1>2
<1>3. CASE m < n
  BY <1>1, <1>3 DEF Increasing
<1>. QED  BY <1>2, <1>3

\* A position is in one packet only.
LEMMA OnePacket ==
    ASSUME NEW N \in Nat, NEW start \in Starts(N), Increasing(start),
           NEW m \in 1 .. N, NEW n \in 1 .. N, NEW p \in Nat,
           start[m] < p, p <= start[m + 1], start[n] < p, p <= start[n + 1]
    PROVE  m = n
<1>1. start[m] \in Nat /\ start[n] \in Nat /\ start[m + 1] \in Nat /\ start[n + 1] \in Nat
  BY DEF Starts
<1>2. ASSUME m < n  PROVE FALSE
  <2>1. start[m + 1] <= start[n]
    BY <1>2, InOrder
  <2>. QED  BY <1>1, <2>1
<1>3. ASSUME n < m  PROVE FALSE
  <2>1. start[n + 1] <= start[m]
    BY <1>3, InOrder
  <2>. QED  BY <1>1, <2>1
<1>. QED  BY <1>2, <1>3

\* The byte of a packet is found at its position.
LEMMA ByteOfPacket ==
    ASSUME NEW N \in Nat, NEW start \in Starts(N), Increasing(start),
           NEW bytes, NEW position \in Nat, At(start, bytes, position),
           NEW i \in 1 .. Len(bytes), Len(bytes) \in Nat,
           NEW n \in 1 .. N, start[n] < position + i, position + i <= start[n + 1]
    PROVE  bytes[i] = [packet |-> n, at |-> (position + i) - start[n]]
<1>0. IsAt(start, bytes[i], position + i)
  BY DEF At
<1>1. PICK m \in Nat :
        /\ m \in DOMAIN start /\ m + 1 \in DOMAIN start
        /\ start[m] < position + i /\ position + i <= start[m + 1]
        /\ bytes[i] = [packet |-> m, at |-> (position + i) - start[m]]
  BY <1>0 DEF IsAt
<1>2. m \in 1 .. N /\ position + i \in Nat
  <2>1. DOMAIN start = 1 .. N + 1
    BY DEF Starts
  <2>. QED  BY <1>1, <2>1
<1>3. m = n
  BY <1>1, <1>2, OnePacket
<1>. QED  BY <1>1, <1>3

\* What is cut off a sequence, or put behind it, stays at its position.
LEMMA AtPrefix ==
    ASSUME NEW start, NEW S, NEW bytes \in Seq(S), NEW position \in Nat,
           At(start, bytes, position), NEW n \in 0 .. Len(bytes)
    PROVE  At(start, SubSeq(bytes, 1, n), position)
<1>1. Len(SubSeq(bytes, 1, n)) = n /\ Len(bytes) \in Nat
  BY CutBytes, LenProperties
<1>2. \A i \in 1 .. n : SubSeq(bytes, 1, n)[i] = bytes[i]
  BY <1>1
<1>. QED  BY <1>1, <1>2 DEF At

LEMMA AtSuffix ==
    ASSUME NEW start, NEW S, NEW bytes \in Seq(S), NEW position \in Nat,
           At(start, bytes, position), NEW n \in 0 .. Len(bytes)
    PROVE  At(start, SubSeq(bytes, n + 1, Len(bytes)), position + n)
<1>1. Len(SubSeq(bytes, n + 1, Len(bytes))) = Len(bytes) - n /\ Len(bytes) \in Nat
  BY CutBytes, LenProperties
<1>2. ASSUME NEW i \in 1 .. Len(bytes) - n
      PROVE  /\ SubSeq(bytes, n + 1, Len(bytes))[i] = bytes[n + i]
             /\ n + i \in 1 .. Len(bytes)
             /\ position + (n + i) = position + n + i
  BY <1>1
<1>3. ASSUME NEW i \in 1 .. Len(bytes) - n
      PROVE  IsAt(start, SubSeq(bytes, n + 1, Len(bytes))[i], position + n + i)
  <2>1. IsAt(start, bytes[n + i], position + (n + i))
    BY <1>2 DEF At
  <2>. QED  BY <1>2, <2>1
<1>. QED  BY <1>1, <1>3 DEF At

LEMMA AtConcat ==
    ASSUME NEW start, NEW S, NEW bytes \in Seq(S), NEW more \in Seq(S), NEW position \in Nat,
           At(start, bytes, position), At(start, more, position + Len(bytes))
    PROVE  At(start, bytes \o more, position)
<1>1. /\ Len(bytes) \in Nat /\ Len(more) \in Nat
      /\ Len(bytes \o more) = Len(bytes) + Len(more)
      /\ \A i \in 1 .. Len(bytes) + Len(more) :
           (bytes \o more)[i] = IF i <= Len(bytes) THEN bytes[i] ELSE more[i - Len(bytes)]
  BY LenProperties, ConcatProperties
<1>. SUFFICES ASSUME NEW i \in 1 .. Len(bytes) + Len(more)
              PROVE  IsAt(start, (bytes \o more)[i], position + i)
  BY <1>1 DEF At
<1>2. CASE i <= Len(bytes)
  BY <1>1, <1>2 DEF At
<1>3. CASE i > Len(bytes)
  <2>. DEFINE j == i - Len(bytes)
  <2>1. j \in 1 .. Len(more) /\ position + Len(bytes) + j = position + i
    BY <1>1, <1>3
  <2>2. (bytes \o more)[i] = more[j]
    BY <1>1, <1>3
  <2>. HIDE DEF j
  <2>. QED  BY <2>1, <2>2 DEF At
<1>. QED  BY <1>1, <1>2, <1>3

\* Another packet behind the last moves none.
LEMMA AtExtended ==
    ASSUME NEW start, NEW longer, NEW bytes, NEW position,
           DOMAIN start \subseteq DOMAIN longer,
           \A n \in DOMAIN start : longer[n] = start[n],
           At(start, bytes, position)
    PROVE  At(longer, bytes, position)
  BY DEF At, IsAt

----------------------------------------------------------------------------
(* The invariant.                                                           *)

\* The session's stream can be told where it is: nothing overlapped so far and every
\* packet says how long it is.
Plain == ~overlapped /\ \A n \in DOMAIN packets : ~Unmeasured(n)

\* Where the packets begin.
Log(start) ==
    /\ start \in Starts(Len(packets)) /\ Increasing(start)
    /\ start[1] = 0
    /\ \A n \in DOMAIN packets : start[n + 1] = start[n] + packets[n].head + packets[n].body

\* Of all that was sent taken bytes were read off the connection, and the next are on
\* their way, up to the end or to where the connection was cut.
Flow(start, taken) ==
    /\ Log(start)
    /\ taken + Len(wire) <= start[Len(packets) + 1]
    /\ ~closed => taken + Len(wire) = start[Len(packets) + 1] /\ arriving = Len(packets)
    /\ \A n \in DOMAIN packets : n <= arriving <=> start[n + 1] <= taken + Len(wire)
    /\ At(start, wire, taken)

\* The handshake's reader has all that was taken.
HandshakeFlow(start, taken) ==
    stage = "handshake" /\ hRead = <<>> =>
       Len(hBuffer) = taken /\ At(start, hBuffer, 0)

\* The session's buffer is what was taken last; behind its last packet begins the next
\* one, or a later one if the handshake's reader took too much.
SessionFlow(start, taken) ==
    hRead # <<>> =>
       /\ Len(sBuffer) <= taken
       /\ At(start, sBuffer, taken - Len(sBuffer))
       /\ Len(sRead) + 1 <= Len(packets)
       /\ start[Len(sRead) + 2] <= taken - Len(sBuffer) + sLast
       /\ ~Swallowed =>
            /\ start[Len(sRead) + 2] = taken - Len(sBuffer) + sLast
            /\ \A i \in 1 .. Len(sRead) : sRead[i] = i + 1

Flows ==
    Plain => \E start \in Starts(Len(packets)), taken \in Nat :
       Flow(start, taken) /\ HandshakeFlow(start, taken) /\ SessionFlow(start, taken)

\* The session reads nothing before the handshake is over, awaits only what it lacks,
\* and has no more than one packet of a client that does not pipeline.
SessionTurn ==
    /\ hRead = <<>> => sBuffer = <<>> /\ sLast = 0 /\ sRead = <<>> /\ sPc = "idle"
    /\ stage = "create" \/ stage = "session" => hRead # <<>>
    /\ sPc # "idle" => ~ Session!Complete(sBuffer)
    /\ sPc = "ended" => closed /\ wire = <<>>
    /\ ~pipelined => Len(packets) <= Len(sRead) + 2
    /\ Plain /\ ~pipelined => sLast = 0 \/ sLast = Len(sBuffer)

RemoteInv == ReaderInv /\ SessionTurn /\ Flows /\ OverlapIsPipelined

----------------------------------------------------------------------------
(* What the reader finds.                                                   *)

\* A whole packet in a plain buffer begins where the buffer does and is returned as
\* it was sent.
LEMMA WholePacket ==
    ASSUME TypeOK, Plain, NEW start, Log(start), NEW position \in Nat,
           NEW buffer \in Seq(ByteType), At(start, buffer, position),
           Session!Complete(buffer)
    PROVE  \E n \in DOMAIN packets :
              /\ n = buffer[1].packet
              /\ start[n] = position
              /\ Session!PacketSize(buffer) = packets[n].head + packets[n].body
              /\ Session!PacketSize(buffer) \in 1 .. Len(buffer)
              /\ Session!Contents(SubSeq(buffer, 1, Session!PacketSize(buffer))) = n
<1>1. PICK n, size : n = buffer[1].packet /\ size = Session!PacketSize(buffer)
  OBVIOUS
<1>2. buffer # <<>> /\ size <= Len(buffer) /\ buffer[1] = [packet |-> n, at |-> 1]
  <2>1. /\ buffer # <<>> /\ size <= Len(buffer)
        /\ \A i \in 1 .. packets[n].head : buffer[i] = Session!Byte(n, i)
    BY <1>1 DEF Session!Complete, Session!Header
  <2>2. 1 \in 1 .. packets[n].head
    BY <1>1, <2>1, FirstOfBuffer, SizesOfPacket
  <2>. QED  BY <2>1, <2>2 DEF Session!Byte
<1>3. PICK N \in Nat, length \in Nat : N = Len(packets) /\ length = Len(buffer)
  BY LenProperties DEF TypeOK
<1>4. n \in 1 .. N /\ DOMAIN packets = 1 .. N
  BY <1>1, <1>2, <1>3, FirstOfBuffer, LenProperties DEF TypeOK
<1>5. packets[n].head \in Nat \ {0} /\ packets[n].body \in Nat
      /\ packets[n].length = packets[n].body
  BY <1>4, SizesOfPacket DEF Plain, Unmeasured
<1>6. size = packets[n].head + packets[n].body /\ size \in 1 .. length
  <2>1. size = packets[n].head + packets[n].length
    BY <1>1 DEF Session!PacketSize
  <2>. QED  BY <1>2, <1>3, <1>5, <2>1
<1>7. start \in Starts(N) /\ Increasing(start) /\ start[n] \in Nat
  BY <1>3, <1>4 DEF Log, Starts
<1>8. start[n + 1] = start[n] + size
  <2>1. start[n + 1] = start[n] + packets[n].head + packets[n].body
    BY <1>4 DEF Log
  <2>. QED  BY <1>5, <1>6, <1>7, <2>1
<1>9. start[n] = position
  <2>1. IsAt(start, buffer[1], position + 1)
    BY <1>3, <1>6 DEF At
  <2>2. PICK m \in Nat : /\ m \in DOMAIN start
                         /\ buffer[1] = [packet |-> m, at |-> (position + 1) - start[m]]
    BY <2>1 DEF IsAt
  <2>3. m = n /\ (position + 1) - start[m] = 1
    BY <1>2, <2>2
  <2>. QED  BY <1>7, <2>3
<1>10. ASSUME NEW i \in 1 .. size  PROVE buffer[i] = Session!Byte(n, i)
  <2>1. i \in 1 .. length /\ position + i \in Nat
    BY <1>6
  <2>2. start[n] < position + i /\ position + i <= start[n + 1] /\ (position + i) - start[n] = i
    BY <1>6, <1>8, <1>9, <2>1
  <2>3. i \in 1 .. Len(buffer) /\ Len(buffer) \in Nat
    BY <1>3, <2>1
  <2>4. PICK at \in 1 .. Len(buffer) : at = i /\ start[n] < position + at
                                      /\ position + at <= start[n + 1]
    BY <2>2, <2>3
  <2>5. buffer[at] = [packet |-> n, at |-> (position + at) - start[n]]
    BY <1>4, <1>7, <2>3, <2>4, ByteOfPacket
  <2>. QED  BY <2>2, <2>4, <2>5 DEF Session!Byte
<1>11. Session!Contents(SubSeq(buffer, 1, size)) = n
  <2>. DEFINE bytes == SubSeq(buffer, 1, size)
  <2>1. bytes = [i \in 1 .. size |-> buffer[i]]
    BY <1>3, <1>6
  <2>2. bytes[1].packet = n
    BY <1>1, <1>6, <2>1
  <2>3. bytes = Session!Bytes(n)
    BY <1>6, <1>10, <2>1 DEF Session!Bytes
  <2>. QED  BY <2>2, <2>3 DEF Session!Contents
<1>. QED  BY <1>1, <1>3, <1>4, <1>6, <1>9, <1>11

\* A packet that has arrived and begins where a plain buffer does is seen.
LEMMA SeenWhenWhole ==
    ASSUME TypeOK, Plain, NEW start, Log(start),
           NEW buffer \in Seq(ByteType), NEW n \in DOMAIN packets,
           At(start, buffer, start[n]), start[n + 1] <= start[n] + Len(buffer)
    PROVE  Session!Complete(buffer)
<1>1. Len(buffer) \in Nat /\ DOMAIN packets = 1 .. Len(packets) /\ Len(packets) \in Nat
  BY LenProperties DEF TypeOK
<1>2. /\ packets[n].head \in Nat \ {0} /\ packets[n].body \in Nat
      /\ packets[n].length = packets[n].body
  BY SizesOfPacket DEF Plain, Unmeasured
<1>3. /\ start \in Starts(Len(packets)) /\ Increasing(start)
      /\ start[n] \in Nat /\ start[n + 1] = start[n] + packets[n].head + packets[n].body
  <2>1. start \in Starts(Len(packets)) /\ Increasing(start)
    BY DEF Log
  <2>2. start[n] \in Nat
    BY <1>1, <2>1 DEF Starts
  <2>. QED  BY <2>1, <2>2 DEF Log
<1>4. packets[n].head + packets[n].body <= Len(buffer)
  BY <1>1, <1>2, <1>3
<1>5. ASSUME NEW i \in 1 .. packets[n].head  PROVE buffer[i] = Session!Byte(n, i)
  <2>1. /\ i \in 1 .. Len(buffer)
        /\ start[n] < start[n] + i /\ start[n] + i <= start[n + 1]
        /\ (start[n] + i) - start[n] = i
    <3>. DEFINE head == packets[n].head
                body == packets[n].body
                first == start[n]
    <3>1. head \in Nat /\ body \in Nat /\ first \in Nat /\ i \in 1 .. head
          /\ head + body <= Len(buffer) /\ start[n + 1] = first + head + body
      BY <1>2, <1>3, <1>4
    <3>. HIDE DEF head, body, first
    <3>2. i \in 1 .. Len(buffer) /\ first < first + i /\ first + i <= start[n + 1]
          /\ (first + i) - first = i
      BY <1>1, <3>1
    <3>. QED  BY <3>2 DEF first
  <2>2. buffer[i] = [packet |-> n, at |-> (start[n] + i) - start[n]]
    BY <1>1, <1>3, <2>1, ByteOfPacket
  <2>. QED  BY <2>1, <2>2 DEF Session!Byte
<1>6. buffer # <<>> /\ buffer[1].packet = n
  <2>1. Len(buffer) # 0 /\ 1 \in 1 .. packets[n].head
    BY <1>1, <1>2, <1>4
  <2>2. buffer # <<>>
    BY <2>1, EmptySeq
  <2>3. buffer[1] = [packet |-> n, at |-> 1]
    BY <1>5, <2>1 DEF Session!Byte
  <2>. QED  BY <2>2, <2>3
<1>. QED  BY <1>1, <1>2, <1>4, <1>5, <1>6 DEF Session!Complete, Session!Header, Session!PacketSize

\* Both readers see the same in the same buffer.
LEMMA SameReader ==
    ASSUME NEW buffer
    PROVE  /\ Handshake!Complete(buffer) <=> Session!Complete(buffer)
           /\ Handshake!PacketSize(buffer) = Session!PacketSize(buffer)
  BY DEF Handshake!Complete, Session!Complete, Handshake!Header, Session!Header,
         Handshake!PacketSize, Session!PacketSize, Handshake!Byte, Session!Byte

LEMMA OneQuotient ==
    ASSUME NEW a \in Nat, NEW b \in Nat, b <= a, a < b + b
    PROVE  a \div b = 1
  OBVIOUS

\* Where the ranges do not overlap, what remains is what was behind the last packet.
LEMMA PoppedAt ==
    ASSUME TypeOK, NEW order, ~ Session!Overlaps, NEW start, NEW position \in Nat,
           At(start, sBuffer, position)
    PROVE  /\ At(start, Session!Popped(order), position + sLast)
           /\ Len(Session!Popped(order)) = Len(sBuffer) - sLast
<1>1. sBuffer \in Seq(ByteType) /\ sLast \in 0 .. Len(sBuffer) /\ Len(sBuffer) \in Nat
  BY LenProperties DEF TypeOK, ReaderOK
<1>2. CASE sLast = 0
  BY <1>1, <1>2 DEF Session!Popped
<1>3. CASE sLast # 0
  <2>. DEFINE left == Len(sBuffer) - sLast
  <2>1. left \in Nat /\ left <= sLast /\ sLast \in Nat
    BY <1>1, <1>3 DEF Session!Overlaps, Session!Left
  <2>2. ASSUME NEW i \in 1 .. left
        PROVE  /\ i + sLast * ((Len(sBuffer) - i) \div sLast) = i + sLast
               /\ i + sLast \in 1 .. Len(sBuffer)
               /\ position + (i + sLast) = position + sLast + i
    <3>1. Len(sBuffer) - i \in Nat /\ sLast <= Len(sBuffer) - i
          /\ Len(sBuffer) - i < sLast + sLast
      BY <1>1, <2>1
    <3>2. (Len(sBuffer) - i) \div sLast = 1
      BY <2>1, <3>1, OneQuotient
    <3>. QED  BY <1>1, <2>1, <3>2
  <2>3. Session!Popped(order) = [i \in 1 .. left |-> sBuffer[i + sLast]]
    BY <1>3, <2>2 DEF Session!Popped, Session!Left
  <2>4. Len(Session!Popped(order)) = left
    <3>1. DOMAIN Session!Popped(order) = 1 .. left
      BY <2>3
    <3>2. /\ Len(Session!Popped(order)) \in Nat
          /\ DOMAIN Session!Popped(order) = 1 .. Len(Session!Popped(order))
      BY PoppedIsBytes, LenProperties
    <3>. QED  BY <2>1, <3>1, <3>2
  <2>. HIDE DEF left
  <2>5. ASSUME NEW i \in 1 .. left
        PROVE  IsAt(start, Session!Popped(order)[i], position + sLast + i)
    <3>1. IsAt(start, sBuffer[i + sLast], position + (i + sLast))
      BY <2>2 DEF At
    <3>. QED  BY <2>2, <2>3, <3>1
  <2>. QED  BY <2>4, <2>5 DEF At, left
<1>. QED  BY <1>2, <1>3

----------------------------------------------------------------------------
(* The client.                                                              *)

\* The lengths are numbers.
LEMMA Lengths ==
    ASSUME TypeOK
    PROVE  /\ Len(packets) \in Nat /\ Len(wire) \in Nat
           /\ Len(hBuffer) \in Nat /\ Len(sBuffer) \in Nat
           /\ Len(hRead) \in Nat /\ Len(sRead) \in Nat
           /\ hLast \in Nat /\ sLast \in 0 .. Len(sBuffer)
           /\ DOMAIN packets = 1 .. Len(packets)
  BY LenProperties DEF TypeOK, ReaderOK

\* A packet more, behind all others.
LEMMA LongerLog ==
    ASSUME NEW N \in Nat, NEW start \in Starts(N), Increasing(start),
           NEW size \in Nat \ {0}, NEW longer,
           longer = [n \in 1 .. N + 2 |-> IF n <= N + 1 THEN start[n] ELSE start[N + 1] + size]
    PROVE  /\ longer \in Starts(N + 1) /\ Increasing(longer)
           /\ longer[N + 2] = start[N + 1] + size
           /\ \A n \in 1 .. N + 1 : longer[n] = start[n] /\ start[n] \in Nat
<1>1. \A n \in 1 .. N + 1 : start[n] \in Nat
  BY DEF Starts
<1>2. /\ longer[N + 2] = start[N + 1] + size
      /\ \A n \in 1 .. N + 1 : longer[n] = start[n] /\ start[n] \in Nat
  BY <1>1
<1>3. start[N + 1] \in Nat /\ longer[N + 2] \in Nat
  BY <1>1, <1>2
<1>4. longer \in Starts(N + 1)
  BY <1>1, <1>2, <1>3 DEF Starts
<1>5. ASSUME NEW m \in 1 .. N + 2, NEW n \in 1 .. N + 2, m < n
      PROVE  longer[m] < longer[n]
  <2>1. CASE n <= N + 1
    <3>1. start[m] < start[n]
      BY <1>5, <2>1 DEF Increasing, Starts
    <3>. QED  BY <1>2, <1>5, <2>1, <3>1
  <2>2. CASE n = N + 2
    <3>1. start[m] <= start[N + 1]
      <4>1. m <= N + 1 /\ m \in 1 .. N + 1 /\ N + 1 \in 1 .. N + 1
        BY <1>5, <2>2
      <4>. QED  BY <4>1, InOrder
    <3>2. longer[m] = start[m] /\ start[m] \in Nat
      <4>1. m \in 1 .. N + 1
        BY <1>5, <2>2
      <4>. QED  BY <1>2, <4>1
    <3>. QED  BY <1>2, <1>3, <2>2, <3>1, <3>2
  <2>. QED  BY <2>1, <2>2
<1>6. DOMAIN longer = 1 .. N + 2
  OBVIOUS
<1>. QED  BY <1>2, <1>4, <1>5, <1>6 DEF Increasing

LEMMA ClientSendFlows ==
    ASSUME RemoteInv, NEW head \in HeaderSizes, NEW body \in BodySizes,
           NEW length \in BodySizes \cup {0}, ClientSend(head, body, length)
    PROVE  Flows'
<1>0. PICK N \in Nat : N = Len(packets)
  BY Lengths DEF RemoteInv, ReaderInv
<1>1. /\ TypeOK'
      /\ Len(wire') = Len(wire) + head + body
      /\ Len(packets') = N + 1
      /\ \A i \in 1 .. N : packets'[i] = packets[i]
      /\ packets'[N + 1] = [head |-> head, body |-> body, length |-> length]
  BY <1>0, ClientSendType, Lengths DEF RemoteInv, ReaderInv
<1>2. /\ Len(wire) \in Nat
      /\ DOMAIN packets = 1 .. N /\ DOMAIN packets' = 1 .. N + 1
      /\ wire \in Seq(ByteType)
  BY <1>0, <1>1, Lengths, LenProperties DEF RemoteInv, ReaderInv, TypeOK
<1>3. head \in Nat \ {0} /\ body \in Nat
  BY RemoteAssumption
<1>4. /\ ~closed /\ UNCHANGED <<closed, stage, hBuffer, hLast, hRead, sBuffer, sLast, sRead, overlapped>>
      /\ arriving' = N + 1
      /\ wire' = wire \o [i \in 1 .. head + body |-> [packet |-> N + 1, at |-> i]]
  BY <1>0 DEF ClientSend, handshakeVars, sessionVars
<1>. SUFFICES ASSUME Plain'
              PROVE  \E start \in Starts(N + 1), taken \in Nat :
                       Flow(start, taken)' /\ HandshakeFlow(start, taken)' /\ SessionFlow(start, taken)'
  BY <1>1 DEF Flows
<1>5. Plain
  BY <1>1, <1>2, <1>4 DEF Plain, Unmeasured
<1>6. PICK start \in Starts(N), taken \in Nat :
        Flow(start, taken) /\ HandshakeFlow(start, taken) /\ SessionFlow(start, taken)
  BY <1>0, <1>5 DEF RemoteInv, Flows
<1>7. PICK size \in Nat \ {0} : size = head + body
  BY <1>3
<1>8. /\ Increasing(start) /\ start[1] = 0
      /\ \A n \in 1 .. N : start[n + 1] = start[n] + packets[n].head + packets[n].body
      /\ start[N + 1] = taken + Len(wire) /\ At(start, wire, taken)
  BY <1>0, <1>2, <1>4, <1>6 DEF Flow, Log
<1>9. PICK longer : longer = [n \in 1 .. N + 2 |->
                              IF n <= N + 1 THEN start[n] ELSE start[N + 1] + size]
  OBVIOUS
<1>10. /\ longer \in Starts(N + 1) /\ Increasing(longer)
       /\ longer[N + 2] = start[N + 1] + size
       /\ \A n \in 1 .. N + 1 : longer[n] = start[n] /\ start[n] \in Nat
  BY <1>8, <1>9, LongerLog
<1>11. /\ DOMAIN start = 1 .. N + 1 /\ DOMAIN longer = 1 .. N + 2
       /\ 1 .. N + 1 \subseteq 1 .. N + 2
       /\ N + 1 \in 1 .. N + 1 /\ N + 2 \in 1 .. N + 2 /\ 1 \in 1 .. N + 1
  BY <1>10 DEF Starts
<1>12. /\ Len(wire') = Len(wire) + size
       /\ longer[N + 1] = taken + Len(wire) /\ longer[N + 2] = taken + Len(wire')
  <2>1. Len(wire') = Len(wire) + size
    BY <1>1, <1>2, <1>3, <1>7
  <2>2. longer[N + 1] = start[N + 1] /\ start[N + 1] \in Nat
    BY <1>10, <1>11
  <2>3. longer[N + 1] = taken + Len(wire)
    BY <1>8, <2>2
  <2>4. longer[N + 2] = (taken + Len(wire)) + size
    BY <1>8, <1>10
  <2>. QED  BY <1>2, <2>1, <2>3, <2>4
<1>13. ASSUME NEW bytes, NEW position, At(start, bytes, position)
       PROVE  At(longer, bytes, position)
  BY <1>10, <1>11, <1>13, AtExtended
<1>14. Log(longer)'
  <2>1. longer[1] = 0
    BY <1>8, <1>10, <1>11
  <2>2. ASSUME NEW n \in 1 .. N + 1
        PROVE  longer[n + 1] = longer[n] + packets'[n].head + packets'[n].body
    <3>1. CASE n \in 1 .. N
      <4>1. n + 1 \in 1 .. N + 1 /\ n \in 1 .. N + 1
        BY <3>1
      <4>. QED  BY <1>1, <1>8, <1>10, <3>1, <4>1
    <3>2. CASE n = N + 1
      <4>1. packets'[n].head = head /\ packets'[n].body = body
        BY <1>1, <3>2
      <4>2. n + 1 = N + 2
        BY <3>2
      <4>3. longer[n + 1] = longer[n] + size
        BY <1>10, <1>11, <3>2, <4>2
      <4>4. longer[n] \in Nat
        BY <1>10, <1>11, <3>2
      <4>. QED  BY <1>3, <1>7, <4>1, <4>3, <4>4
    <3>. QED  BY <3>1, <3>2
  <2>. QED  BY <1>1, <1>2, <1>10, <2>1, <2>2 DEF Log
<1>15. At(longer, wire', taken)
  <2>. DEFINE bytes == [i \in 1 .. head + body |-> [packet |-> N + 1, at |-> i]]
              S == [packet : 1 .. N + 1, at : Nat]
  <2>1. At(longer, wire, taken)
    BY <1>8, <1>13
  <2>2. bytes \in [1 .. size -> S] /\ \A i \in 1 .. size : bytes[i] = [packet |-> N + 1, at |-> i]
    BY <1>7
  <2>3. wire \in Seq(S) /\ wire' = wire \o bytes
    <3>1. ByteType \subseteq S
      BY <1>0 DEF ByteType
    <3>. QED  BY <1>2, <1>4, <3>1, SeqMonotonic
  <2>. HIDE DEF bytes, S
  <2>4. bytes \in Seq(S)
    BY <2>2, SeqDef
  <2>5. Len(bytes) = size
    BY <2>2, <2>4, LenProperties
  <2>6. At(longer, bytes, taken + Len(wire))
    <3>1. ASSUME NEW i \in 1 .. size  PROVE IsAt(longer, bytes[i], taken + Len(wire) + i)
      <4>1. /\ N + 1 \in Nat /\ N + 1 \in DOMAIN longer /\ N + 1 + 1 \in DOMAIN longer
            /\ longer[N + 1] < taken + Len(wire) + i
            /\ taken + Len(wire) + i <= longer[N + 1 + 1]
            /\ (taken + Len(wire) + i) - longer[N + 1] = i
        <5>1. N + 1 + 1 = N + 2 /\ N + 1 \in Nat
          OBVIOUS
        <5>. QED  BY <1>2, <1>11, <1>12, <5>1
      <4>2. bytes[i] = [packet |-> N + 1, at |-> (taken + Len(wire) + i) - longer[N + 1]]
        BY <2>2, <4>1
      <4>. QED  BY <4>1, <4>2, Zenon DEF IsAt
    <3>. QED  BY <2>5, <3>1 DEF At
  <2>. QED  BY <2>1, <2>3, <2>4, <2>6, AtConcat
<1>16. Flow(longer, taken)'
  <2>1. \A n \in 1 .. N + 1 : longer[n + 1] <= taken + Len(wire')
    <3>. TAKE n \in 1 .. N + 1
    <3>1. /\ N + 1 \in Nat /\ n + 1 <= N + 2
          /\ n + 1 \in 1 .. N + 1 + 1 /\ N + 2 \in 1 .. N + 1 + 1
      OBVIOUS
    <3>. QED  BY <1>10, <1>12, <3>1, InOrder
  <2>2. \A n \in 1 .. N + 1 : n <= arriving'
    BY <1>4
  <2>3. /\ taken + Len(wire') = longer[Len(packets') + 1]
        /\ taken + Len(wire') <= longer[Len(packets') + 1]
        /\ arriving' = Len(packets')
    <3>1. Len(packets') + 1 = N + 2
      BY <1>1
    <3>. QED  BY <1>1, <1>2, <1>4, <1>7, <1>12, <3>1
  <2>. QED  BY <1>2, <1>14, <1>15, <2>1, <2>2, <2>3 DEF Flow
<1>17. HandshakeFlow(longer, taken)'
  <2>. SUFFICES ASSUME stage = "handshake", hRead = <<>>
                PROVE  Len(hBuffer) = taken /\ At(longer, hBuffer, 0)
    BY <1>4 DEF HandshakeFlow
  <2>1. Len(hBuffer) = taken /\ At(start, hBuffer, 0)
    BY <1>6 DEF HandshakeFlow
  <2>. QED  BY <1>13, <2>1
<1>18. SessionFlow(longer, taken)'
  <2>. SUFFICES ASSUME hRead # <<>>
                PROVE  /\ Len(sBuffer) <= taken
                       /\ At(longer, sBuffer, taken - Len(sBuffer))
                       /\ Len(sRead) + 1 <= N + 1
                       /\ longer[Len(sRead) + 2] <= taken - Len(sBuffer) + sLast
                       /\ ~Swallowed =>
                            /\ longer[Len(sRead) + 2] = taken - Len(sBuffer) + sLast
                            /\ \A i \in 1 .. Len(sRead) : sRead[i] = i + 1
    BY <1>1, <1>4 DEF SessionFlow, Swallowed
  <2>1. /\ Len(sBuffer) <= taken
        /\ At(start, sBuffer, taken - Len(sBuffer))
        /\ Len(sRead) + 1 <= N
        /\ start[Len(sRead) + 2] <= taken - Len(sBuffer) + sLast
        /\ ~Swallowed =>
             /\ start[Len(sRead) + 2] = taken - Len(sBuffer) + sLast
             /\ \A i \in 1 .. Len(sRead) : sRead[i] = i + 1
    BY <1>0, <1>6 DEF SessionFlow
  <2>2. Len(sRead) \in Nat
    BY Lengths DEF RemoteInv, ReaderInv
  <2>3. longer[Len(sRead) + 2] = start[Len(sRead) + 2] /\ Len(sRead) + 1 <= N + 1
    <3>1. Len(sRead) + 2 \in 1 .. N + 1
      BY <2>1, <2>2
    <3>. QED  BY <1>10, <3>1
  <2>. QED  BY <1>13, <2>1, <2>3
<1>. QED  BY <1>10, <1>16, <1>17, <1>18

LEMMA ClientCloseFlows ==
    ASSUME RemoteInv, ClientClose
    PROVE  Flows'
<1>0. PICK N \in Nat : N = Len(packets) /\ DOMAIN packets = 1 .. N
  BY Lengths DEF RemoteInv, ReaderInv
<1>1. wire \in Seq(ByteType) /\ Len(wire) \in Nat
  BY Lengths DEF RemoteInv, ReaderInv, TypeOK
<1>2. PICK n \in 0 .. Len(wire) :
        /\ wire' = SubSeq(wire, 1, n)
        /\ arriving' = IF n = Len(wire) THEN arriving ELSE wire[n + 1].packet - 1
  BY DEF ClientClose
<1>3. /\ closed' /\ UNCHANGED <<packets, stage, hBuffer, hLast, hRead, sBuffer, sLast, sRead, overlapped>>
      /\ Len(wire') = n
  BY <1>1, <1>2, CutBytes DEF ClientClose, handshakeVars, sessionVars
<1>. SUFFICES ASSUME Plain'
              PROVE  \E start \in Starts(N), taken \in Nat :
                       Flow(start, taken)' /\ HandshakeFlow(start, taken)' /\ SessionFlow(start, taken)'
  BY <1>0, <1>3 DEF Flows
<1>4. Plain
  BY <1>3 DEF Plain, Unmeasured
<1>5. PICK start \in Starts(N), taken \in Nat :
        Flow(start, taken) /\ HandshakeFlow(start, taken) /\ SessionFlow(start, taken)
  BY <1>0, <1>4 DEF RemoteInv, Flows
<1>6. /\ Log(start) /\ Increasing(start)
      /\ DOMAIN start = 1 .. N + 1 /\ \A k \in 1 .. N + 1 : start[k] \in Nat
      /\ taken + Len(wire) <= start[N + 1]
      /\ \A k \in 1 .. N : k <= arriving <=> start[k + 1] <= taken + Len(wire)
      /\ At(start, wire, taken)
  BY <1>0, <1>5 DEF Flow, Log, Starts
<1>7. At(start, wire', taken)
  BY <1>1, <1>2, <1>6, AtPrefix
<1>8. \A k \in 1 .. N : k <= arriving' <=> start[k + 1] <= taken + n
  <2>1. CASE n = Len(wire)
    BY <1>2, <1>6, <2>1
  <2>2. CASE n # Len(wire)
    <3>1. n + 1 \in 1 .. Len(wire)
      BY <1>1, <2>2
    <3>2. PICK m \in Nat : /\ m \in DOMAIN start /\ m + 1 \in DOMAIN start
                           /\ start[m] < taken + (n + 1) /\ taken + (n + 1) <= start[m + 1]
                           /\ wire[n + 1] = [packet |-> m, at |-> (taken + (n + 1)) - start[m]]
      <4>1. IsAt(start, wire[n + 1], taken + (n + 1))
        BY <1>6, <3>1 DEF At
      <4>. QED  BY <4>1 DEF IsAt
    <3>3. arriving' = m - 1
      BY <1>2, <2>2, <3>2
    <3>4. ASSUME NEW k \in 1 .. N  PROVE k <= m - 1 <=> start[k + 1] <= taken + n
      <4>1. /\ start[m] \in Nat /\ start[m + 1] \in Nat /\ start[k + 1] \in Nat
            /\ k + 1 \in DOMAIN start
        BY <1>6, <3>2
      <4>2. ASSUME k <= m - 1  PROVE start[k + 1] <= start[m]
        <5>1. k + 1 <= m /\ k + 1 \in 1 .. N + 1 /\ m \in 1 .. N + 1
          BY <1>6, <3>2, <4>2
        <5>. QED  BY <1>6, <5>1, InOrder
      <4>3. ASSUME m <= k  PROVE start[m + 1] <= start[k + 1]
        <5>1. m + 1 <= k + 1 /\ k + 1 \in 1 .. N + 1 /\ m + 1 \in 1 .. N + 1
          BY <1>6, <3>2, <4>3
        <5>. QED  BY <1>6, <5>1, InOrder
      <4>. QED  BY <3>2, <4>1, <4>2, <4>3
    <3>. QED  BY <3>3, <3>4
  <2>. QED  BY <2>1, <2>2
<1>9. Flow(start, taken)'
  <2>1. Log(start)'
    BY <1>3, <1>6 DEF Log
  <2>2. taken + n <= start[N + 1]
    <3>1. N + 1 \in 1 .. N + 1
      OBVIOUS
    <3>. QED  BY <1>1, <1>6, <3>1
  <2>. QED  BY <1>0, <1>3, <1>7, <1>8, <2>1, <2>2 DEF Flow
<1>10. HandshakeFlow(start, taken)' /\ SessionFlow(start, taken)'
  BY <1>3, <1>5 DEF HandshakeFlow, SessionFlow, Swallowed
<1>. QED  BY <1>9, <1>10

----------------------------------------------------------------------------
(* The handshake's reader.                                                  *)

\* A chunk moves from what is on its way to the end of the buffer.
LEMMA HandshakeTurnsAt ==
    ASSUME TypeOK, hLast = 0, Handshake!ReadHttpPacket \/ Handshake!AppendBytes,
           NEW start, NEW taken \in Nat, Len(hBuffer) = taken,
           At(start, hBuffer, 0), At(start, wire, taken)
    PROVE  /\ UNCHANGED <<packets, closed, overlapped>>
           /\ \E buffer \in Seq(ByteType), more \in 0 .. Len(wire) :
                /\ Handshake!GetNextPacket(buffer)
                /\ Len(buffer) = taken + more /\ Len(wire') = Len(wire) - more
                /\ At(start, buffer, 0) /\ At(start, wire', taken + more)
<1>1. hBuffer \in Seq(ByteType) /\ wire \in Seq(ByteType) /\ Len(wire) \in Nat
  BY Lengths DEF TypeOK, ReaderOK
<1>2. CASE Handshake!ReadHttpPacket
  <2>1. Handshake!GetNextPacket(hBuffer) /\ UNCHANGED <<packets, wire, closed>>
    BY <1>2, NothingPopped DEF Handshake!ReadHttpPacket, Handshake!connection
  <2>2. UNCHANGED overlapped
    BY <1>2 DEF Handshake!ReadHttpPacket, Handshake!Overlaps, TypeOK
  <2>3. 0 \in 0 .. Len(wire) /\ taken + 0 = taken /\ Len(wire) - 0 = Len(wire)
    BY <1>1
  <2>. QED  BY <1>1, <2>1, <2>2, <2>3
<1>3. CASE Handshake!AppendBytes
  <2>1. PICK n \in 1 .. Len(wire) :
          /\ Handshake!GetNextPacket(hBuffer \o SubSeq(wire, 1, n))
          /\ wire' = SubSeq(wire, n + 1, Len(wire))
    BY <1>3 DEF Handshake!AppendBytes
  <2>2. PICK chunk : chunk = SubSeq(wire, 1, n)
    OBVIOUS
  <2>3. n \in 0 .. Len(wire)
    BY <1>1
  <2>4. /\ chunk \in Seq(ByteType) /\ Len(chunk) = n /\ Len(wire') = Len(wire) - n
        /\ At(start, chunk, taken) /\ At(start, wire', taken + n)
    BY <1>1, <2>1, <2>2, <2>3, CutBytes, AtPrefix, AtSuffix
  <2>5. hBuffer \o chunk \in Seq(ByteType) /\ Len(hBuffer \o chunk) = taken + n
    BY <1>1, <2>4, ConcatProperties
  <2>6. At(start, hBuffer \o chunk, 0)
    <3>1. 0 + Len(hBuffer) = taken
      OBVIOUS
    <3>. QED  BY <1>1, <2>4, <3>1, AtConcat
  <2>. QED  BY <1>3, <2>1, <2>2, <2>3, <2>4, <2>5, <2>6 DEF Handshake!AppendBytes
<1>. QED  BY <1>2, <1>3

LEMMA ReadHandshakeFlows ==
    ASSUME RemoteInv, ReadHandshake
    PROVE  Flows'
<1>0. TypeOK /\ TypeOK'
  BY ReadHandshakeReader DEF RemoteInv, ReaderInv
<1>1. PICK N \in Nat : N = Len(packets) /\ DOMAIN packets = 1 .. N
  BY <1>0, Lengths
<1>2. /\ stage = "handshake" /\ hRead = <<>> /\ hLast = 0
      /\ sBuffer = <<>> /\ sLast = 0 /\ sRead = <<>>
      /\ UNCHANGED <<stage, sBuffer, sLast, sRead, arriving>>
      /\ Len(wire) \in Nat
  BY <1>0, Lengths DEF ReadHandshake, RemoteInv, ReaderInv, ReaderBound, SessionTurn,
                       sessionVars, clientHistory
<1>3. UNCHANGED <<packets, closed>> /\ (overlapped => overlapped')
  <2>1. CASE Handshake!ReadHttpPacket
    BY <2>1 DEF Handshake!ReadHttpPacket, Handshake!connection
  <2>2. CASE Handshake!AppendBytes
    BY <2>2 DEF Handshake!AppendBytes
  <2>3. CASE Handshake!Eof
    BY <2>3 DEF Handshake!Eof, Handshake!connection
  <2>. QED  BY <2>1, <2>2, <2>3 DEF ReadHandshake, Handshake!Next
<1>. SUFFICES ASSUME Plain'
              PROVE  \E start \in Starts(N), taken \in Nat :
                       Flow(start, taken)' /\ HandshakeFlow(start, taken)' /\ SessionFlow(start, taken)'
  BY <1>1, <1>3 DEF Flows
<1>4. Plain
  BY <1>3 DEF Plain, Unmeasured
<1>5. PICK start \in Starts(N), taken \in Nat :
        Flow(start, taken) /\ HandshakeFlow(start, taken) /\ SessionFlow(start, taken)
  BY <1>1, <1>4 DEF RemoteInv, Flows
<1>6. Len(hBuffer) = taken /\ At(start, hBuffer, 0) /\ At(start, wire, taken)
      /\ Log(start) /\ Increasing(start) /\ start[1] = 0
  BY <1>2, <1>5 DEF HandshakeFlow, Flow, Log
<1>7. CASE Handshake!ReadHttpPacket \/ Handshake!AppendBytes
  <2>1. PICK buffer \in Seq(ByteType), more \in 0 .. Len(wire) :
          /\ Handshake!GetNextPacket(buffer)
          /\ Len(buffer) = taken + more /\ Len(wire') = Len(wire) - more
          /\ At(start, buffer, 0) /\ At(start, wire', taken + more)
    BY <1>0, <1>2, <1>6, <1>7, HandshakeTurnsAt
  <2>2. PICK now \in Nat : now = taken + more
    BY <1>2
  <2>3. now + Len(wire') = taken + Len(wire)
    BY <1>2, <2>1, <2>2
  <2>4. Flow(start, now)'
    <3>1. Log(start)'
      BY <1>3, <1>6 DEF Log
    <3>. QED  BY <1>2, <1>3, <1>5, <2>1, <2>2, <2>3, <3>1 DEF Flow
  <2>5. hBuffer' = buffer
    BY <2>1 DEF Handshake!GetNextPacket
  <2>6. HandshakeFlow(start, now)'
    BY <2>1, <2>2, <2>5 DEF HandshakeFlow
  <2>7. CASE ~ Handshake!Complete(buffer)
    <3>1. hRead' = <<>>
      BY <1>2, <2>1, <2>7 DEF Handshake!GetNextPacket
    <3>. QED  BY <2>4, <2>6, <3>1 DEF SessionFlow
  <2>8. CASE Handshake!Complete(buffer)
    <3>1. PICK n \in 1 .. N :
            /\ start[n] = 0
            /\ Session!PacketSize(buffer) = packets[n].head + packets[n].body
            /\ Session!PacketSize(buffer) \in 1 .. Len(buffer)
      BY <1>0, <1>1, <1>4, <1>6, <2>1, <2>8, SameReader, WholePacket
    <3>2. n = 1
      <4>1. 1 \in DOMAIN start /\ n \in DOMAIN start
        BY DEF Starts
      <4>2. ~(1 < n)
        BY <1>6, <3>1, <4>1 DEF Increasing
      <4>. QED  BY <4>2
    <3>3. hLast' = Session!PacketSize(buffer)
      BY <2>1, <2>8, SameReader DEF Handshake!GetNextPacket
    <3>4. start[2] = hLast' /\ hLast' \in 1 .. now
      <4>1. start[1 + 1] = start[1] + packets[1].head + packets[1].body
        BY <1>1, <1>6, <3>2 DEF Log
      <4>2. packets[1].head \in Nat /\ packets[1].body \in Nat
        BY <1>0, <1>1, <3>2, SizesOfPacket
      <4>. QED  BY <1>6, <2>1, <2>2, <3>1, <3>2, <3>3, <4>1, <4>2
    <3>5. ~Swallowed' => hRead' = <<>> \/ now <= hLast'
      BY <2>1, <2>2, <2>5, <3>4 DEF Swallowed
    <3>6. At(start, sBuffer', now - Len(sBuffer')) /\ Len(sBuffer') = 0 /\ Len(sRead') = 0
      BY <1>2 DEF At
    <3>7. SessionFlow(start, now)'
      BY <1>1, <1>2, <1>3, <3>4, <3>5, <3>6 DEF SessionFlow
    <3>. QED  BY <2>4, <2>6, <3>7
  <2>. QED  BY <2>7, <2>8
<1>8. CASE Handshake!Eof
  <2>1. UNCHANGED <<wire, hBuffer, hRead, hLast>>
    BY <1>8 DEF Handshake!Eof, Handshake!connection
  <2>2. Flow(start, taken)'
    BY <1>2, <1>3, <1>5, <2>1 DEF Flow, Log
  <2>3. HandshakeFlow(start, taken)' /\ SessionFlow(start, taken)'
    BY <1>2, <1>5, <2>1 DEF HandshakeFlow, SessionFlow
  <2>. QED  BY <2>2, <2>3
<1>. QED  BY <1>7, <1>8 DEF ReadHandshake, Handshake!Next

----------------------------------------------------------------------------
(* The session's reader.                                                    *)

\* What the last call returned is popped, and a chunk is put behind the rest.
LEMMA SessionTurnsAt ==
    ASSUME TypeOK, sPc = "await" => sLast = 0, Session!ReadHttpPacket \/ Session!AppendBytes,
           ~overlapped', NEW start, NEW taken \in Nat, Len(sBuffer) <= taken,
           At(start, sBuffer, taken - Len(sBuffer)), At(start, wire, taken)
    PROVE  \E buffer \in Seq(ByteType), more \in 0 .. Len(wire) :
              /\ Session!GetNextPacket(buffer)
              /\ Len(buffer) = Len(sBuffer) - sLast + more /\ Len(wire') = Len(wire) - more
              /\ At(start, buffer, taken - Len(sBuffer) + sLast)
              /\ At(start, wire', taken + more)
<1>1. /\ sBuffer \in Seq(ByteType) /\ wire \in Seq(ByteType)
      /\ Len(wire) \in Nat /\ Len(sBuffer) \in Nat
      /\ sLast \in 0 .. Len(sBuffer)
  BY Lengths DEF TypeOK, ReaderOK
<1>2. PICK position \in Nat : position = taken - Len(sBuffer)
  BY <1>1
<1>3. CASE Session!ReadHttpPacket
  <2>1. ~ Session!Overlaps
    BY <1>3 DEF Session!ReadHttpPacket
  <2>2. PICK order \in CopyOrders : Session!GetNextPacket(Session!Popped(order))
    BY <1>3 DEF Session!ReadHttpPacket
  <2>3. PICK buffer : buffer = Session!Popped(order)
    OBVIOUS
  <2>4. /\ At(start, buffer, position + sLast)
        /\ Len(buffer) = Len(sBuffer) - sLast /\ buffer \in Seq(ByteType)
    BY <1>2, <2>1, <2>3, PoppedAt, PoppedIsBytes
  <2>5. UNCHANGED wire
    BY <1>3 DEF Session!ReadHttpPacket, Session!connection
  <2>6. /\ 0 \in 0 .. Len(wire) /\ taken + 0 = taken /\ Len(wire) - 0 = Len(wire)
        /\ Len(sBuffer) - sLast + 0 = Len(sBuffer) - sLast
    BY <1>1
  <2>. QED  BY <1>2, <2>2, <2>3, <2>4, <2>5, <2>6
<1>4. CASE Session!AppendBytes
  <2>1. PICK n \in 1 .. Len(wire) :
          /\ Session!GetNextPacket(sBuffer \o SubSeq(wire, 1, n))
          /\ wire' = SubSeq(wire, n + 1, Len(wire))
    BY <1>4 DEF Session!AppendBytes
  <2>2. PICK chunk : chunk = SubSeq(wire, 1, n)
    OBVIOUS
  <2>3. n \in 0 .. Len(wire) /\ sLast = 0
    BY <1>1, <1>4 DEF Session!AppendBytes
  <2>4. /\ chunk \in Seq(ByteType) /\ Len(chunk) = n /\ Len(wire') = Len(wire) - n
        /\ At(start, chunk, taken) /\ At(start, wire', taken + n)
    BY <1>1, <2>1, <2>2, <2>3, CutBytes, AtPrefix, AtSuffix
  <2>5. sBuffer \o chunk \in Seq(ByteType) /\ Len(sBuffer \o chunk) = Len(sBuffer) - sLast + n
    BY <1>1, <2>3, <2>4, ConcatProperties
  <2>6. At(start, sBuffer \o chunk, position)
    <3>1. position + Len(sBuffer) = taken
      BY <1>1, <1>2
    <3>. QED  BY <1>1, <1>2, <2>4, <3>1, AtConcat
  <2>7. position = taken - Len(sBuffer) + sLast
    BY <1>2, <2>3
  <2>. QED  BY <2>1, <2>2, <2>3, <2>4, <2>5, <2>6, <2>7
<1>. QED  BY <1>3, <1>4

LEMMA SessionConnection ==
    ASSUME GetDapMessage
    PROVE  UNCHANGED <<packets, closed>> /\ (overlapped => overlapped')
<1>1. CASE Session!ReadHttpPacket
  BY <1>1 DEF Session!ReadHttpPacket, Session!connection
<1>2. CASE Session!AppendBytes
  BY <1>2 DEF Session!AppendBytes
<1>3. CASE Session!Eof
  BY <1>3 DEF Session!Eof, Session!connection
<1>. QED  BY <1>1, <1>2, <1>3 DEF GetDapMessage, Session!Next

\* A turn that finds a packet finds the next one, if none was lost, and leaves nothing
\* behind it of a client that does not pipeline.
LEMMA SessionReads ==
    ASSUME RemoteInv, GetDapMessage, Plain', Session!ReadHttpPacket \/ Session!AppendBytes
    PROVE  /\ \E start \in Starts(Len(packets)), taken \in Nat :
                Flow(start, taken)' /\ HandshakeFlow(start, taken)' /\ SessionFlow(start, taken)'
           /\ sRead' # sRead /\ ~Swallowed =>
                sRead' = Append(sRead, Len(sRead) + 2) /\ Len(sRead) + 2 <= arriving
           /\ ~pipelined => sLast' = 0 \/ sLast' = Len(sBuffer')
<1>0. TypeOK /\ TypeOK'
  BY GetDapMessageType DEF RemoteInv, ReaderInv
<1>1. PICK N \in Nat : N = Len(packets) /\ DOMAIN packets = 1 .. N
  BY <1>0, Lengths
<1>2. /\ stage = "session" /\ hRead # <<>>
      /\ UNCHANGED <<packets, closed, stage, hBuffer, hLast, hRead, arriving, pipelined>>
      /\ sPc = "await" => sLast = 0
      /\ sLast \in 0 .. Len(sBuffer) /\ Len(sBuffer) \in Nat /\ Len(wire) \in Nat
      /\ sRead \in Seq(Nat) /\ Len(sRead) \in Nat
  BY <1>0, SessionConnection, Lengths
     DEF GetDapMessage, RemoteInv, SessionTurn, handshakeVars, clientHistory, TypeOK, ReaderOK
<1>3. Plain /\ ~overlapped'
  BY <1>2, SessionConnection DEF Plain, Unmeasured
<1>4. PICK start \in Starts(N), taken \in Nat :
        Flow(start, taken) /\ HandshakeFlow(start, taken) /\ SessionFlow(start, taken)
  BY <1>1, <1>3 DEF RemoteInv, Flows
<1>5. /\ Log(start) /\ Increasing(start) /\ \A n \in 1 .. N + 1 : start[n] \in Nat
      /\ taken + Len(wire) <= start[N + 1]
      /\ \A n \in 1 .. N : n <= arriving <=> start[n + 1] <= taken + Len(wire)
      /\ At(start, wire, taken)
  BY <1>1, <1>4 DEF Flow, Log, Starts
<1>6. /\ Len(sBuffer) <= taken
      /\ At(start, sBuffer, taken - Len(sBuffer))
      /\ Len(sRead) + 1 <= N
      /\ start[Len(sRead) + 2] <= taken - Len(sBuffer) + sLast
      /\ ~Swallowed =>
           /\ start[Len(sRead) + 2] = taken - Len(sBuffer) + sLast
           /\ \A i \in 1 .. Len(sRead) : sRead[i] = i + 1
  BY <1>1, <1>2, <1>4 DEF SessionFlow
<1>7. PICK buffer \in Seq(ByteType), more \in 0 .. Len(wire) :
        /\ Session!GetNextPacket(buffer)
        /\ Len(buffer) = Len(sBuffer) - sLast + more /\ Len(wire') = Len(wire) - more
        /\ At(start, buffer, taken - Len(sBuffer) + sLast)
        /\ At(start, wire', taken + more)
  BY <1>0, <1>2, <1>3, <1>5, <1>6, SessionTurnsAt
<1>8. PICK position \in Nat : position = taken - Len(sBuffer) + sLast
  <2>1. taken - Len(sBuffer) \in Nat /\ sLast \in Nat
    BY <1>2, <1>6
  <2>2. taken - Len(sBuffer) + sLast \in Nat
    BY <2>1
  <2>. QED  BY <2>2
<1>9. PICK now \in Nat : now = taken + more
  BY <1>2
<1>10. now + Len(wire') = taken + Len(wire) /\ now = position + Len(buffer) /\ Len(buffer) \in Nat
       /\ Len(wire') \in Nat
  BY <1>2, <1>6, <1>7, <1>8, <1>9
<1>11. Flow(start, now)'
  <2>1. Log(start)'
    BY <1>2, <1>5 DEF Log
  <2>. QED  BY <1>2, <1>4, <1>7, <1>9, <1>10, <2>1 DEF Flow
<1>12. HandshakeFlow(start, now)'
  BY <1>2 DEF HandshakeFlow
<1>13. sBuffer' = buffer /\ Swallowed' = Swallowed /\ now - Len(buffer) = position
  BY <1>2, <1>7, <1>10 DEF Session!GetNextPacket, Swallowed
<1>14. PICK k \in 2 .. N + 1 : k = Len(sRead) + 2
  BY <1>2, <1>6
<1>15. CASE ~ Session!Complete(buffer)
  <2>1. sLast' = 0 /\ sRead' = sRead
    BY <1>7, <1>15 DEF Session!GetNextPacket
  <2>2. SessionFlow(start, now)'
    <3>1. now - Len(buffer) + 0 = position /\ Len(buffer) <= now
      BY <1>10, <1>13
    <3>2. At(start, buffer, now - Len(buffer))
      BY <1>7, <1>8, <1>13
    <3>. QED  BY <1>1, <1>2, <1>6, <1>8, <1>13, <2>1, <3>1, <3>2 DEF SessionFlow
  <2>. QED  BY <1>1, <1>11, <1>12, <2>1, <2>2
<1>16. CASE Session!Complete(buffer)
  <2>1. PICK n \in 1 .. N :
          /\ start[n] = position
          /\ Session!PacketSize(buffer) = packets[n].head + packets[n].body
          /\ Session!PacketSize(buffer) \in 1 .. Len(buffer)
          /\ Session!Contents(SubSeq(buffer, 1, Session!PacketSize(buffer))) = n
    <3>1. At(start, buffer, position)
      BY <1>7, <1>8
    <3>2. \E n \in DOMAIN packets :
            /\ start[n] = position
            /\ Session!PacketSize(buffer) = packets[n].head + packets[n].body
            /\ Session!PacketSize(buffer) \in 1 .. Len(buffer)
            /\ Session!Contents(SubSeq(buffer, 1, Session!PacketSize(buffer))) = n
      BY <1>0, <1>3, <1>5, <1>16, <3>1, WholePacket
    <3>. QED  BY <1>1, <3>2
  <2>2. sLast' = Session!PacketSize(buffer) /\ sRead' = Append(sRead, n)
    BY <1>7, <1>16, <2>1 DEF Session!GetNextPacket
  <2>3. PICK size \in 1 .. Len(buffer) : size = Session!PacketSize(buffer)
    BY <2>1
  <2>4. start[n + 1] = position + size
    <3>1. PICK head \in Nat, body \in Nat : head = packets[n].head /\ body = packets[n].body
      BY <1>0, <1>1, SizesOfPacket
    <3>2. start[n + 1] = start[n] + head + body
      BY <1>1, <1>5, <3>1 DEF Log
    <3>3. size = head + body
      BY <2>1, <2>3, <3>1
    <3>4. start[n + 1] = position + head + body
      BY <2>1, <3>2
    <3>. QED  BY <3>3, <3>4
  <2>5. start[k] <= position /\ (~Swallowed => start[k] = position)
    BY <1>6, <1>8, <1>14
  <2>6. k <= n /\ (~Swallowed => k = n)
    <3>1. k \in DOMAIN start /\ n \in DOMAIN start /\ start[k] \in Nat /\ start[n] \in Nat
      BY <1>5 DEF Starts
    <3>2. ~(n < k)
      BY <1>5, <2>1, <2>5, <3>1 DEF Increasing
    <3>3. ~Swallowed => ~(k < n)
      BY <1>5, <2>1, <2>5, <3>1 DEF Increasing
    <3>. QED  BY <3>2, <3>3
  <2>7. Len(sRead') = k - 1 /\ \A i \in 1 .. k - 1 : sRead'[i] = IF i <= k - 2 THEN sRead[i] ELSE n
    <3>1. /\ Len(sRead') = Len(sRead) + 1
          /\ \A i \in 1 .. Len(sRead) : sRead'[i] = sRead[i]
          /\ sRead'[Len(sRead) + 1] = n
      BY <1>2, <2>2, AppendProperties
    <3>2. k - 1 = Len(sRead) + 1 /\ k - 2 = Len(sRead)
      BY <1>2, <1>14
    <3>3. ASSUME NEW i \in 1 .. k - 1
          PROVE  sRead'[i] = IF i <= k - 2 THEN sRead[i] ELSE n
      <4>1. CASE i <= k - 2
        BY <1>2, <3>1, <3>2, <4>1
      <4>2. CASE i = Len(sRead) + 1
        BY <1>2, <3>1, <3>2, <4>2
      <4>. QED  BY <1>2, <3>2, <4>1, <4>2
    <3>. QED  BY <3>1, <3>2, <3>3
  <2>8. SessionFlow(start, now)'
    <3>1. /\ Len(sBuffer') <= now /\ At(start, sBuffer', now - Len(sBuffer'))
          /\ now - Len(sBuffer') + sLast' = position + size
      <4>1. At(start, buffer, position)
        BY <1>7, <1>8
      <4>2. now - Len(sBuffer') = position /\ sLast' = size
        BY <1>13, <2>2, <2>3
      <4>3. Len(sBuffer') <= now
        BY <1>10, <1>13
      <4>. QED  BY <1>13, <4>1, <4>2, <4>3
    <3>2. Len(sRead') + 1 = k /\ Len(sRead') + 2 = k + 1 /\ k <= Len(packets')
      BY <1>1, <1>2, <2>6, <2>7
    <3>3. start[k + 1] <= position + size
      <4>1. k + 1 \in 1 .. N + 1 /\ n + 1 \in 1 .. N + 1 /\ k + 1 <= n + 1
        BY <2>6
      <4>. QED  BY <1>5, <2>4, <4>1, InOrder
    <3>4. ASSUME ~Swallowed
          PROVE  start[k + 1] = position + size /\ \A i \in 1 .. k - 1 : sRead'[i] = i + 1
      <4>1. k = n
        BY <2>6, <3>4
      <4>2. ASSUME NEW i \in 1 .. k - 1  PROVE sRead'[i] = i + 1
        <5>1. CASE i <= k - 2
          <6>1. i \in 1 .. Len(sRead) /\ sRead'[i] = sRead[i]
            BY <1>2, <1>14, <2>7, <5>1
          <6>. QED  BY <1>6, <3>4, <6>1
        <5>2. CASE i = k - 1
          BY <2>7, <4>1, <5>2
        <5>. QED  BY <5>1, <5>2
      <4>. QED  BY <2>4, <4>1, <4>2
    <3>. QED  BY <1>13, <2>7, <3>1, <3>2, <3>3, <3>4 DEF SessionFlow
  <2>9. ~Swallowed => sRead' = Append(sRead, Len(sRead) + 2) /\ Len(sRead) + 2 <= arriving
    <3>1. start[n + 1] <= taken + Len(wire)
      BY <1>10, <2>3, <2>4
    <3>. QED  BY <1>5, <1>14, <2>2, <2>6, <3>1
  <2>10. ASSUME ~pipelined  PROVE sLast' = Len(sBuffer')
    <3>1. N <= k
      BY <1>1, <1>14, <2>10 DEF RemoteInv, SessionTurn
    <3>2. n = N
      BY <2>6, <3>1
    <3>3. PICK last \in Nat : last = start[N + 1]
      BY <1>5
    <3>4. last = position + size /\ taken + Len(wire) <= last
      BY <1>5, <2>4, <3>2, <3>3
    <3>5. position + Len(buffer) + Len(wire') <= position + size
      BY <1>10, <3>4
    <3>6. size = Len(buffer)
      BY <1>10, <2>3, <3>5
    <3>. QED  BY <1>13, <2>2, <2>3, <3>6
  <2>. QED  BY <1>1, <1>11, <1>12, <2>8, <2>9, <2>10
<1>. QED  BY <1>15, <1>16

\* Every step of the session's reader, the end of the stream among them.
LEMMA GetDapMessageFlows ==
    ASSUME RemoteInv, GetDapMessage
    PROVE  Flows'
<1>1. /\ UNCHANGED <<packets, closed, stage, hBuffer, hLast, hRead, arriving>>
      /\ overlapped => overlapped'
  BY SessionConnection DEF GetDapMessage, handshakeVars, clientHistory
<1>. SUFFICES ASSUME Plain'
              PROVE  \E start \in Starts(Len(packets)), taken \in Nat :
                       Flow(start, taken)' /\ HandshakeFlow(start, taken)' /\ SessionFlow(start, taken)'
  BY <1>1 DEF Flows
<1>2. CASE Session!ReadHttpPacket \/ Session!AppendBytes
  BY <1>2, SessionReads
<1>3. CASE Session!Eof
  <2>1. Plain
    BY <1>1 DEF Plain, Unmeasured
  <2>2. UNCHANGED <<wire, sBuffer, sLast, sRead>>
    BY <1>3 DEF Session!Eof, Session!connection
  <2>3. PICK start \in Starts(Len(packets)), taken \in Nat :
          Flow(start, taken) /\ HandshakeFlow(start, taken) /\ SessionFlow(start, taken)
    BY <2>1 DEF RemoteInv, Flows
  <2>4. Flow(start, taken)' /\ HandshakeFlow(start, taken)' /\ SessionFlow(start, taken)'
    BY <1>1, <2>2, <2>3 DEF Flow, Log, HandshakeFlow, SessionFlow, Swallowed
  <2>. QED  BY <2>4
<1>. QED  BY <1>2, <1>3 DEF GetDapMessage, Session!Next

\* The coroutine goes on with nothing taken off the connection.
LEMMA OnlyStageFlows ==
    ASSUME RemoteInv, OnlyStage \/ UNCHANGED vars
    PROVE  Flows'
<1>1. /\ UNCHANGED <<packets, wire, closed, hBuffer, hLast, hRead, sBuffer, sLast, sRead>>
      /\ UNCHANGED <<overlapped, arriving>>
      /\ stage' # "handshake" \/ stage' = stage
  BY DEF OnlyStage, vars, handshakeVars, sessionVars, clientHistory
<1>. SUFFICES ASSUME Plain'
              PROVE  \E start \in Starts(Len(packets)), taken \in Nat :
                       Flow(start, taken)' /\ HandshakeFlow(start, taken)' /\ SessionFlow(start, taken)'
  BY <1>1 DEF Flows
<1>2. Plain
  BY <1>1 DEF Plain, Unmeasured
<1>3. PICK start \in Starts(Len(packets)), taken \in Nat :
        Flow(start, taken) /\ HandshakeFlow(start, taken) /\ SessionFlow(start, taken)
  BY <1>2 DEF RemoteInv, Flows
<1>4. Flow(start, taken)' /\ HandshakeFlow(start, taken)' /\ SessionFlow(start, taken)'
  BY <1>1, <1>3 DEF Flow, Log, HandshakeFlow, SessionFlow, Swallowed
<1>. QED  BY <1>4

----------------------------------------------------------------------------
(* The turns of the session, and the moves of memcpy.                       *)

\* What the reader sees in its buffer depends on the packets the bytes are of, and
\* another packet changes none of them.
LEMMA SeenTheSame ==
    ASSUME TypeOK, NEW buffer \in Seq(ByteType), Session!Complete(buffer)',
           DOMAIN packets \subseteq DOMAIN packets',
           \A i \in DOMAIN packets : packets'[i] = packets[i]
    PROVE  Session!Complete(buffer)
<1>1. buffer # <<>>
  BY DEF Session!Complete, Session!Header
<1>2. buffer[1].packet \in DOMAIN packets
  BY <1>1, FirstOfBuffer
<1>. QED  BY <1>2 DEF Session!Complete, Session!Header, Session!PacketSize, Session!Byte

Turns == SessionTurn /\ OverlapIsPipelined

LEMMA ClientSendTurns ==
    ASSUME RemoteInv, NEW head \in HeaderSizes, NEW body \in BodySizes,
           NEW length \in BodySizes \cup {0}, ClientSend(head, body, length)
    PROVE  Turns'
<1>1. /\ TypeOK /\ TypeOK'
      /\ Len(packets') = Len(packets) + 1
      /\ \A i \in DOMAIN packets : packets'[i] = packets[i]
      /\ DOMAIN packets = 1 .. Len(packets) /\ DOMAIN packets' = 1 .. Len(packets')
      /\ Len(packets) \in Nat /\ Len(sRead) \in Nat
  BY ClientSendType, Lengths, LenProperties DEF RemoteInv, ReaderInv, TypeOK
<1>2. /\ DOMAIN packets \subseteq DOMAIN packets'
      /\ \A n \in DOMAIN packets : packets'[n] = packets[n]
  BY <1>1
<1>3. /\ ~closed /\ UNCHANGED <<closed, stage, handshakeVars, sessionVars, overlapped>>
      /\ pipelined => pipelined'
      /\ Len(sRead) + 2 < Len(packets) + 1 => pipelined'
  BY DEF ClientSend
<1>4. Plain' => Plain
  BY <1>2, <1>3 DEF Plain, Unmeasured
<1>5. sPc # "idle" => ~ Session!Complete(sBuffer)'
  <2>1. PICK buffer \in Seq(ByteType) : buffer = sBuffer
    BY <1>1 DEF TypeOK, ReaderOK
  <2>2. sPc # "idle" => ~ Session!Complete(buffer)'
    BY <1>1, <1>2, <2>1, SeenTheSame DEF RemoteInv, SessionTurn
  <2>. QED  BY <1>3, <2>1, <2>2 DEF sessionVars, Session!Complete, Session!Header,
                                    Session!PacketSize, Session!Byte
<1>6. ~pipelined' => Len(packets') <= Len(sRead') + 2
  BY <1>1, <1>3 DEF sessionVars
<1>7. SessionTurn'
  BY <1>3, <1>4, <1>5, <1>6 DEF RemoteInv, SessionTurn, handshakeVars, sessionVars
<1>8. OverlapIsPipelined'
  BY <1>2, <1>3 DEF RemoteInv, OverlapIsPipelined, Unmeasured
<1>. QED  BY <1>7, <1>8 DEF Turns

LEMMA ClientCloseTurns ==
    ASSUME RemoteInv, ClientClose
    PROVE  Turns'
<1>1. /\ ~closed /\ closed'
      /\ UNCHANGED <<packets, stage, handshakeVars, sessionVars, overlapped, pipelined>>
  BY DEF ClientClose
<1>2. Session!Complete(sBuffer)' <=> Session!Complete(sBuffer)
  BY <1>1 DEF sessionVars, Session!Complete, Session!Header, Session!PacketSize, Session!Byte
<1>3. SessionTurn'
  BY <1>1, <1>2 DEF RemoteInv, SessionTurn, handshakeVars, sessionVars, Plain, Unmeasured
<1>4. OverlapIsPipelined'
  BY <1>1 DEF RemoteInv, OverlapIsPipelined, Unmeasured
<1>. QED  BY <1>3, <1>4 DEF Turns

LEMMA ReadHandshakeTurns ==
    ASSUME RemoteInv, ReadHandshake
    PROVE  Turns'
<1>1. /\ stage = "handshake" /\ hRead = <<>> /\ hLast = 0
      /\ sBuffer = <<>> /\ sLast = 0 /\ sRead = <<>> /\ sPc = "idle"
      /\ UNCHANGED <<stage, sBuffer, sLast, sRead, sPc, pipelined>>
  BY DEF ReadHandshake, RemoteInv, ReaderInv, ReaderBound, SessionTurn, sessionVars, clientHistory
<1>2. UNCHANGED packets
  BY DEF ReadHandshake, Handshake!Next, Handshake!ReadHttpPacket, Handshake!AppendBytes,
         Handshake!Eof, Handshake!connection
<1>3. overlapped' <=> overlapped
  <2>1. CASE Handshake!ReadHttpPacket
    BY <1>1, <2>1 DEF Handshake!ReadHttpPacket, Handshake!Overlaps
  <2>2. CASE Handshake!AppendBytes
    BY <2>2 DEF Handshake!AppendBytes
  <2>3. CASE Handshake!Eof
    BY <2>3 DEF Handshake!Eof
  <2>. QED  BY <2>1, <2>2, <2>3 DEF ReadHandshake, Handshake!Next
<1>4. SessionTurn'
  BY <1>1, <1>2 DEF RemoteInv, SessionTurn
<1>5. OverlapIsPipelined'
  BY <1>1, <1>2, <1>3 DEF RemoteInv, OverlapIsPipelined, Unmeasured
<1>. QED  BY <1>4, <1>5 DEF Turns

LEMMA GetDapMessageTurns ==
    ASSUME RemoteInv, GetDapMessage
    PROVE  Turns'
<1>1. /\ stage = "session" /\ hRead # <<>>
      /\ UNCHANGED <<packets, closed, stage, hRead, pipelined>>
      /\ TypeOK /\ TypeOK'
  BY SessionConnection, GetDapMessageType
     DEF GetDapMessage, handshakeVars, clientHistory, RemoteInv, ReaderInv, SessionTurn
<1>2. sPc' # "idle" => ~ Session!Complete(sBuffer)'
  <2>1. CASE Session!ReadHttpPacket \/ Session!AppendBytes
    <3>1. PICK buffer \in Seq(ByteType) : Session!GetNextPacket(buffer)
      BY <1>1, <2>1, SessionTurns
    <3>2. sBuffer' = buffer /\ (sPc' # "idle" => ~ Session!Complete(buffer))
      BY <3>1 DEF Session!GetNextPacket
    <3>. QED  BY <1>1, <3>2 DEF Session!Complete, Session!Header, Session!PacketSize, Session!Byte
  <2>2. CASE Session!Eof
    <3>1. sPc = "await" /\ UNCHANGED sBuffer
      BY <2>2 DEF Session!Eof
    <3>2. ~ Session!Complete(sBuffer)
      BY <3>1 DEF RemoteInv, SessionTurn
    <3>. QED  BY <1>1, <3>1, <3>2
              DEF Session!Complete, Session!Header, Session!PacketSize, Session!Byte
  <2>. QED  BY <2>1, <2>2 DEF GetDapMessage, Session!Next
<1>3. sPc' = "ended" => closed' /\ wire' = <<>>
  <2>1. CASE Session!ReadHttpPacket \/ Session!AppendBytes
    <3>1. PICK buffer : Session!GetNextPacket(buffer)
      BY <1>1, <2>1, SessionTurns
    <3>. QED  BY <3>1 DEF Session!GetNextPacket
  <2>2. CASE Session!Eof
    BY <2>2 DEF Session!Eof, Session!connection
  <2>. QED  BY <2>1, <2>2 DEF GetDapMessage, Session!Next
<1>4. Len(sRead) <= Len(sRead')
  <2>1. sRead \in Seq(Nat) /\ sRead' \in Seq(Nat) /\ Len(sRead) \in Nat
    BY <1>1, LenProperties DEF TypeOK, ReaderOK
  <2>2. CASE Session!ReadHttpPacket \/ Session!AppendBytes
    <3>1. PICK buffer \in Seq(ByteType) : Session!GetNextPacket(buffer)
      BY <1>1, <2>2, SessionTurns
    <3>2. PICK contents : sRead' = sRead \/ sRead' = Append(sRead, contents)
      BY <3>1 DEF Session!GetNextPacket
    <3>3. Len(Append(sRead, contents)) = Len(sRead) + 1
      BY <2>1
    <3>. QED  BY <2>1, <3>2, <3>3
  <2>3. CASE Session!Eof
    BY <2>1, <2>3 DEF Session!Eof
  <2>. QED  BY <2>2, <2>3 DEF GetDapMessage, Session!Next
<1>5. ~pipelined' => Len(packets') <= Len(sRead') + 2
  <2>1. Len(packets) \in Nat /\ Len(sRead) \in Nat /\ Len(sRead') \in Nat
    BY <1>1, LenProperties DEF TypeOK, ReaderOK
  <2>. QED  BY <1>1, <1>4, <2>1 DEF RemoteInv, SessionTurn
<1>6. ASSUME Plain', ~pipelined'  PROVE sLast' = 0 \/ sLast' = Len(sBuffer')
  <2>1. CASE Session!ReadHttpPacket \/ Session!AppendBytes
    BY <1>1, <1>6, <2>1, SessionReads
  <2>2. CASE Session!Eof
    BY <1>1, <1>6, <2>2 DEF Session!Eof, RemoteInv, SessionTurn, Plain, Unmeasured
  <2>. QED  BY <2>1, <2>2 DEF GetDapMessage, Session!Next
<1>7. SessionTurn'
  BY <1>1, <1>2, <1>3, <1>5, <1>6 DEF SessionTurn
<1>8. OverlapIsPipelined'
  <2>1. CASE overlapped \/ \E n \in DOMAIN packets : Unmeasured(n)
    BY <1>1, <2>1 DEF RemoteInv, OverlapIsPipelined, Unmeasured
  <2>2. CASE Plain
    <3>1. ASSUME overlapped'  PROVE pipelined
      <4>1. Session!Overlaps
        <5>1. CASE Session!ReadHttpPacket
          BY <2>2, <3>1, <5>1 DEF Session!ReadHttpPacket, Plain
        <5>2. CASE Session!AppendBytes \/ Session!Eof
          BY <2>2, <3>1, <5>2 DEF Session!AppendBytes, Session!Eof, Plain
        <5>. QED  BY <5>1, <5>2 DEF GetDapMessage, Session!Next
      <4>2. sLast # 0 /\ sLast # Len(sBuffer)
        <5>1. sLast \in Nat /\ Len(sBuffer) \in Nat
          BY <1>1, Lengths
        <5>. QED  BY <4>1, <5>1 DEF Session!Overlaps, Session!Left
      <4>. QED  BY <2>2, <4>2 DEF RemoteInv, SessionTurn
    <3>. QED  BY <1>1, <3>1 DEF OverlapIsPipelined
  <2>. QED  BY <2>1, <2>2 DEF Plain
<1>. QED  BY <1>7, <1>8 DEF Turns

\* Only Respond opens the way to the session, and it has a handshake.
LEMMA OtherStepsTurns ==
    ASSUME RemoteInv,
           NoHandshake \/ Respond \/ CreateDebugSession \/ SessionEnds \/ SessionHalts \/ UNCHANGED vars
    PROVE  Turns'
<1>1. UNCHANGED <<packets, wire, closed, handshakeVars, sessionVars, overlapped, clientHistory>>
  BY OtherSteps DEF OnlyStage, vars
<1>2. stage' = "create" \/ stage' = "session" => hRead # <<>>
  BY DEF NoHandshake, Respond, CreateDebugSession, SessionEnds, SessionHalts, vars, RemoteInv, SessionTurn
<1>3. Session!Complete(sBuffer)' <=> Session!Complete(sBuffer)
  BY <1>1 DEF sessionVars, Session!Complete, Session!Header, Session!PacketSize, Session!Byte
<1>4. SessionTurn'
  BY <1>1, <1>2, <1>3 DEF RemoteInv, SessionTurn, handshakeVars, sessionVars, clientHistory,
                          Plain, Unmeasured
<1>5. OverlapIsPipelined'
  BY <1>1 DEF RemoteInv, OverlapIsPipelined, Unmeasured, clientHistory
<1>. QED  BY <1>4, <1>5 DEF Turns

----------------------------------------------------------------------------
LEMMA InitRemote ==
    ASSUME Init
    PROVE  RemoteInv
<1>1. /\ packets = <<>> /\ wire = <<>> /\ hBuffer = <<>> /\ sBuffer = <<>>
      /\ hRead = <<>> /\ sRead = <<>> /\ hLast = 0 /\ sLast = 0
      /\ sPc = "idle" /\ stage = "handshake"
      /\ overlapped = FALSE /\ arriving = 0
      /\ Len(packets) = 0 /\ DOMAIN packets = {}
  BY DEF Init, Handshake!Init, Session!Init
<1>2. SessionTurn /\ OverlapIsPipelined
  BY <1>1 DEF SessionTurn, OverlapIsPipelined
<1>3. PICK start : start = [n \in 1 .. 0 + 1 |-> 0]
  OBVIOUS
<1>4. start \in Starts(0) /\ Increasing(start) /\ start[1] = 0
  BY <1>3 DEF Starts, Increasing
<1>5. \A position : At(start, <<>>, position)
  BY DEF At
<1>6. Flow(start, 0) /\ HandshakeFlow(start, 0) /\ SessionFlow(start, 0)
  BY <1>1, <1>4, <1>5 DEF Flow, Log, HandshakeFlow, SessionFlow
<1>7. Flows
  BY <1>1, <1>4, <1>6 DEF Flows
<1>. QED  BY <1>2, <1>7, InitReader DEF RemoteInv

LEMMA NextRemote ==
    ASSUME RemoteInv, [Next]_vars
    PROVE  RemoteInv'
<1>1. ReaderInv'
  BY NextReader DEF RemoteInv
<1>2. ASSUME NEW head \in HeaderSizes, NEW body \in BodySizes,
             NEW length \in BodySizes \cup {0}, ClientSend(head, body, length)
      PROVE  Flows' /\ Turns'
  BY <1>2, ClientSendFlows, ClientSendTurns
<1>3. CASE ClientClose
  BY <1>1, <1>3, ClientCloseFlows, ClientCloseTurns DEF RemoteInv, Turns
<1>4. CASE ReadHandshake
  BY <1>1, <1>4, ReadHandshakeFlows, ReadHandshakeTurns DEF RemoteInv, Turns
<1>5. CASE GetDapMessage
  BY <1>1, <1>5, GetDapMessageFlows, GetDapMessageTurns DEF RemoteInv, Turns
<1>6. CASE NoHandshake \/ Respond \/ CreateDebugSession \/ SessionEnds \/ SessionHalts \/ UNCHANGED vars
  BY <1>1, <1>6, OtherSteps, OnlyStageFlows, OtherStepsTurns DEF RemoteInv, Turns
<1>7. CASE \E head \in HeaderSizes, body \in BodySizes, length \in BodySizes \cup {0} :
             ClientSend(head, body, length)
  BY <1>1, <1>2, <1>7 DEF RemoteInv, Turns
<1>. QED  BY <1>3, <1>4, <1>5, <1>6, <1>7 DEF Next, SpawnClientSession

\* Buffers and wire always hold consecutive bytes of what the client sent; what the
\* theorems below rest on.
THEOREM RemoteInvariant == Spec => []RemoteInv
  BY InitRemote, NextRemote, PTL DEF Spec

\* memcpy is given ranges that overlap only for a client that sends before it has
\* its answers, or a body without a Content-Length.
THEOREM OverlapHasACause == Spec => []OverlapIsPipelined
  BY RemoteInvariant, PTL DEF RemoteInv

----------------------------------------------------------------------------
(* The session reads what a PacketStream says.                              *)

\* The packets for the session, as the stream has them.
Sent(last) == [i \in 1 .. last - 1 |-> i + 1]

LEMMA SentIsSeq ==
    ASSUME NEW last \in Nat
    PROVE  /\ Sent(last) \in Seq(Nat) /\ Len(Sent(last)) \in Nat
           /\ last = 0 => Len(Sent(last)) = 0
           /\ last # 0 => Len(Sent(last)) + 1 = last
           /\ \A i \in 1 .. Len(Sent(last)) : Sent(last)[i] = i + 1
<1>1. PICK n \in Nat : n = IF last = 0 THEN 0 ELSE last - 1
  OBVIOUS
<1>2. 1 .. last - 1 = 1 .. n
  BY <1>1
<1>3. PICK sequence : sequence = [i \in 1 .. n |-> i + 1]
  OBVIOUS
<1>4. sequence = Sent(last)
  BY <1>2, <1>3 DEF Sent
<1>5. sequence \in [1 .. n -> Nat] /\ \A i \in 1 .. n : sequence[i] = i + 1
  BY <1>3
<1>6. sequence \in Seq(Nat)
  BY <1>5, SeqDef
<1>7. Len(sequence) = n
  BY <1>5, <1>6, LenProperties
<1>. QED  BY <1>1, <1>4, <1>5, <1>6, <1>7

\* What is damaged stays so.
LEMMA DamageStays ==
    ASSUME RemoteInv, [Next]_vars, Damaged
    PROVE  Damaged'
<1>1. ASSUME NEW head \in HeaderSizes, NEW body \in BodySizes,
             NEW length \in BodySizes \cup {0}, ClientSend(head, body, length)
      PROVE  Damaged'
  <2>1. /\ Len(packets') = Len(packets) + 1
        /\ \A i \in DOMAIN packets : packets'[i] = packets[i]
        /\ TypeOK /\ TypeOK'
    BY <1>1, ClientSendType DEF RemoteInv, ReaderInv
  <2>2. DOMAIN packets \subseteq DOMAIN packets'
    <3>1. DOMAIN packets = 1 .. Len(packets) /\ DOMAIN packets' = 1 .. Len(packets')
          /\ Len(packets) \in Nat
      BY <2>1, LenProperties DEF TypeOK
    <3>. QED  BY <2>1, <3>1
  <2>. QED  BY <1>1, <2>1, <2>2 DEF ClientSend, handshakeVars, Damaged, Swallowed, Unmeasured
<1>2. CASE ClientClose
  BY <1>2 DEF ClientClose, handshakeVars, Damaged, Swallowed, Unmeasured
<1>3. CASE ReadHandshake
  <2>1. CASE Handshake!ReadHttpPacket
    BY <1>3, <2>1 DEF ReadHandshake, Handshake!ReadHttpPacket, Handshake!connection, Damaged,
                      Swallowed, Unmeasured
  <2>2. CASE Handshake!AppendBytes \/ Handshake!Eof
    BY <1>3, <2>2 DEF ReadHandshake, Handshake!AppendBytes, Handshake!Eof,
                      Handshake!connection, Damaged, Swallowed, Unmeasured
  <2>. QED  BY <1>3, <2>1, <2>2 DEF ReadHandshake, Handshake!Next
<1>4. CASE GetDapMessage
  BY <1>4, SessionConnection DEF GetDapMessage, handshakeVars, Damaged, Swallowed, Unmeasured
<1>5. CASE NoHandshake \/ Respond \/ CreateDebugSession \/ SessionEnds \/ SessionHalts \/ UNCHANGED vars
  <2>1. UNCHANGED <<packets, handshakeVars, overlapped>>
    BY <1>5, OtherSteps DEF OnlyStage, vars
  <2>. QED  BY <2>1 DEF handshakeVars, Damaged, Swallowed, Unmeasured
<1>6. CASE \E head \in HeaderSizes, body \in BodySizes, length \in BodySizes \cup {0} :
             ClientSend(head, body, length)
  BY <1>1, <1>6
<1>. QED  BY <1>2, <1>3, <1>4, <1>5, <1>6 DEF Next, SpawnClientSession

\* What the session has read has arrived.
LEMMA ReadHasArrived ==
    ASSUME RemoteInv', ~Damaged'
    PROVE  Len(sRead') + 1 <= arriving' \/ sRead' = <<>>
<1>. SUFFICES ASSUME sRead' # <<>>  PROVE Len(sRead') + 1 <= arriving'
  OBVIOUS
<1>1. /\ hRead' # <<>> /\ ~Swallowed' /\ Plain'
      /\ Len(sRead') \in Nat /\ Len(wire') \in Nat /\ Len(packets') \in Nat
      /\ sLast' \in 0 .. Len(sBuffer') /\ Len(sBuffer') \in Nat
      /\ DOMAIN packets' = 1 .. Len(packets')
  BY LenProperties DEF RemoteInv, ReaderInv, SessionTurn, Damaged, Plain, TypeOK, ReaderOK
<1>2. PICK start \in Starts(Len(packets')), taken \in Nat :
        Flow(start, taken)' /\ SessionFlow(start, taken)'
  BY <1>1 DEF RemoteInv, Flows
<1>3. /\ Len(sBuffer') <= taken /\ Len(sRead') + 1 <= Len(packets')
      /\ start[Len(sRead') + 2] = taken - Len(sBuffer') + sLast'
  BY <1>1, <1>2 DEF SessionFlow
<1>4. PICK n \in 1 .. Len(packets') : n = Len(sRead') + 1
  BY <1>1, <1>3
<1>5. n <= arriving' <=> start[n + 1] <= taken + Len(wire')
  BY <1>1, <1>2 DEF Flow
<1>6. start[n + 1] <= taken + Len(wire')
  BY <1>1, <1>3, <1>4
<1>. QED  BY <1>4, <1>5, <1>6

\* At the end of the stream nothing that arrived is left unread.
LEMMA NothingLeft ==
    ASSUME RemoteInv, ~Damaged, stage = "session", Session!Eof
    PROVE  arriving <= Len(sRead) + 1 /\ \A i \in 1 .. Len(sRead) : sRead[i] = i + 1
<1>1. /\ TypeOK /\ Plain /\ ~Swallowed /\ hRead # <<>>
      /\ sPc = "await" /\ wire = <<>> /\ sLast = 0 /\ ~ Session!Complete(sBuffer)
      /\ Len(wire) = 0 /\ arriving \in 0 .. Len(packets)
  BY DEF RemoteInv, ReaderInv, SessionTurn, Damaged, Plain, TypeOK, ReaderOK, Session!Eof
<1>2. /\ Len(sRead) \in Nat /\ Len(sBuffer) \in Nat /\ Len(packets) \in Nat
      /\ DOMAIN packets = 1 .. Len(packets) /\ sBuffer \in Seq(ByteType)
  BY <1>1, Lengths DEF TypeOK, ReaderOK
<1>3. PICK start \in Starts(Len(packets)), taken \in Nat :
        Flow(start, taken) /\ SessionFlow(start, taken)
  BY <1>1 DEF RemoteInv, Flows
<1>4. /\ Len(sBuffer) <= taken
      /\ At(start, sBuffer, taken - Len(sBuffer))
      /\ start[Len(sRead) + 2] = taken - Len(sBuffer) + sLast
      /\ \A i \in 1 .. Len(sRead) : sRead[i] = i + 1
  BY <1>1, <1>3 DEF SessionFlow
<1>5. ASSUME arriving > Len(sRead) + 1  PROVE FALSE
  <2>1. PICK n \in 1 .. Len(packets) : n = Len(sRead) + 2 /\ n <= arriving
    BY <1>1, <1>2, <1>5
  <2>2. start[n + 1] <= taken + Len(wire)
    BY <1>2, <1>3, <2>1 DEF Flow
  <2>3. start[n] = taken - Len(sBuffer)
    BY <1>1, <1>2, <1>4, <2>1
  <2>4. At(start, sBuffer, start[n]) /\ start[n + 1] <= start[n] + Len(sBuffer)
    BY <1>1, <1>2, <1>4, <2>2, <2>3
  <2>5. Session!Complete(sBuffer)
    BY <1>1, <1>2, <1>3, <2>1, <2>4, SeenWhenWhole DEF Flow
  <2>. QED  BY <1>1, <2>5
<1>. QED  BY <1>1, <1>2, <1>4, <1>5

\* A step that the stream does not see.
LEMMA StreamStutters ==
    ASSUME ~Damaged, ~Damaged', UNCHANGED <<arriving, sRead, closed>>,
           sPc' = "ended" <=> sPc = "ended"
    PROVE  UNCHANGED Stream!pvars
<1>1. Damaged' = Damaged
  BY DEF Damaged, Swallowed
<1>2. (sPc = "ended")' = (sPc = "ended")
  OBVIOUS
<1>. QED  BY <1>1, <1>2 DEF Stream!pvars

LEMMA ClientSendImplements ==
    ASSUME RemoteInv, ~Damaged, ~Damaged',
           NEW head \in HeaderSizes, NEW body \in BodySizes,
           NEW length \in BodySizes \cup {0}, ClientSend(head, body, length)
    PROVE  [Stream!Next]_Stream!pvars
<1>1. /\ ~closed /\ Len(packets) + 1 <= MaxPackets /\ arriving' = Len(packets) + 1
      /\ UNCHANGED <<closed, sRead, sPc>>
  BY DEF ClientSend, sessionVars
<1>2. PICK last \in Nat : last = Len(packets)
  BY LenProperties DEF RemoteInv, ReaderInv, TypeOK
<1>3. arriving = last /\ arriving' = last + 1
  BY <1>1, <1>2 DEF RemoteInv, Flows, Flow, Damaged, Plain
<1>4. /\ Sent(last) \in Seq(Nat) /\ Sent(last + 1) \in Seq(Nat)
      /\ Len(Sent(last)) \in Nat
      /\ last = 0 => Len(Sent(last)) = 0
      /\ last # 0 => Len(Sent(last)) + 1 = last
      /\ Len(Sent(last + 1)) = last
      /\ \A i \in 1 .. Len(Sent(last)) : Sent(last)[i] = i + 1
      /\ \A i \in 1 .. last : Sent(last + 1)[i] = i + 1
  <2>1. PICK next \in Nat : next = last + 1 /\ next # 0
    OBVIOUS
  <2>2. /\ Sent(next) \in Seq(Nat) /\ Len(Sent(next)) + 1 = next /\ Len(Sent(next)) \in Nat
        /\ \A i \in 1 .. Len(Sent(next)) : Sent(next)[i] = i + 1
    BY <2>1, SentIsSeq
  <2>3. Len(Sent(next)) = last
    BY <2>1, <2>2
  <2>. QED  BY <2>1, <2>2, <2>3, SentIsSeq
<1>5. CASE last = 0
  <2>1. Sent(last) = <<>> /\ Sent(last + 1) = <<>>
    BY <1>4, <1>5, EmptySeq
  <2>2. Sent(arriving)' = Sent(arriving)
    BY <1>3, <2>1 DEF Sent
  <2>3. Damaged' = Damaged
    BY DEF Damaged, Swallowed
  <2>. QED  BY <1>1, <2>2, <2>3 DEF Stream!pvars, Sent
<1>6. CASE last # 0
  <2>1. PICK n \in 2 .. MaxPackets : n = last + 1
    BY <1>1, <1>2, <1>6, RemoteAssumption
  <2>2. Sent(last + 1) = Append(Sent(last), n)
    <3>1. /\ Append(Sent(last), n) \in Seq(Nat)
          /\ Len(Append(Sent(last), n)) = Len(Sent(last)) + 1
          /\ \A i \in 1 .. Len(Sent(last)) : Append(Sent(last), n)[i] = Sent(last)[i]
          /\ Append(Sent(last), n)[Len(Sent(last)) + 1] = n
      BY <1>4, <2>1, AppendProperties
    <3>2. \A i \in 1 .. Len(Sent(last + 1)) : Sent(last + 1)[i] = Append(Sent(last), n)[i]
      BY <1>4, <1>6, <2>1, <3>1
    <3>3. Len(Sent(last + 1)) = Len(Append(Sent(last), n))
      BY <1>4, <1>6, <3>1
    <3>. QED  BY <1>4, <3>1, <3>2, <3>3, SeqEqual
  <2>3. Sent(arriving)' = Append(Sent(arriving), n)
    BY <1>3, <2>2 DEF Sent
  <2>4. Stream!Send(n)
    BY <1>1, <2>3 DEF Stream!Send, Sent
  <2>. QED  BY <2>4 DEF Stream!Next
<1>. QED  BY <1>5, <1>6

LEMMA ClientCloseImplements ==
    ASSUME RemoteInv, RemoteInv', ~Damaged, ~Damaged', ClientClose
    PROVE  Stream!Next
<1>1. ~closed /\ closed' = TRUE /\ UNCHANGED <<packets, sRead, sPc>>
  BY DEF ClientClose, sessionVars
<1>2. PICK last \in Nat, left \in Nat : last = arriving /\ left = arriving'
  BY LenProperties DEF RemoteInv, ReaderInv, TypeOK
<1>3. left <= last
  <2>1. arriving = Len(packets)
    BY <1>1 DEF RemoteInv, Flows, Flow, Damaged, Plain
  <2>2. arriving' \in 0 .. Len(packets)
    BY <1>1 DEF RemoteInv, ReaderInv, TypeOK
  <2>. QED  BY <1>2, <2>1, <2>2
<1>4. /\ Sent(last) \in Seq(Nat) /\ Sent(left) \in Seq(Nat)
      /\ Len(Sent(last)) \in Nat /\ Len(Sent(left)) \in Nat
      /\ last = 0 => Len(Sent(last)) = 0
      /\ last # 0 => Len(Sent(last)) + 1 = last
      /\ left = 0 => Len(Sent(left)) = 0
      /\ left # 0 => Len(Sent(left)) + 1 = left
      /\ \A i \in 1 .. Len(Sent(last)) : Sent(last)[i] = i + 1
      /\ \A i \in 1 .. Len(Sent(left)) : Sent(left)[i] = i + 1
  BY SentIsSeq
<1>5. PICK n \in 0 .. Len(Sent(last)) : n = Len(Sent(left))
  BY <1>2, <1>3, <1>4
<1>6. Sent(left) = SubSeq(Sent(last), 1, n)
  <2>0. Len(Sent(last)) \in Nat /\ n \in Int /\ 1 \in Int
        /\ \A i \in 1 .. n : Sent(last)[i] \in Nat
    <3>1. Len(Sent(last)) \in Nat
      BY <1>4
    <3>2. ASSUME NEW i \in 1 .. n  PROVE Sent(last)[i] \in Nat
      <4>1. i \in 1 .. Len(Sent(last)) /\ i + 1 \in Nat
        BY <1>5, <3>1
      <4>. QED  BY <1>4, <4>1
    <3>. QED  BY <1>5, <3>1, <3>2
  <2>1. /\ SubSeq(Sent(last), 1, n) \in Seq(Nat)
        /\ Len(SubSeq(Sent(last), 1, n)) = IF 1 <= n THEN n - 1 + 1 ELSE 0
        /\ \A i \in 1 .. n - 1 + 1 : SubSeq(Sent(last), 1, n)[i] = Sent(last)[1 + i - 1]
    BY <2>0, SubSeqProperties
  <2>2. Len(SubSeq(Sent(last), 1, n)) = n
    BY <1>5, <2>0, <2>1
  <2>3. \A i \in 1 .. n : SubSeq(Sent(last), 1, n)[i] = Sent(left)[i]
    BY <1>4, <1>5, <2>0, <2>1
  <2>. QED  BY <1>4, <1>5, <2>1, <2>2, <2>3, SeqEqual
<1>7. Len(sRead) <= n /\ Len(sRead) \in Nat
  <2>1. Len(sRead') \in Nat /\ (sRead' = <<>> => Len(sRead') = 0)
    BY LenProperties DEF RemoteInv, ReaderInv, TypeOK, ReaderOK
  <2>2. Len(sRead') + 1 <= left \/ sRead' = <<>>
    BY <1>2, ReadHasArrived
  <2>. QED  BY <1>1, <1>2, <1>4, <1>5, <2>1, <2>2
<1>8. n \in Len(sRead) .. Len(Sent(arriving)) /\ Sent(arriving)' = SubSeq(Sent(arriving), 1, n)
  <2>1. Sent(arriving)' = Sent(left)
    BY <1>2 DEF Sent
  <2>. QED  BY <1>2, <1>5, <1>6, <1>7, <2>1
<1>9. Stream!Close
  BY <1>1, <1>8 DEF Stream!Close, Sent
<1>. QED  BY <1>9 DEF Stream!Next

LEMMA ReadHandshakeImplements ==
    ASSUME ~Damaged, ~Damaged', ReadHandshake
    PROVE  UNCHANGED Stream!pvars
<1>1. UNCHANGED <<arriving, sRead, sPc>>
  BY DEF ReadHandshake, sessionVars, clientHistory
<1>2. UNCHANGED closed
  BY DEF ReadHandshake, Handshake!Next, Handshake!ReadHttpPacket, Handshake!AppendBytes,
         Handshake!Eof, Handshake!connection
<1>. QED  BY <1>1, <1>2, StreamStutters

LEMMA GetDapMessageImplements ==
    ASSUME RemoteInv, RemoteInv', ~Damaged, ~Damaged', GetDapMessage
    PROVE  [Stream!Next]_Stream!pvars
<1>1. /\ stage = "session" /\ ~Swallowed /\ Plain' /\ TypeOK /\ TypeOK'
      /\ UNCHANGED <<packets, closed, arriving>>
  BY SessionConnection DEF GetDapMessage, clientHistory, Damaged, Plain, RemoteInv, ReaderInv
<1>2. PICK last \in Nat : last = arriving /\ last = arriving'
  BY <1>1, LenProperties DEF TypeOK
<1>3. /\ Sent(last) \in Seq(Nat)
      /\ Len(Sent(last)) \in Nat
      /\ last = 0 => Len(Sent(last)) = 0
      /\ last # 0 => Len(Sent(last)) + 1 = last
      /\ \A i \in 1 .. Len(Sent(last)) : Sent(last)[i] = i + 1
      /\ sRead \in Seq(Nat) /\ Len(sRead) \in Nat
      /\ sRead' \in Seq(Nat) /\ Len(sRead') \in Nat
  BY <1>1, SentIsSeq, LenProperties DEF TypeOK, ReaderOK
<1>4. Sent(arriving) = Sent(last) /\ Sent(arriving)' = Sent(last)
  BY <1>2 DEF Sent
<1>5. CASE Session!ReadHttpPacket \/ Session!AppendBytes
  <2>1. sPc # "ended" /\ sPc' # "ended"
    <3>1. PICK buffer \in Seq(ByteType) : Session!GetNextPacket(buffer)
      BY <1>1, <1>5, SessionTurns
    <3>. QED  BY <1>5, <3>1 DEF Session!GetNextPacket, Session!ReadHttpPacket, Session!AppendBytes
  <2>2. CASE sRead' = sRead
    BY <1>1, <2>1, <2>2, StreamStutters
  <2>3. CASE sRead' # sRead
    <3>1. sRead' = Append(sRead, Len(sRead) + 2) /\ Len(sRead) + 2 <= last
      BY <1>1, <1>2, <1>5, <2>3, SessionReads
    <3>2. Len(sRead) < Len(Sent(last)) /\ Sent(last)[Len(sRead) + 1] = Len(sRead) + 2
      BY <1>3, <3>1
    <3>3. /\ Len(sRead) < Len(Sent(arriving))
          /\ sRead' = Append(sRead, Sent(arriving)[Len(sRead) + 1])
          /\ Sent(arriving)' = Sent(arriving)
      BY <1>4, <3>1, <3>2
    <3>4. (sPc = "ended")' = (sPc = "ended")
      BY <2>1
    <3>5. Stream!Read
      BY <1>1, <3>3, <3>4 DEF Stream!Read, Sent
    <3>. QED  BY <3>5 DEF Stream!Next
  <2>. QED  BY <2>2, <2>3
<1>6. CASE Session!Eof
  <2>1. closed /\ (sPc = "ended")' = TRUE /\ sRead' = sRead
    BY <1>6 DEF Session!Eof
  <2>2. last <= Len(sRead) + 1 /\ \A i \in 1 .. Len(sRead) : sRead[i] = i + 1
    BY <1>1, <1>2, <1>6, NothingLeft
  <2>3. Len(sRead) + 1 <= last \/ sRead = <<>>
    BY <1>2, <2>1, ReadHasArrived
  <2>4. Len(sRead) = Len(Sent(last))
    <3>1. sRead = <<>> => Len(sRead) = 0
      OBVIOUS
    <3>. QED  BY <1>2, <1>3, <2>2, <2>3, <3>1
  <2>5. sRead = Sent(last)
    BY <1>3, <2>2, <2>4, SeqEqual
  <2>6. sRead = Sent(arriving) /\ Sent(arriving)' = Sent(arriving)
    BY <1>4, <2>5
  <2>7. Stream!End
    BY <1>1, <2>1, <2>6 DEF Stream!End, Sent
  <2>. QED  BY <2>7 DEF Stream!Next
<1>. QED  BY <1>5, <1>6 DEF GetDapMessage, Session!Next

LEMMA InitImplements ==
    ASSUME Init
    PROVE  Stream!Init
<1>1. /\ packets = <<>> /\ closed = FALSE /\ overlapped = FALSE
      /\ arriving = 0 /\ sRead = <<>> /\ hRead = <<>> /\ sPc = "idle"
  BY DEF Init, Handshake!Init, Session!Init
<1>2. Sent(0) = <<>>
  BY SentIsSeq, EmptySeq
<1>3. Sent(arriving) = <<>>
  BY <1>1, <1>2
<1>4. Damaged = FALSE
  <2>1. DOMAIN packets = {}
    BY <1>1
  <2>. QED  BY <1>1, <2>1 DEF Damaged, Swallowed
<1>. QED  BY <1>1, <1>3, <1>4 DEF Stream!Init, Sent

LEMMA NextImplements ==
    ASSUME RemoteInv, RemoteInv', [Next]_vars
    PROVE  [Stream!Next]_Stream!pvars
<1>1. CASE Damaged'
  BY <1>1 DEF Stream!Next
<1>2. CASE ~Damaged'
  <2>0. ~Damaged
    BY <1>2, DamageStays
  <2>1. CASE \E head \in HeaderSizes, body \in BodySizes, length \in BodySizes \cup {0} :
               ClientSend(head, body, length)
    BY <1>2, <2>0, <2>1, ClientSendImplements
  <2>2. CASE ClientClose
    BY <1>2, <2>0, <2>2, ClientCloseImplements
  <2>3. CASE ReadHandshake
    BY <1>2, <2>0, <2>3, ReadHandshakeImplements
  <2>4. CASE GetDapMessage
    BY <1>2, <2>0, <2>4, GetDapMessageImplements
  <2>5. CASE NoHandshake \/ Respond \/ CreateDebugSession \/ SessionEnds \/ SessionHalts \/ UNCHANGED vars
    <3>1. UNCHANGED <<arriving, sRead, closed, sPc>>
      BY <2>5, OtherSteps DEF OnlyStage, vars, sessionVars, clientHistory
    <3>. QED  BY <1>2, <2>0, <3>1, StreamStutters
  <2>. QED  BY <2>1, <2>2, <2>3, <2>4, <2>5 DEF Next, SpawnClientSession
<1>. QED  BY <1>1, <1>2

\* However the connection cuts and joins what the client sends, the session reads the
\* packets behind the handshake that arrive, whole, once and in order, and then the end,
\* unless a move overlapped, the handshake's reader kept bytes of the session or a body
\* had no length.
THEOREM ImplementsTheStream == Spec => ImplementsStream
<1>1. Init => Stream!Init
  BY InitImplements
<1>2. RemoteInv /\ RemoteInv' /\ [Next]_vars => [Stream!Next]_Stream!pvars
  BY NextImplements
<1>. QED  BY <1>1, <1>2, RemoteInvariant, PTL DEF Spec, ImplementsStream, Stream!Spec
=============================================================================
