---------------------------- MODULE StreamProofs ----------------------------
(***************************************************************************)
(* Theorems about RemoteController: the types of both readers through      *)
(* chunks and moves of any size, and what the reader of the handshake may  *)
(* take off the connection.                                                *)
(***************************************************************************)
EXTENDS RemoteController, SequenceTheorems, TLAPS

(* Packets and the bytes they are made of.                                  *)

PacketType == [head : HeaderSizes, body : BodySizes, length : BodySizes \cup {0}]

\* The quotient times the divisor stays below the number: where a byte that was
\* overwritten comes from.
LEMMA QuotientBound ==
    ASSUME NEW a \in Nat, NEW b \in Nat \ {0}
    PROVE  b * (a \div b) \in 0 .. a
  OBVIOUS

\* The sizes of a packet are numbers, and none is empty.
LEMMA SizesOfPacket ==
    ASSUME TypeOK, NEW n \in DOMAIN packets
    PROVE  /\ packets[n].head \in Nat \ {0}
           /\ packets[n].body \in Nat
           /\ packets[n].length \in Nat
<1>1. packets \in Seq(PacketType)
  BY DEF TypeOK, PacketType
<1>2. packets[n] \in PacketType
  BY <1>1, ElementOfSeq, LenProperties
<1>3. /\ packets[n].head \in HeaderSizes
      /\ packets[n].body \in BodySizes
      /\ packets[n].length \in BodySizes \cup {0}
  BY <1>2 DEF PacketType
<1>4. /\ \A size \in HeaderSizes : size \in Nat \ {0}
      /\ \A size \in BodySizes \cup {0} : size \in Nat
  BY RemoteAssumption
<1>. QED  BY <1>3, <1>4, Zenon

\* The first byte of a buffer belongs to a packet, whose size is a positive number.
LEMMA FirstOfBuffer ==
    ASSUME TypeOK, NEW buffer \in Seq(ByteType), buffer # <<>>
    PROVE  /\ Len(buffer) \in Nat \ {0}
           /\ buffer[1].packet \in DOMAIN packets
           /\ packets[buffer[1].packet].head + packets[buffer[1].packet].length \in Nat \ {0}
<1>1. Len(buffer) \in Nat \ {0}
  BY EmptySeq
<1>2. buffer[1] \in ByteType
  BY <1>1, ElementOfSeq
<1>3. buffer[1].packet \in DOMAIN packets
  BY <1>2, LenProperties DEF ByteType, TypeOK
<1>. QED  BY <1>1, <1>3, SizesOfPacket

\* A prefix of a buffer is a chunk of bytes, and the rest is one too.
LEMMA CutBytes ==
    ASSUME NEW S, NEW bytes \in Seq(S), NEW n \in 0 .. Len(bytes)
    PROVE  /\ SubSeq(bytes, 1, n) \in Seq(S)
           /\ Len(SubSeq(bytes, 1, n)) = n
           /\ SubSeq(bytes, n + 1, Len(bytes)) \in Seq(S)
           /\ Len(SubSeq(bytes, n + 1, Len(bytes))) = Len(bytes) - n
<1>1. Len(bytes) \in Nat /\ \A i \in 1 .. Len(bytes) : bytes[i] \in S
  BY LenProperties, ElementOfSeq
<1>2. \A i \in 1 .. n : bytes[i] \in S
  BY <1>1
<1>3. \A i \in n + 1 .. Len(bytes) : bytes[i] \in S
  BY <1>1
<1>4. /\ SubSeq(bytes, 1, n) \in Seq(S)
      /\ Len(SubSeq(bytes, 1, n)) = IF 1 <= n THEN n - 1 + 1 ELSE 0
  BY <1>2, SubSeqProperties
<1>5. /\ SubSeq(bytes, n + 1, Len(bytes)) \in Seq(S)
      /\ Len(SubSeq(bytes, n + 1, Len(bytes)))
           = IF n + 1 <= Len(bytes) THEN Len(bytes) - (n + 1) + 1 ELSE 0
  BY <1>1, <1>3, SubSeqProperties
<1>. QED  BY <1>1, <1>4, <1>5

----------------------------------------------------------------------------
(* Steps of the readers.                                                    *)

\* With no last packet nothing is moved.
LEMMA NothingPopped ==
    ASSUME hLast = 0, NEW order
    PROVE  Handshake!Popped(order) = hBuffer
  BY DEF Handshake!Popped

\* Whichever way memcpy copies, bytes remain that the client sent.
LEMMA PoppedIsBytes ==
    ASSUME TypeOK, NEW order
    PROVE  Session!Popped(order) \in Seq(ByteType)
<1>1. sBuffer \in Seq(ByteType) /\ sLast \in 0 .. Len(sBuffer) /\ Len(sBuffer) \in Nat
  BY LenProperties DEF TypeOK, ReaderOK
<1>2. CASE sLast = 0
  BY <1>1, <1>2 DEF Session!Popped
<1>3. CASE sLast # 0
  <2>. DEFINE from(i) == IF order = "up" THEN i + sLast
                         ELSE i + sLast * ((Len(sBuffer) - i) \div sLast)
              e(i) == sBuffer[from(i)]
              n == Len(sBuffer) - sLast
  <2>1. ASSUME NEW i \in 1 .. n  PROVE from(i) \in 1 .. Len(sBuffer)
    <3>1. Len(sBuffer) - i \in Nat /\ sLast \in Nat \ {0}
      BY <1>1, <1>3
    <3>2. sLast * ((Len(sBuffer) - i) \div sLast) \in 0 .. Len(sBuffer) - i
      BY <3>1, QuotientBound
    <3>. QED  BY <1>1, <3>2
  <2>2. \A i \in 1 .. n : e(i) \in ByteType
    BY <1>1, <2>1, ElementOfSeq
  <2>3. n \in Nat
    BY <1>1
  <2>4. Session!Popped(order) = [i \in 1 .. n |-> e(i)]
    BY <1>3 DEF Session!Popped, Session!Left
  <2>. HIDE DEF e, n
  <2>5. [i \in 1 .. n |-> e(i)] \in [1 .. n -> ByteType]
    BY <2>2
  <2>. QED  BY <2>3, <2>4, <2>5, SeqDef
<1>. QED  BY <1>2, <1>3

\* One turn of the loop, for either reader.
LEMMA HandshakeGets ==
    ASSUME TypeOK, UNCHANGED packets,
           NEW buffer \in Seq(ByteType), Handshake!GetNextPacket(buffer)
    PROVE  ReaderOK(hBuffer, hLast, hPc, hRead)'
<1>1. ByteType' = ByteType
  BY DEF ByteType
<1>2. Len(buffer) \in Nat /\ hRead \in Seq(Nat) /\ hBuffer' = buffer
  BY LenProperties DEF TypeOK, ReaderOK, Handshake!GetNextPacket
<1>3. CASE Handshake!Complete(buffer)
  <2>1. buffer # <<>> /\ Handshake!PacketSize(buffer) <= Len(buffer)
    BY <1>3 DEF Handshake!Complete, Handshake!Header
  <2>2. Handshake!PacketSize(buffer) \in 1 .. Len(buffer)
    BY <2>1, <1>2, FirstOfBuffer DEF Handshake!PacketSize
  <2>. DEFINE bytes == SubSeq(buffer, 1, Handshake!PacketSize(buffer))
  <2>3. bytes \in Seq(ByteType) /\ bytes # <<>>
    BY <2>2, <1>2, CutBytes, EmptySeq
  <2>4. Handshake!Contents(bytes) \in Nat
    BY <2>3, FirstOfBuffer, LenProperties DEF Handshake!Contents, TypeOK
  <2>5. /\ hLast' = Handshake!PacketSize(buffer) /\ hPc' = "idle"
        /\ hRead' = Append(hRead, Handshake!Contents(bytes))
    BY <1>3 DEF Handshake!GetNextPacket
  <2>. HIDE DEF bytes
  <2>6. hRead' \in Seq(Nat)
    BY <1>2, <2>4, <2>5
  <2>. QED  BY <1>1, <1>2, <2>2, <2>5, <2>6 DEF ReaderOK
<1>4. CASE ~ Handshake!Complete(buffer)
  BY <1>1, <1>2, <1>4 DEF ReaderOK, Handshake!GetNextPacket
<1>. QED  BY <1>3, <1>4

LEMMA SessionGets ==
    ASSUME TypeOK, UNCHANGED packets,
           NEW buffer \in Seq(ByteType), Session!GetNextPacket(buffer)
    PROVE  ReaderOK(sBuffer, sLast, sPc, sRead)'
<1>1. ByteType' = ByteType
  BY DEF ByteType
<1>2. Len(buffer) \in Nat /\ sRead \in Seq(Nat) /\ sBuffer' = buffer
  BY LenProperties DEF TypeOK, ReaderOK, Session!GetNextPacket
<1>3. CASE Session!Complete(buffer)
  <2>1. buffer # <<>> /\ Session!PacketSize(buffer) <= Len(buffer)
    BY <1>3 DEF Session!Complete, Session!Header
  <2>2. Session!PacketSize(buffer) \in 1 .. Len(buffer)
    BY <2>1, <1>2, FirstOfBuffer DEF Session!PacketSize
  <2>. DEFINE bytes == SubSeq(buffer, 1, Session!PacketSize(buffer))
  <2>3. bytes \in Seq(ByteType) /\ bytes # <<>>
    BY <2>2, <1>2, CutBytes, EmptySeq
  <2>4. Session!Contents(bytes) \in Nat
    BY <2>3, FirstOfBuffer, LenProperties DEF Session!Contents, TypeOK
  <2>5. /\ sLast' = Session!PacketSize(buffer) /\ sPc' = "idle"
        /\ sRead' = Append(sRead, Session!Contents(bytes))
    BY <1>3 DEF Session!GetNextPacket
  <2>. HIDE DEF bytes
  <2>6. sRead' \in Seq(Nat)
    BY <1>2, <2>4, <2>5
  <2>. QED  BY <1>1, <1>2, <2>2, <2>5, <2>6 DEF ReaderOK
<1>4. CASE ~ Session!Complete(buffer)
  BY <1>1, <1>2, <1>4 DEF ReaderOK, Session!GetNextPacket
<1>. QED  BY <1>3, <1>4

----------------------------------------------------------------------------
(* Type correctness.                                                        *)

\* The parts of TypeOK: what the client sent, and the two readers.
ClientOK ==
    /\ packets \in Seq([head : HeaderSizes, body : BodySizes, length : BodySizes \cup {0}])
    /\ early \in BOOLEAN /\ pipelined \in BOOLEAN
    /\ arriving \in 0 .. Len(packets)

HandshakeOK == ReaderOK(hBuffer, hLast, hPc, hRead)
SessionOK   == ReaderOK(sBuffer, sLast, sPc, sRead)

LEMMA ClientSendType ==
    ASSUME TypeOK, NEW head \in HeaderSizes, NEW body \in BodySizes,
           NEW length \in BodySizes \cup {0}, ClientSend(head, body, length)
    PROVE  /\ TypeOK'
           /\ Len(wire') = Len(wire) + head + body
           /\ Len(packets') = Len(packets) + 1
           /\ \A i \in DOMAIN packets : packets'[i] = packets[i]
           /\ packets'[Len(packets) + 1] = [head |-> head, body |-> body, length |-> length]
<1>. DEFINE packet == [head |-> head, body |-> body, length |-> length]
            bytes == [i \in 1 .. head + body |-> [packet |-> Len(packets) + 1, at |-> i]]
<1>1. packets \in Seq(PacketType) /\ Len(packets) \in Nat /\ packet \in PacketType
  BY LenProperties DEF TypeOK, PacketType
<1>2. packets' = Append(packets, packet) /\ wire' = wire \o bytes
  BY DEF ClientSend
<1>3. /\ packets' \in Seq(PacketType)
      /\ Len(packets') = Len(packets) + 1
      /\ \A i \in 1 .. Len(packets) : packets'[i] = packets[i]
      /\ packets'[Len(packets) + 1] = packet
  <2>. HIDE DEF packet
  <2>. QED  BY <1>1, <1>2, AppendProperties
<1>4. head + body \in Nat
  BY RemoteAssumption
<1>5. ByteType \subseteq ByteType'
  BY <1>1, <1>3 DEF ByteType
<1>6. bytes \in Seq(ByteType') /\ Len(bytes) = head + body
  <2>1. bytes \in [1 .. head + body -> ByteType']
    BY <1>1, <1>3, <1>4 DEF ByteType
  <2>2. bytes \in Seq(ByteType')
    BY <2>1, <1>4, SeqDef
  <2>. HIDE DEF bytes
  <2>. QED  BY <2>1, <2>2, <1>4, LenProperties
<1>7. wire \in Seq(ByteType')
  BY <1>5, SeqMonotonic DEF TypeOK
<1>8. wire' \in Seq(ByteType)' /\ Len(wire') = Len(wire) + Len(bytes)
  <2>. HIDE DEF bytes
  <2>. QED  BY <1>2, <1>6, <1>7, ConcatProperties
<1>9. Len(wire') = Len(wire) + head + body
  BY <1>4, <1>6, <1>7, <1>8, LenProperties, RemoteAssumption
<1>10. HandshakeOK' /\ SessionOK'
  <2>1. hBuffer \in Seq(ByteType') /\ sBuffer \in Seq(ByteType')
    BY <1>5, SeqMonotonic DEF TypeOK, ReaderOK
  <2>. QED  BY <2>1 DEF HandshakeOK, SessionOK, TypeOK, ReaderOK, ClientSend,
                         handshakeVars, sessionVars
<1>11. ClientOK'
  BY <1>1, <1>3 DEF ClientOK, ClientSend, TypeOK, PacketType
<1>12. TypeOK'
  BY <1>8, <1>10, <1>11 DEF TypeOK, ClientOK, HandshakeOK, SessionOK, ClientSend
<1>. QED  BY <1>1, <1>3, <1>9, <1>12, LenProperties

LEMMA ClientCloseType ==
    ASSUME TypeOK, ClientClose
    PROVE  TypeOK' /\ Len(wire') <= Len(wire)
<1>1. PICK n \in 0 .. Len(wire) :
        /\ wire' = SubSeq(wire, 1, n)
        /\ arriving' = IF n = Len(wire) THEN arriving ELSE wire[n + 1].packet - 1
  BY DEF ClientClose
<1>2. wire \in Seq(ByteType) /\ Len(wire) \in Nat /\ Len(packets) \in Nat
  BY LenProperties DEF TypeOK
<1>3. wire' \in Seq(ByteType) /\ Len(wire') = n
  BY <1>1, <1>2, CutBytes
<1>4. arriving' \in 0 .. Len(packets)
  <2>1. CASE n = Len(wire)
    BY <1>1, <2>1 DEF TypeOK
  <2>2. CASE n # Len(wire)
    <3>1. n + 1 \in 1 .. Len(wire)
      BY <1>2, <2>2
    <3>2. wire[n + 1] \in ByteType
      BY <1>2, <3>1, ElementOfSeq
    <3>. QED  BY <1>1, <1>2, <2>2, <3>2 DEF ByteType
  <2>. QED  BY <2>1, <2>2
<1>5. ByteType' = ByteType
  BY DEF ByteType, ClientClose
<1>6. ClientOK' /\ HandshakeOK' /\ SessionOK'
  BY <1>4, <1>5 DEF ClientOK, HandshakeOK, SessionOK, ReaderOK, TypeOK, ClientClose,
                    handshakeVars, sessionVars
<1>7. TypeOK'
  BY <1>3, <1>5, <1>6 DEF TypeOK, ClientOK, HandshakeOK, SessionOK, ClientClose
<1>. QED  BY <1>2, <1>3, <1>7

\* A call or a chunk makes one turn of the loop, and the bytes that are in the
\* buffer or on their way stay as many.
LEMMA HandshakeTurns ==
    ASSUME TypeOK, hLast = 0, Handshake!ReadHttpPacket \/ Handshake!AppendBytes
    PROVE  /\ UNCHANGED <<packets, closed>>
           /\ overlapped' \in BOOLEAN
           /\ wire' \in Seq(ByteType)
           /\ \E buffer \in Seq(ByteType) :
                /\ Handshake!GetNextPacket(buffer)
                /\ Len(buffer) + Len(wire') = Len(hBuffer) + Len(wire)
<1>1. hBuffer \in Seq(ByteType) /\ wire \in Seq(ByteType) /\ Len(hBuffer) \in Nat /\ Len(wire) \in Nat
  BY LenProperties DEF TypeOK, ReaderOK
<1>2. CASE Handshake!ReadHttpPacket
  <2>1. Handshake!GetNextPacket(hBuffer)
    BY <1>2, NothingPopped DEF Handshake!ReadHttpPacket
  <2>. QED  BY <1>1, <1>2, <2>1 DEF Handshake!ReadHttpPacket, Handshake!connection, TypeOK
<1>3. CASE Handshake!AppendBytes
  <2>1. PICK n \in 1 .. Len(wire) :
          /\ Handshake!GetNextPacket(hBuffer \o SubSeq(wire, 1, n))
          /\ wire' = SubSeq(wire, n + 1, Len(wire))
    BY <1>3 DEF Handshake!AppendBytes
  <2>. DEFINE chunk == SubSeq(wire, 1, n)
  <2>2. n \in 0 .. Len(wire)
    BY <1>1
  <2>3. /\ chunk \in Seq(ByteType) /\ Len(chunk) = n
        /\ wire' \in Seq(ByteType) /\ Len(wire') = Len(wire) - n
    BY <1>1, <2>1, <2>2, CutBytes
  <2>. HIDE DEF chunk
  <2>4. hBuffer \o chunk \in Seq(ByteType) /\ Len(hBuffer \o chunk) = Len(hBuffer) + n
    BY <1>1, <2>3, ConcatProperties
  <2>5. Len(hBuffer \o chunk) + Len(wire') = Len(hBuffer) + Len(wire)
    BY <1>1, <2>3, <2>4
  <2>. QED  BY <1>3, <2>1, <2>3, <2>4, <2>5 DEF chunk, Handshake!AppendBytes, TypeOK
<1>. QED  BY <1>2, <1>3

LEMMA SessionTurns ==
    ASSUME TypeOK, Session!ReadHttpPacket \/ Session!AppendBytes
    PROVE  /\ UNCHANGED <<packets, closed>>
           /\ overlapped' \in BOOLEAN
           /\ wire' \in Seq(ByteType)
           /\ \E buffer \in Seq(ByteType) : Session!GetNextPacket(buffer)
<1>1. sBuffer \in Seq(ByteType) /\ wire \in Seq(ByteType) /\ Len(wire) \in Nat
  BY LenProperties DEF TypeOK, ReaderOK
<1>2. CASE Session!ReadHttpPacket
  <2>1. \E order \in CopyOrders : Session!GetNextPacket(Session!Popped(order))
    BY <1>2 DEF Session!ReadHttpPacket
  <2>. QED  BY <1>1, <1>2, <2>1, PoppedIsBytes
             DEF Session!ReadHttpPacket, Session!connection, TypeOK
<1>3. CASE Session!AppendBytes
  <2>1. PICK n \in 1 .. Len(wire) :
          /\ Session!GetNextPacket(sBuffer \o SubSeq(wire, 1, n))
          /\ wire' = SubSeq(wire, n + 1, Len(wire))
    BY <1>3 DEF Session!AppendBytes
  <2>2. n \in 0 .. Len(wire)
    BY <1>1
  <2>3. SubSeq(wire, 1, n) \in Seq(ByteType) /\ wire' \in Seq(ByteType)
    BY <1>1, <2>1, <2>2, CutBytes
  <2>4. sBuffer \o SubSeq(wire, 1, n) \in Seq(ByteType)
    BY <1>1, <2>3, ConcatProperties
  <2>. QED  BY <1>3, <2>1, <2>3, <2>4 DEF Session!AppendBytes, TypeOK
<1>. QED  BY <1>2, <1>3

LEMMA ReadHandshakeType ==
    ASSUME TypeOK, hLast = 0, ReadHandshake
    PROVE  TypeOK'
<1>1. ByteType' = ByteType /\ ClientOK' /\ SessionOK'
  <2>1. UNCHANGED packets
    BY DEF ReadHandshake, Handshake!Next, Handshake!ReadHttpPacket, Handshake!AppendBytes,
           Handshake!Eof, Handshake!connection
  <2>. QED  BY <2>1 DEF ByteType, ClientOK, SessionOK, ReaderOK, TypeOK, ReadHandshake,
                         sessionVars, clientHistory
<1>2. CASE Handshake!ReadHttpPacket \/ Handshake!AppendBytes
  <2>1. HandshakeOK'
    BY <1>2, HandshakeTurns, HandshakeGets DEF HandshakeOK
  <2>. QED  BY <1>1, <1>2, <2>1, HandshakeTurns
             DEF TypeOK, ClientOK, HandshakeOK, SessionOK, ReadHandshake
<1>3. CASE Handshake!Eof
  <2>1. HandshakeOK' /\ UNCHANGED <<wire, closed, overlapped>>
    BY <1>1, <1>3 DEF Handshake!Eof, Handshake!connection, HandshakeOK, ReaderOK, TypeOK
  <2>. QED  BY <1>1, <2>1 DEF TypeOK, ClientOK, HandshakeOK, SessionOK, ReadHandshake
<1>. QED  BY <1>2, <1>3 DEF ReadHandshake, Handshake!Next

LEMMA GetDapMessageType ==
    ASSUME TypeOK, GetDapMessage
    PROVE  TypeOK'
<1>1. ByteType' = ByteType /\ ClientOK' /\ HandshakeOK'
  <2>1. UNCHANGED packets
    BY DEF GetDapMessage, Session!Next, Session!ReadHttpPacket, Session!AppendBytes,
           Session!Eof, Session!connection
  <2>. QED  BY <2>1 DEF ByteType, ClientOK, HandshakeOK, ReaderOK, TypeOK, GetDapMessage,
                         handshakeVars, clientHistory
<1>2. CASE Session!ReadHttpPacket \/ Session!AppendBytes
  <2>1. SessionOK'
    BY <1>2, SessionTurns, SessionGets DEF SessionOK
  <2>. QED  BY <1>1, <1>2, <2>1, SessionTurns
             DEF TypeOK, ClientOK, HandshakeOK, SessionOK, GetDapMessage
<1>3. CASE Session!Eof
  <2>1. SessionOK' /\ UNCHANGED <<wire, closed, overlapped>>
    BY <1>1, <1>3 DEF Session!Eof, Session!connection, SessionOK, ReaderOK, TypeOK
  <2>. QED  BY <1>1, <2>1 DEF TypeOK, ClientOK, HandshakeOK, SessionOK, GetDapMessage
<1>. QED  BY <1>2, <1>3 DEF GetDapMessage, Session!Next

\* Everything else moves SpawnClientSession on and touches nothing but its stage.
OnlyStage ==
    /\ stage' \in {"create", "session", "over", "halted"}
    /\ UNCHANGED <<packets, wire, closed, handshakeVars, sessionVars, overlapped, clientHistory>>

LEMMA OtherSteps ==
    ASSUME NoHandshake \/ Respond \/ CreateDebugSession \/ SessionEnds \/ SessionHalts
    PROVE  OnlyStage
  BY DEF NoHandshake, Respond, CreateDebugSession, SessionEnds, SessionHalts, OnlyStage

LEMMA OnlyStageType ==
    ASSUME TypeOK, OnlyStage \/ UNCHANGED vars
    PROVE  TypeOK'
<1>1. UNCHANGED <<packets, wire, closed, handshakeVars, sessionVars, overlapped, clientHistory>>
  BY DEF OnlyStage, vars
<1>2. ByteType' = ByteType
  BY <1>1 DEF ByteType
<1>3. stage' \in {"handshake", "create", "session", "over", "halted"}
  BY DEF OnlyStage, vars, TypeOK
<1>4. ClientOK' /\ HandshakeOK' /\ SessionOK'
  BY <1>1, <1>2 DEF ClientOK, HandshakeOK, SessionOK, ReaderOK, TypeOK, handshakeVars,
                    sessionVars, clientHistory
<1>. QED  BY <1>1, <1>2, <1>3, <1>4 DEF TypeOK, ClientOK, HandshakeOK, SessionOK

----------------------------------------------------------------------------
(* What the handshake's reader takes.                                       *)

\* Until the answer a client that waits has sent its handshake and nothing else, so
\* the reader's buffer and what is on its way hold at most the bytes of that.
ReaderBound ==
    /\ hRead = <<>> => hLast = 0
    /\ hRead # <<>> => packets # <<>>
    /\ stage = "handshake" /\ ~early => Len(packets) <= 1
    /\ stage = "handshake" /\ ~early /\ hRead = <<>> =>
         Len(hBuffer) + Len(wire)
           <= IF packets = <<>> THEN 0 ELSE packets[1].head + packets[1].body

ReaderInv == TypeOK /\ ReaderBound /\ HandshakeTakesItsOwn

LEMMA InitReader ==
    ASSUME Init
    PROVE  ReaderInv
<1>1. /\ <<>> \in Seq([head : HeaderSizes, body : BodySizes, length : BodySizes \cup {0}])
      /\ <<>> \in Seq(ByteType) /\ <<>> \in Seq(Nat) /\ Len(<<>>) = 0
  BY EmptySeq
<1>2. /\ packets = <<>> /\ wire = <<>> /\ hBuffer = <<>> /\ sBuffer = <<>>
      /\ hRead = <<>> /\ sRead = <<>> /\ hLast = 0 /\ sLast = 0
      /\ hPc = "idle" /\ sPc = "idle" /\ stage = "handshake" /\ closed = FALSE
      /\ overlapped = FALSE /\ arriving = 0 /\ early = FALSE /\ pipelined = FALSE
  BY DEF Init, Handshake!Init, Session!Init
<1>3. HandshakeOK /\ SessionOK
  BY <1>1, <1>2 DEF HandshakeOK, SessionOK, ReaderOK
<1>4. TypeOK
  <2>1. packets \in Seq([head : HeaderSizes, body : BodySizes, length : BodySizes \cup {0}])
    BY <1>1, <1>2
  <2>2. wire \in Seq(ByteType) /\ arriving \in 0 .. Len(packets)
    BY <1>1, <1>2
  <2>. QED  BY <1>2, <1>3, <2>1, <2>2 DEF TypeOK, HandshakeOK, SessionOK
<1>5. ReaderBound /\ HandshakeTakesItsOwn
  BY <1>1, <1>2 DEF ReaderBound, HandshakeTakesItsOwn, Swallowed
<1>. QED  BY <1>4, <1>5 DEF ReaderInv

LEMMA ClientSendReader ==
    ASSUME ReaderInv, NEW head \in HeaderSizes, NEW body \in BodySizes,
           NEW length \in BodySizes \cup {0}, ClientSend(head, body, length)
    PROVE  ReaderInv'
<1>. USE DEF ReaderInv
<1>1. /\ TypeOK'
      /\ Len(wire') = Len(wire) + head + body
      /\ Len(packets') = Len(packets) + 1
      /\ \A i \in DOMAIN packets : packets'[i] = packets[i]
      /\ packets'[Len(packets) + 1] = [head |-> head, body |-> body, length |-> length]
  BY ClientSendType
<1>2. /\ Len(packets) \in Nat /\ (packets = <<>> <=> Len(packets) = 0)
      /\ DOMAIN packets = 1 .. Len(packets)
      /\ packets' # <<>>
      /\ Len(hBuffer) \in Nat /\ Len(wire) \in Nat
  BY <1>1, LenProperties, EmptySeq DEF TypeOK, ReaderOK
<1>3. head \in Nat /\ body \in Nat
  BY RemoteAssumption
<1>4. /\ UNCHANGED <<stage, hBuffer, hLast, hRead>>
      /\ early => early'
  BY DEF ClientSend, handshakeVars
<1>5. ReaderBound'
  <2>1. CASE packets = <<>>
    <3>1. packets'[1].head = head /\ packets'[1].body = body
      BY <1>1, <1>2, <2>1
    <3>2. Len(packets') = 1 /\ packets' # <<>> /\ hRead = <<>>
      BY <1>1, <1>2, <2>1 DEF ReaderBound
    <3>3. ASSUME stage = "handshake", ~early'
          PROVE  Len(hBuffer) + Len(wire') <= packets'[1].head + packets'[1].body
      <4>1. Len(hBuffer) + Len(wire) <= 0
        BY <1>4, <2>1, <3>2, <3>3 DEF ReaderBound
      <4>. QED  BY <1>1, <1>2, <1>3, <3>1, <4>1
    <3>. QED  BY <1>4, <3>2, <3>3 DEF ReaderBound
  <2>2. CASE packets # <<>>
    <3>1. Len(packets) + 1 > 1
      BY <1>2, <2>2
    <3>2. stage = "handshake" => early'
      BY <3>1 DEF ClientSend, Answered
    <3>. QED  BY <1>2, <1>4, <2>2, <3>2 DEF ReaderBound
  <2>. QED  BY <2>1, <2>2
<1>6. HandshakeTakesItsOwn'
  <2>1. CASE hRead = <<>>
    BY <1>4, <2>1 DEF HandshakeTakesItsOwn, Swallowed
  <2>2. CASE hRead # <<>>
    <3>1. packets'[1] = packets[1]
      BY <1>1, <1>2, <2>2 DEF ReaderBound
    <3>. QED  BY <1>4, <3>1 DEF HandshakeTakesItsOwn, Swallowed, Unmeasured
  <2>. QED  BY <2>1, <2>2
<1>. QED  BY <1>1, <1>5, <1>6

LEMMA ClientCloseReader ==
    ASSUME ReaderInv, ClientClose
    PROVE  ReaderInv'
<1>. USE DEF ReaderInv
<1>1. TypeOK' /\ Len(wire') <= Len(wire)
  BY ClientCloseType
<1>2. UNCHANGED <<packets, stage, hBuffer, hLast, hRead, early>>
  BY DEF ClientClose, handshakeVars
<1>3. Len(wire) \in Nat /\ Len(wire') \in Nat /\ Len(hBuffer) \in Nat
  BY <1>1, LenProperties DEF TypeOK, ReaderOK
<1>4. ReaderBound'
  <2>1. CASE packets = <<>>
    BY <1>1, <1>2, <1>3, <2>1 DEF ReaderBound
  <2>2. CASE packets # <<>>
    <3>1. packets[1].head + packets[1].body \in Nat
      BY <2>2, SizesOfPacket, LenProperties, EmptySeq DEF TypeOK
    <3>. QED  BY <1>1, <1>2, <1>3, <2>2, <3>1 DEF ReaderBound
  <2>. QED  BY <2>1, <2>2
<1>5. HandshakeTakesItsOwn'
  BY <1>2 DEF HandshakeTakesItsOwn, Swallowed, Unmeasured
<1>. QED  BY <1>1, <1>4, <1>5

\* The reader returns a packet when it has all of it: for a client that waits that
\* is the whole handshake, so nothing is left behind it.
LEMMA ReadHandshakeReader ==
    ASSUME ReaderInv, ReadHandshake
    PROVE  ReaderInv'
<1>. USE DEF ReaderInv
<1>1. stage = "handshake" /\ hRead = <<>> /\ hLast = 0 /\ UNCHANGED <<stage, early>>
  BY DEF ReadHandshake, ReaderBound, clientHistory
<1>2. TypeOK'
  BY <1>1, ReadHandshakeType
<1>3. CASE Handshake!ReadHttpPacket \/ Handshake!AppendBytes
  <2>1. PICK buffer \in Seq(ByteType) :
          /\ Handshake!GetNextPacket(buffer)
          /\ Len(buffer) + Len(wire') = Len(hBuffer) + Len(wire)
    BY <1>1, <1>3, HandshakeTurns
  <2>2. UNCHANGED packets /\ hBuffer' = buffer
    BY <1>1, <1>3, <2>1, HandshakeTurns DEF Handshake!GetNextPacket
  <2>3. Len(buffer) \in Nat /\ Len(wire') \in Nat
    BY <1>2, LenProperties DEF TypeOK
  <2>4. CASE Handshake!Complete(buffer)
    <3>1. buffer # <<>>
      BY <2>4 DEF Handshake!Complete, Handshake!Header
    <3>. DEFINE n == buffer[1].packet
    <3>2. n \in DOMAIN packets /\ packets # <<>>
      BY <3>1, FirstOfBuffer, LenProperties, EmptySeq DEF TypeOK
    <3>3. hLast' = packets[n].head + packets[n].length
      BY <2>1, <2>4 DEF Handshake!GetNextPacket, Handshake!PacketSize
    <3>4. hRead' # <<>>
      <4>1. hRead' = Append(hRead, Handshake!Contents(SubSeq(buffer, 1, Handshake!PacketSize(buffer))))
        BY <2>1, <2>4 DEF Handshake!GetNextPacket
      <4>2. Append(hRead, Handshake!Contents(SubSeq(buffer, 1, Handshake!PacketSize(buffer)))) # <<>>
        BY <1>1
      <4>. QED  BY <4>1, <4>2
    <3>5. ReaderBound'
      BY <1>1, <2>2, <3>2, <3>4 DEF ReaderBound
    <3>6. ASSUME ~early, ~Unmeasured(1)  PROVE ~(hLast' < Len(buffer))
      <4>1. n = 1
        BY <1>1, <3>2, <3>6, LenProperties DEF ReaderBound, TypeOK
      <4>2. packets[1].head \in Nat /\ packets[1].body \in Nat
        BY <3>2, <4>1, SizesOfPacket
      <4>3. hLast' = packets[1].head + packets[1].body
        BY <3>3, <3>6, <4>1 DEF Unmeasured
      <4>4. Len(buffer) + Len(wire') <= packets[1].head + packets[1].body
        BY <1>1, <2>1, <3>2, <3>6 DEF ReaderBound
      <4>. QED  BY <2>3, <4>2, <4>3, <4>4
    <3>7. HandshakeTakesItsOwn'
      BY <1>1, <2>2, <3>6 DEF HandshakeTakesItsOwn, Swallowed, Unmeasured
    <3>. QED  BY <1>2, <3>5, <3>7
  <2>5. CASE ~ Handshake!Complete(buffer)
    <3>1. hLast' = 0 /\ hRead' = <<>>
      BY <1>1, <2>1, <2>5 DEF Handshake!GetNextPacket
    <3>2. ReaderBound'
      BY <1>1, <2>1, <2>2, <3>1 DEF ReaderBound
    <3>. QED  BY <1>2, <3>1, <3>2 DEF HandshakeTakesItsOwn, Swallowed
  <2>. QED  BY <2>4, <2>5
<1>4. CASE Handshake!Eof
  <2>1. UNCHANGED <<packets, wire, hBuffer, hLast, hRead>>
    BY <1>4 DEF Handshake!Eof, Handshake!connection
  <2>. QED  BY <1>1, <1>2, <2>1 DEF ReaderBound, HandshakeTakesItsOwn, Swallowed
<1>. QED  BY <1>3, <1>4 DEF ReadHandshake, Handshake!Next

\* After the answer the reader is gone and its buffer stays what it is.
LEMMA ElsewhereReader ==
    ASSUME ReaderInv, GetDapMessage \/ OnlyStage \/ UNCHANGED vars
    PROVE  ReaderInv'
<1>. USE DEF ReaderInv
<1>1. TypeOK'
  BY GetDapMessageType, OnlyStageType
<1>2. UNCHANGED <<packets, hBuffer, hLast, hRead, early>>
  <2>1. CASE GetDapMessage
    BY <2>1 DEF GetDapMessage, handshakeVars, clientHistory, Session!Next,
                Session!ReadHttpPacket, Session!AppendBytes, Session!Eof, Session!connection
  <2>2. CASE OnlyStage \/ UNCHANGED vars
    BY <2>2 DEF OnlyStage, vars, handshakeVars, clientHistory
  <2>. QED  BY <2>1, <2>2
<1>3. stage' # "handshake" \/ UNCHANGED <<stage, wire>>
  BY DEF GetDapMessage, OnlyStage, vars
<1>4. ReaderBound'
  BY <1>2, <1>3 DEF ReaderBound
<1>5. HandshakeTakesItsOwn'
  BY <1>2 DEF HandshakeTakesItsOwn, Swallowed, Unmeasured
<1>. QED  BY <1>1, <1>4, <1>5

LEMMA NextReader ==
    ASSUME ReaderInv, [Next]_vars
    PROVE  ReaderInv'
<1>1. ASSUME NEW head \in HeaderSizes, NEW body \in BodySizes,
             NEW length \in BodySizes \cup {0}, ClientSend(head, body, length)
      PROVE  ReaderInv'
  BY <1>1, ClientSendReader
<1>2. CASE ClientClose
  BY <1>2, ClientCloseReader
<1>3. CASE ReadHandshake
  BY <1>3, ReadHandshakeReader
<1>4. CASE GetDapMessage
  BY <1>4, ElsewhereReader
<1>5. CASE NoHandshake \/ Respond \/ CreateDebugSession \/ SessionEnds \/ SessionHalts
  BY <1>5, OtherSteps, ElsewhereReader
<1>6. CASE UNCHANGED vars
  BY <1>6, ElsewhereReader
<1>. QED  BY <1>1, <1>2, <1>3, <1>4, <1>5, <1>6 DEF Next, SpawnClientSession

\* The readers hold no more than what the client has sent; what the two theorems
\* below rest on.
THEOREM ReaderInvariant == Spec => []ReaderInv
  BY InitReader, NextReader, PTL DEF Spec

\* Whatever the sizes of headers and bodies, the chunks and the direction of
\* memcpy, both readers keep their types: the last packet is in the buffer when
\* PopLastPacketBytes pops it, and no byte in a buffer is one nobody sent.
THEOREM TypeCorrect == Spec => []TypeOK
  BY ReaderInvariant, PTL DEF ReaderInv

\* The reader of the handshake takes nothing that belongs to the session, unless
\* the client sent it before the answer or gave the handshake a wrong length.
THEOREM HandshakeIsAllItTakes == Spec => []HandshakeTakesItsOwn
  BY ReaderInvariant, PTL DEF ReaderInv
=============================================================================
