-------------------------- MODULE RemoteController --------------------------
(***************************************************************************)
(* src/remotecontroller.cpp: what becomes of one client that Run accepted. *)
(* SpawnClientSession reads a handshake, answers it, asks the application  *)
(* for a controller and starts a session on the same connection.  The      *)
(* handshake and the session read with an HttpStream each.  Clients share  *)
(* nothing here, so there is one.                                          *)
(***************************************************************************)
EXTENDS Naturals, Sequences

CONSTANTS
    CopyOrders,         \* see HttpStream
    HeaderSizes,        \* how long a header may be
    BodySizes,          \* how long a body may be
    ClientMay,          \* liberties of the client: "eager" not to await the
                        \* answer to its handshake, "noLength" to leave out
                        \* Content-Length
    MaxPackets          \* bound: packets a client sends

Liberties == {"eager", "noLength"}

ASSUME RemoteAssumption ==
    /\ CopyOrders \subseteq {"up", "down"} /\ CopyOrders # {}
    /\ HeaderSizes \subseteq Nat \ {0} /\ BodySizes \subseteq Nat
    /\ ClientMay \subseteq Liberties
    /\ MaxPackets \in Nat

VARIABLES
    packets, wire, closed,              \* the connection, see HttpStream
    stage,                              \* where SpawnClientSession is
    hBuffer, hLast, hPc, hRead,         \* streamReader
    sBuffer, sLast, sPc, sRead,         \* _httpStream of the session's stream
    overlapped,                         \* history, see HttpStream
    arriving,                           \* history: packets of which no byte is dropped
    early,                              \* history: something was sent behind the
                                        \* handshake before its answer
    pipelined                           \* history: something was sent while the
                                        \* session had not read what was sent before

handshakeVars == <<hBuffer, hLast, hPc, hRead>>
sessionVars   == <<sBuffer, sLast, sPc, sRead>>
clientHistory == <<arriving, early, pipelined>>
vars == <<packets, wire, closed, stage, handshakeVars, sessionVars, overlapped, clientHistory>>

Handshake == INSTANCE HttpStream WITH
    inboundBuffer <- hBuffer, lastPacketSize <- hLast, readPc <- hPc, packetsRead <- hRead
Session == INSTANCE HttpStream WITH
    inboundBuffer <- sBuffer, lastPacketSize <- sLast, readPc <- sPc, packetsRead <- sRead

ByteType == [packet : 1 .. Len(packets), at : Nat]
ReaderOK(buffer, last, pc, read) ==
    /\ buffer \in Seq(ByteType)
    /\ last \in 0 .. Len(buffer)
    /\ pc \in {"idle", "await", "ended"}
    /\ pc # "idle" => last = 0
    /\ read \in Seq(Nat)

\* The last packet is in the buffer when it is popped: the Assert in
\* PopLastPacketBytes.
TypeOK ==
    /\ packets \in Seq([head : HeaderSizes, body : BodySizes, length : BodySizes \cup {0}])
    /\ wire \in Seq(ByteType)
    /\ closed \in BOOLEAN
    /\ stage \in {"handshake", "create", "session", "over", "halted"}
    /\ ReaderOK(hBuffer, hLast, hPc, hRead)
    /\ ReaderOK(sBuffer, sLast, sPc, sRead)
    /\ overlapped \in BOOLEAN /\ early \in BOOLEAN /\ pipelined \in BOOLEAN
    /\ arriving \in 0 .. Len(packets)

Init ==
    /\ packets = <<>> /\ wire = <<>> /\ closed = FALSE
    /\ stage = "handshake"
    /\ Handshake!Init /\ Session!Init
    /\ overlapped = FALSE /\ arriving = 0 /\ early = FALSE /\ pipelined = FALSE

----------------------------------------------------------------------------
(* The client.                                                              *)

Answered == stage # "handshake"

\* A whole packet is written; how it travels is up to the chunks of AppendBytes.
ClientSend(head, body, length) ==
    LET n == Len(packets) + 1 IN
    /\ ~closed /\ n <= MaxPackets
    /\ length = body \/ (length = 0 /\ "noLength" \in ClientMay)
    /\ n > 1 /\ ~Answered => "eager" \in ClientMay
    /\ packets' = Append(packets, [head |-> head, body |-> body, length |-> length])
    /\ wire' = wire \o [i \in 1 .. head + body |-> [packet |-> n, at |-> i]]
    /\ arriving' = n
    /\ early' = (early \/ (n > 1 /\ ~Answered))
    /\ pipelined' = (pipelined \/ Len(sRead) + 2 < n)
    /\ UNCHANGED <<closed, stage, handshakeVars, sessionVars, overlapped>>

\* The connection closes, and what is on its way may be cut anywhere.
ClientClose ==
    /\ ~closed
    /\ closed' = TRUE
    /\ \E n \in 0 .. Len(wire) :
         /\ wire' = SubSeq(wire, 1, n)
         /\ arriving' = IF n = Len(wire) THEN arriving ELSE wire[n + 1].packet - 1
    /\ UNCHANGED <<packets, stage, handshakeVars, sessionVars, overlapped, early, pipelined>>

----------------------------------------------------------------------------
(* SpawnClientSession, cut at its awaits.                                   *)

ReadHandshake ==
    /\ stage = "handshake" /\ hRead = <<>>
    /\ Handshake!Next
    /\ UNCHANGED <<stage, sessionVars, clientHistory>>

\* No packet: the coroutine ends.
NoHandshake ==
    /\ stage = "handshake" /\ hPc = "ended"
    /\ stage' = "over"
    /\ UNCHANGED <<packets, wire, closed, handshakeVars, sessionVars, overlapped, clientHistory>>

\* The answer is written; a write to a connection that was closed may throw, and
\* what it throws ends in Halt.
Respond ==
    /\ stage = "handshake" /\ hRead # <<>>
    /\ \/ stage' = "create"
       \/ closed /\ stage' = "halted"
    /\ UNCHANGED <<packets, wire, closed, handshakeVars, sessionVars, overlapped, clientHistory>>

\* The application has a controller for this client, or none.
CreateDebugSession ==
    /\ stage = "create"
    /\ stage' \in {"session", "over"}
    /\ UNCHANGED <<packets, wire, closed, handshakeVars, sessionVars, overlapped, clientHistory>>

\* DebugSession::Run, as far as the connection knows it: it reads, and then works on
\* what it has read until it reads again (sPc is "idle").
GetDapMessage ==
    /\ stage = "session"
    /\ Session!Next
    /\ UNCHANGED <<stage, handshakeVars, clientHistory>>

\* Run ends: nothing more to read, or by a message it has read.
SessionEnds ==
    /\ stage = "session"
    /\ sPc = "ended" \/ (sPc = "idle" /\ sRead # <<>>)
    /\ stage' = "over"
    /\ UNCHANGED <<packets, wire, closed, handshakeVars, sessionVars, overlapped, clientHistory>>

\* A response, or an event, is written to a connection that was closed.
SessionHalts ==
    /\ stage = "session" /\ sRead # <<>> /\ closed
    /\ stage' = "halted"
    /\ UNCHANGED <<packets, wire, closed, handshakeVars, sessionVars, overlapped, clientHistory>>

SpawnClientSession ==
    ReadHandshake \/ NoHandshake \/ Respond \/ CreateDebugSession \/ GetDapMessage
      \/ SessionEnds \/ SessionHalts

Next ==
    \/ \E h \in HeaderSizes, b \in BodySizes, l \in BodySizes \cup {0} : ClientSend(h, b, l)
    \/ ClientClose
    \/ SpawnClientSession

\* What goes on whenever the connection lets it: the handshake, and Run while it reads.
\* How long it works on what it has read is up to the session.
Proceeds ==
    \/ ReadHandshake \/ NoHandshake \/ Respond \/ CreateDebugSession
    \/ GetDapMessage /\ (sRead = <<>> \/ sPc = "await")
    \/ SessionEnds /\ sPc = "ended"

\* The client is under no obligation.
Spec == Init /\ [][Next]_vars /\ WF_vars(Proceeds)

----------------------------------------------------------------------------
\* A body that no Content-Length announces.
Unmeasured(n) == packets[n].length # packets[n].body

\* What the reader of the handshake took off the connection behind it.
Swallowed == hRead # <<>> /\ hLast < Len(hBuffer)

\* Bytes the session will never see as packets: an overlapping move, bytes left
\* in the handshake's buffer, a body without a length.
Damaged ==
    \/ overlapped
    \/ Swallowed
    \/ \E n \in DOMAIN packets : Unmeasured(n)

\* The handshake's reader takes nothing that belongs to the session, unless the
\* client sent it without waiting for the answer to the handshake, or the
\* handshake does not say how long it is.
HandshakeTakesItsOwn == Swallowed => early \/ Unmeasured(1)

\* memcpy is given ranges that overlap only when the client pipelines requests, or
\* sends a body that it does not announce.
OverlapIsPipelined == overlapped => pipelined \/ \E n \in DOMAIN packets : Unmeasured(n)

\* Through whatever chunks, the session reads exactly the packets that follow the
\* handshake, in order, and is told of the end only after the last.
Stream == INSTANCE PacketStream WITH
    Packets <- 2 .. MaxPackets,
    sent    <- [i \in 1 .. arriving - 1 |-> i + 1],
    read    <- sRead,
    ended   <- sPc = "ended",
    damaged <- Damaged
ImplementsStream == Stream!Spec

\* Run comes back from what it does with each message it reads (there are finitely many
\* here).  It does for a client that awaits each response, which DebugSession shows; a
\* client that pipelines can leave it in an await for ever.
RunReturns == []<>(stage # "session" \/ sPc # "idle")

\* If Run comes back from each message, a packet that arrives is read, as long as the
\* session is there.
EveryPacketRead ==
    RunReturns =>
      \A n \in 2 .. MaxPackets :
        (stage = "session" /\ n <= arriving)
            ~> (n \in {sRead[i] : i \in DOMAIN sRead} \/ stage # "session" \/ Damaged
                  \/ n > arriving)

\* If it does, a client that closes its connection leaves no coroutine behind, even if
\* it closes it in the middle of a packet.
ConnectionEnds == RunReturns => (closed ~> stage \in {"over", "halted"})
=============================================================================
