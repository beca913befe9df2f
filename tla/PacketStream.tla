---------------------------- MODULE PacketStream ----------------------------
(***************************************************************************)
(* What a session expects of its connection, with no bytes, chunks or      *)
(* buffers: it reads, in order and once each, the packets that arrive, and *)
(* then the end.  Closing the connection may drop packets that nobody has  *)
(* read yet.  Once the stream is damaged nothing is promised.              *)
(***************************************************************************)
EXTENDS Naturals, Sequences

CONSTANT Packets

VARIABLES
    sent,       \* the packets that arrive, in order
    read,       \* those the session has read
    closed,     \* the client has closed the connection
    ended,      \* the session has been told so
    damaged

pvars == <<sent, read, closed, ended, damaged>>

Init ==
    /\ sent = <<>> /\ read = <<>>
    /\ closed = FALSE /\ ended = FALSE
    /\ damaged = FALSE

Send(p) ==
    /\ ~closed
    /\ sent' = Append(sent, p)
    /\ UNCHANGED <<read, closed, ended>>

Read ==
    /\ Len(read) < Len(sent)
    /\ read' = Append(read, sent[Len(read) + 1])
    /\ UNCHANGED <<sent, closed, ended>>

Close ==
    /\ closed' = TRUE
    /\ \E n \in Len(read) .. Len(sent) : sent' = SubSeq(sent, 1, n)
    /\ UNCHANGED <<read, ended>>

End ==
    /\ closed
    /\ read = sent
    /\ ended' = TRUE
    /\ UNCHANGED <<sent, read, closed>>

Next ==
    \/ damaged'
    \/ /\ ~damaged /\ ~damaged'
       /\ (\E p \in Packets : Send(p)) \/ Read \/ Close \/ End

Spec == Init /\ [][Next]_pvars
=============================================================================
