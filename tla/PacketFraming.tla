---------------------------- MODULE PacketFraming ----------------------------
(***************************************************************************)
(* One direction of a connection: tasks that call SendPacketAsync on one   *)
(* session, the byte stream of the socket, and the peer's receive loop.    *)
(* A packet is a header that carries the body's length and a body; the     *)
(* stream cuts it anywhere.  Bytes are numbered within their packet, and   *)
(* the values of all but the header's are left out.                        *)
(***************************************************************************)
EXTENDS Integers, Sequences, FiniteSets

CONSTANTS
    Senders,        \* the calls of SendPacketAsync, one packet each
    BodyLength,     \* bytes of each packet's body
    HeaderLength,   \* bytes of a header
    MaxPacketSize,  \* the largest body
    Capacity        \* bytes the socket buffers hold

ASSUME FramingAssumption ==
    /\ HeaderLength \in Nat \ {0} /\ MaxPacketSize \in Nat \ {0} /\ Capacity \in Nat \ {0}
    /\ BodyLength \in [Senders -> Nat \ {0}]
    /\ "header" \notin Senders

VARIABLES
    progress,   \* where each call is
    written,    \* bytes of its packet a call has written
    lock,       \* the calls that hold _sendLock
    order,      \* the packets begun, in order
    closed,     \* whether the session is closed
    stream,     \* bytes written and not read
    buffer,     \* bytes of the header or body being read
    reading,    \* what the receiver reads: "header", or the body of a packet
    received,   \* bodies the receive loop was given
    receiver    \* "open"; "ended" after an orderly end, "failed" on a bad length

sending == <<progress, written, lock, order>>
receiving == <<buffer, reading, received, receiver>>
framing == <<sending, closed, stream, receiving>>

PacketLength(k) == HeaderLength + BodyLength[k]
Header(k) == [i \in 1 .. HeaderLength |-> <<k, i>>]
Body(k) == [i \in 1 .. BodyLength[k] |-> <<k, HeaderLength + i>>]

FramingInit ==
    /\ progress = [k \in Senders |-> "start"]
    /\ written = [k \in Senders |-> 0]
    /\ lock = {} /\ order = <<>>
    /\ closed = FALSE
    /\ stream = <<>>
    /\ buffer = <<>> /\ reading = "header"
    /\ received = <<>> /\ receiver = "open"

-----------------------------------------------------------------------------
(***************************************************************************)
(* SendPacketAsync and PacketProtocol.SendAsync.                           *)
(***************************************************************************)
Goto(k, place) == progress' = [progress EXCEPT ![k] = place]

Call(k) ==
    /\ progress[k] = "start"
    /\ Goto(k, IF closed THEN "returned" ELSE "waiting")
    /\ UNCHANGED <<written, lock, order, closed, stream, receiving>>

\* Mutant: no lock.
LockFree_Always(k) == TRUE
LockFree(k) == lock = {}

Acquire(k) ==
    /\ progress[k] = "waiting" /\ LockFree(k)
    /\ lock' = lock \cup {k}
    /\ IF closed
       THEN Goto(k, "release") /\ UNCHANGED <<order, closed>>
       ELSE IF BodyLength[k] > MaxPacketSize
       THEN Goto(k, "release") /\ closed' = TRUE /\ UNCHANGED order
       ELSE Goto(k, "writing") /\ order' = Append(order, k) /\ UNCHANGED closed
    /\ UNCHANGED <<written, stream, receiving>>

\* The header, then the body, in whatever pieces the socket takes them.
Write(k) ==
    /\ progress[k] = "writing" /\ ~closed
    /\ Len(stream) < Capacity
    /\ written[k] < PacketLength(k)
    /\ written' = [written EXCEPT ![k] = @ + 1]
    /\ stream' = Append(stream, <<k, written[k] + 1>>)
    /\ UNCHANGED <<progress, lock, order, closed, receiving>>

Written(k) ==
    /\ progress[k] = "writing" /\ written[k] = PacketLength(k)
    /\ Goto(k, "release")
    /\ UNCHANGED <<written, lock, order, closed, stream, receiving>>

\* A write throws: the peer has reset the connection, or somebody closed the
\* session.  The session is closed.
ClosedByError == TRUE

WriteThrows(k) ==
    /\ progress[k] = "writing"
    /\ closed' = ClosedByError
    /\ Goto(k, "release")
    /\ UNCHANGED <<written, lock, order, stream, receiving>>

\* finally: the lock is released on every way out.
\* Mutant: only a written packet releases it.
LockAfter_Success(k) == IF written[k] = PacketLength(k) THEN lock \ {k} ELSE lock
LockAfter(k) == lock \ {k}

Release(k) ==
    /\ progress[k] = "release"
    /\ lock' = LockAfter(k)
    /\ Goto(k, "returned")
    /\ UNCHANGED <<written, order, closed, stream, receiving>>

\* Close by another thread, under a write or not.
Close ==
    /\ ~closed
    /\ closed' = TRUE
    /\ UNCHANGED <<sending, stream, receiving>>

-----------------------------------------------------------------------------
(***************************************************************************)
(* PacketProtocol.ReceiveAsync, and NetworkClient::ReceivePacket alike.    *)
(***************************************************************************)
Wanted == IF reading = "header" THEN HeaderLength ELSE BodyLength[reading]

\* ReadExact: a read returns some of the bytes wanted.
ReadSizes == {n \in 1 .. Len(stream) : n <= Wanted - Len(buffer)}

Read ==
    /\ receiver = "open" /\ Len(buffer) < Wanted
    /\ \E n \in ReadSizes :
        /\ buffer' = buffer \o SubSeq(stream, 1, n)
        /\ stream' = SubSeq(stream, n + 1, Len(stream))
    /\ UNCHANGED <<sending, closed, reading, received, receiver>>

\* A header of bytes that are no header says any length; here, a bad one.
ReadHeader ==
    /\ receiver = "open" /\ reading = "header" /\ Len(buffer) >= Wanted
    /\ \/ \E k \in Senders :
            /\ buffer = Header(k) /\ BodyLength[k] <= MaxPacketSize
            /\ reading' = k
            /\ UNCHANGED receiver
       \/ /\ \A k \in Senders : ~(buffer = Header(k) /\ BodyLength[k] <= MaxPacketSize)
          /\ receiver' = "failed"
          /\ UNCHANGED reading
    /\ buffer' = <<>>
    /\ UNCHANGED <<sending, closed, stream, received>>

ReadBody ==
    /\ receiver = "open" /\ reading # "header" /\ Len(buffer) >= Wanted
    /\ received' = Append(received, buffer)
    /\ buffer' = <<>> /\ reading' = "header"
    /\ UNCHANGED <<sending, closed, stream, receiver>>

\* A read of no bytes: the receive loop ends.
EndOfStream ==
    /\ receiver = "open" /\ closed /\ stream = <<>> /\ Len(buffer) < Wanted
    /\ receiver' = "ended"
    /\ UNCHANGED <<sending, closed, stream, buffer, reading, received>>

Send(k) == Call(k) \/ Acquire(k) \/ Write(k) \/ Written(k) \/ Release(k)
Fail(k) == WriteThrows(k)
Receive == Read \/ ReadHeader \/ ReadBody \/ EndOfStream

FramingNext == (\E k \in Senders : Send(k) \/ Fail(k)) \/ Close \/ Receive

FramingSpec == FramingInit /\ [][FramingNext]_framing

\* The tasks run, the peer reads, and a write on a closed socket throws.
FramingFairSpec ==
    /\ FramingSpec
    /\ \A k \in Senders : WF_framing(Send(k)) /\ WF_framing(closed /\ Fail(k))
    /\ WF_framing(Receive)

-----------------------------------------------------------------------------
(***************************************************************************)
(* Properties.                                                             *)
(***************************************************************************)
Places == {"start", "waiting", "writing", "release", "returned"}

TypeOK ==
    /\ progress \in [Senders -> Places]
    /\ \A k \in Senders : written[k] \in 0 .. PacketLength(k)
    /\ lock \subseteq Senders
    /\ order \in Seq(Senders)
    /\ closed \in BOOLEAN
    /\ Len(stream) <= Capacity
    /\ reading \in Senders \cup {"header"}
    /\ Len(buffer) <= Wanted
    /\ receiver \in {"open", "ended", "failed"}

\* The bodies handed to the receive loop are those of the packets begun, whole,
\* unmixed and in the order the sends got the lock, whoever sends at once and
\* wherever the stream cuts; and the receiver never takes something else for a
\* header, also after a send that failed half-way: nothing is written behind it
\* (ClientSession.cs:594-617, PacketProtocol.cs:10-63).
PacketsArriveWhole ==
    /\ TypeOK
    /\ Len(received) <= Len(order)
    /\ \A i \in DOMAIN received : received[i] = Body(order[i])
    /\ receiver # "failed"

\* Every call returns, and a packet that was written is received or the
\* session ends: no way out of a send keeps the lock (ClientSession.cs:613-616).
SendsReturn ==
    \A k \in Senders :
        /\ progress[k] = "waiting" ~> progress[k] = "returned"
        /\ progress[k] = "returned" ~> closed \/ \E i \in DOMAIN received : received[i] = Body(k)
==============================================================================
