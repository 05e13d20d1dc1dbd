---------------------------- MODULE FrameReader ----------------------------
(***************************************************************************)
(* The stream of an attached socket and the reading of it: recv_exact and  *)
(* read_frame of DockerFrameReader (src/docker_adapter.py), called in a    *)
(* loop by container_rpc.  The daemon sends frames, each a header that     *)
(* holds the length of the payload after it; TCP splits and joins them at  *)
(* will, and the stream may end anywhere when the container dies.          *)
(*                                                                         *)
(* A byte is the place it has in the stream, so that what the reader makes *)
(* of the bytes can be compared with what was sent.                        *)
(***************************************************************************)
EXTENDS Naturals, Sequences

CONSTANTS
    HeaderSize,     \* of the header of a frame, in bytes
    Start           \* Start[k]: the bytes before frame k; the last entry is
                    \* the length of the whole stream

ASSUME FrameReaderAssumption ==
    /\ HeaderSize \in Nat \ {0}
    /\ Start \in Seq(Nat) /\ Len(Start) > 0 /\ Start[1] = 0
    /\ \A j, k \in DOMAIN Start : j < k => Start[j] + HeaderSize <= Start[k]

FrameNo == 1..(Len(Start) - 1)
Total == Start[Len(Start)]

\* The bytes after place a up to place b.
Bytes(a, b) == [i \in 1..(b - a) |-> a + i]

Header(k) == Bytes(Start[k], Start[k] + HeaderSize)
Payload(k) == Bytes(Start[k] + HeaderSize, Start[k + 1])

\* struct.unpack(">I", header[4:8]); bytes that are no header say anything.
PayloadLen(h) ==
    IF \E k \in FrameNo : h = Header(k)
    THEN Len(Payload(CHOOSE k \in FrameNo : h = Header(k)))
    ELSE 1

VARIABLES
    written,    \* bytes that have reached the host
    closed,     \* the daemon has closed the stream
    read,       \* bytes taken from the socket
    pc,         \* the recv the reader is in, or how its loop ended
    header,     \* the bytes of the header it has
    payload,    \* the bytes of the payload it has
    got         \* payloads read_frame has returned

vars == <<written, closed, read, pc, header, payload, got>>

ReaderPC == {"header", "rest", "payload", "eof", "broken", "timeout"}
Reading == pc \in {"header", "rest", "payload"}

Init ==
    /\ written = 0 /\ closed = FALSE
    /\ read = 0 /\ pc = "header" /\ header = <<>> /\ payload = <<>> /\ got = <<>>

(***************************************************************************)
(* The daemon and the network                                              *)
(***************************************************************************)

DaemonWrites ==
    /\ ~closed
    /\ written' \in (written + 1)..Total
    /\ UNCHANGED <<closed, read, pc, header, payload, got>>

\* The container is gone: also in the middle of a frame.
StreamCloses ==
    /\ ~closed /\ closed' = TRUE
    /\ UNCHANGED <<written, read, pc, header, payload, got>>

(***************************************************************************)
(* The reader                                                              *)
(***************************************************************************)

\* What sock.recv(n) may return: some of the bytes that are there.
Chunks(n) == {Bytes(read, e) : e \in {b \in (read + 1)..written : b <= read + n}}

\* read_frame returns p, and container_rpc calls it again.
ReturnFrame(p) ==
    /\ got' = Append(got, p)
    /\ pc' = "header" /\ header' = <<>> /\ payload' = <<>>

\* A mutant of ParseHeader: a frame without payload is taken for the end.
ParseHeader_EmptyIsEof(h) ==
    IF PayloadLen(h) = 0
    THEN pc' = "eof" /\ UNCHANGED <<header, payload, got>>
    ELSE pc' = "payload" /\ header' = h /\ UNCHANGED <<payload, got>>

\* A frame without a payload is complete with its header.
ParseHeader(h) ==
    IF PayloadLen(h) = 0
    THEN ReturnFrame(<<>>)
    ELSE pc' = "payload" /\ header' = h /\ UNCHANGED <<payload, got>>

\* A mutant of RecvHeader: the first recv is taken for the whole header.
RecvHeader_Once ==
    /\ pc = "header"
    /\ \E c \in Chunks(HeaderSize) :
           /\ read' = read + Len(c)
           /\ ParseHeader(c)
    /\ UNCHANGED <<written, closed>>

RecvHeader ==
    /\ pc = "header"
    /\ \E c \in Chunks(HeaderSize) :
           /\ read' = read + Len(c)
           /\ IF Len(c) < HeaderSize
              THEN pc' = "rest" /\ header' = c /\ UNCHANGED <<payload, got>>
              ELSE ParseHeader(c)
    /\ UNCHANGED <<written, closed>>

\* recv_exact, for what is missing of the header,
RecvRest ==
    /\ pc = "rest"
    /\ \E c \in Chunks(HeaderSize - Len(header)) :
           /\ read' = read + Len(c)
           /\ IF Len(header \o c) < HeaderSize
              THEN header' = header \o c /\ UNCHANGED <<pc, payload, got>>
              ELSE ParseHeader(header \o c)
    /\ UNCHANGED <<written, closed>>

\* A mutant of RecvPayload: whatever the first recv returns is the payload.
RecvPayload_Once ==
    /\ pc = "payload"
    /\ \E c \in Chunks(PayloadLen(header)) :
           /\ read' = read + Len(c)
           /\ ReturnFrame(c)
    /\ UNCHANGED <<written, closed>>

\* and for the payload.
RecvPayload ==
    /\ pc = "payload"
    /\ \E c \in Chunks(PayloadLen(header) - Len(payload)) :
           /\ read' = read + Len(c)
           /\ IF Len(payload \o c) < PayloadLen(header)
              THEN payload' = payload \o c /\ UNCHANGED <<pc, header, got>>
              ELSE ReturnFrame(payload \o c)
    /\ UNCHANGED <<written, closed>>

\* recv returns b"": between two frames that is the end of the stream (None),
\* within one recv_exact raises a ConnectionError.
RecvEnds ==
    /\ Reading /\ closed /\ read = written
    /\ pc' = IF pc = "header" THEN "eof" ELSE "broken"
    /\ UNCHANGED <<written, closed, read, header, payload, got>>

\* socket.timeout, which container_rpc makes a ConnectionError of.
RecvTimesOut ==
    /\ Reading /\ ~closed /\ read = written
    /\ pc' = "timeout"
    /\ UNCHANGED <<written, closed, read, header, payload, got>>

Receive == RecvHeader \/ RecvRest \/ RecvPayload \/ RecvEnds

Next == DaemonWrites \/ StreamCloses \/ Receive \/ RecvTimesOut

\* A recv returns when there is something to return.
Spec == Init /\ [][Next]_vars /\ WF_vars(Receive)

(***************************************************************************)
(* Properties                                                              *)
(***************************************************************************)

\* The values of the variables.
TypeOK ==
    /\ written \in 0..Total /\ read \in 0..Total
    /\ closed \in BOOLEAN
    /\ pc \in ReaderPC
    /\ header \in Seq(1..Total) /\ payload \in Seq(1..Total)
    /\ pc \in {"header", "rest"} => Len(header) < HeaderSize
    /\ pc = "payload" => Len(header) = HeaderSize
    /\ got \in Seq(Seq(1..Total))

\* However the stream is cut into chunks, the payloads read_frame returns are
\* those that were sent, in order, each of them whole.
WholeFrames ==
    /\ Len(got) < Len(Start)
    /\ \A k \in DOMAIN got : got[k] = Payload(k)

\* The two ways a stream ends are told apart: None is returned when everything
\* that was sent has been returned as frames, a ConnectionError is raised when
\* the last frame is cut off.
EndsExactly ==
    /\ pc = "eof" => written = Start[Len(got) + 1]
    /\ pc = "broken" => /\ Len(got) + 1 \in FrameNo
                        /\ Start[Len(got) + 1] < written
                        /\ written < Start[Len(got) + 2]

\* A frame that has arrived is returned, unless the reader gave up before: none
\* is left waiting for bytes of the frame behind it.
FramesDelivered ==
    \A k \in FrameNo : written >= Start[k + 1] ~> Len(got) >= k \/ pc = "timeout"
=============================================================================
